------------------------------ MODULE PeersProofs ------------------------------
(***************************************************************************)
(* Proofs about what a node keeps of its peers and agrees upon with them:  *)
(* duplicate detection, identities, file transfers, groups, capabilities,  *)
(* verification by QR code and Noise sessions, each on its own and for any *)
(* instance.                                                               *)
(*                                                                         *)
(* The inductive invariant of the sessions says, slot by slot, what the    *)
(* messages on the network and the ciphertexts on the wire must look like  *)
(* for the session in that slot to be where it is. Messages and            *)
(* ciphertexts are never removed, so a step can only disturb the slot it   *)
(* writes. Since any bytes may be handed to any session, what keeps two    *)
(* sessions apart is that each owns the ephemeral key it wrote first.      *)
(***************************************************************************)
EXTENDS NoiseSession, Verification, IdentityManager, GroupMessaging, Capabilities, Deduplication,
        FileTransfer, TLAPS, FiniteSetTheorems, WellFoundedInduction

-----------------------------------------------------------------------------
(* Duplicate detection *)

IsFilter(f) == f = [bits |-> f.bits, created_at |-> f.created_at] /\ f.created_at \in Nat

\* Each filter has the bits of the packets that went into it; a filter with
\* packets in it is there, and the primary one always is.
DedupInv ==
    /\ dedup_now \in Nat
    /\ IsFilter(primary) /\ ~TooFull(primary)
    /\ secondary # NoFilter \/ previous = {}
    /\ \A p \in recent : BitsOf[p] \subseteq primary.bits
    /\ \A p \in previous : BitsOf[p] \subseteq secondary.bits

LEMMA NewFilterOK ==
    ASSUME dedup_now \in Nat
    PROVE  IsFilter(NewFilter) /\ ~TooFull(NewFilter)
<1>1. Cardinality(NewFilter.bits) = 0
    BY FS_EmptySet DEF NewFilter
<1> QED
    BY <1>1, DedupAssumption DEF NewFilter, IsFilter, TooFull

LEMMA FilterIsThere ==
    ASSUME NEW f, IsFilter(f)
    PROVE  f # NoFilter
    BY DEF IsFilter, NoFilter

LEMMA RotateKeeps ==
    ASSUME DedupInv, UNCHANGED dedup_now,
           NEW f, NEW s, NEW other, NEW others, RotateIfNeeded(f, s, other, others),
           IsFilter(f), \A p \in s : BitsOf[p] \subseteq f.bits,
           other # NoFilter \/ others = {}, \A p \in others : BitsOf[p] \subseteq other.bits
    PROVE  DedupInv'
<1>1. f # NoFilter
    BY FilterIsThere
<1>2. dedup_now \in Nat /\ IsFilter(NewFilter) /\ ~TooFull(NewFilter)
    BY NewFilterOK DEF DedupInv
<1>3. CASE should_rotate_filters(f)
    <2>1. primary' = NewFilter /\ recent' = {} /\ secondary' = f /\ previous' = s
        BY <1>3 DEF RotateIfNeeded, Rotated
    <2>2. IsFilter(primary') /\ ~TooFull(primary')
        BY <1>2, <2>1
    <2> QED
        BY <1>1, <1>2, <2>1, <2>2 DEF DedupInv, TooFull
<1>4. CASE ~should_rotate_filters(f)
    <2>1. primary' = f /\ recent' = s /\ secondary' = other /\ previous' = others
        BY <1>4 DEF RotateIfNeeded
    <2>2. ~TooFull(f)
        BY <1>4 DEF should_rotate_filters
    <2> QED
        BY <1>2, <2>1, <2>2 DEF DedupInv, TooFull
<1> QED
    BY <1>3, <1>4

LEMMA DedupInitInv == DedupInit => DedupInv
    BY NewFilterOK DEF DedupInit, DedupInv

LEMMA DedupNextInv == DedupInv /\ [DedupNext]_dedupVars => DedupInv'
<1> SUFFICES ASSUME DedupInv, [DedupNext]_dedupVars PROVE DedupInv'
    OBVIOUS
<1>1. ASSUME NEW p \in PacketId, check_and_add(p) PROVE DedupInv'
    <2>1. IsFilter(add(primary, p)) /\ add(primary, p).bits = primary.bits \cup BitsOf[p]
        <3>1. primary = [bits |-> primary.bits, created_at |-> primary.created_at]
            BY DEF DedupInv, IsFilter
        <3>2. add(primary, p) = [bits |-> primary.bits \cup BitsOf[p], created_at |-> primary.created_at]
            BY <3>1 DEF add
        <3> QED
            BY <3>2 DEF IsFilter, DedupInv
    <2> QED
        BY <1>1, <2>1, RotateKeeps DEF check_and_add, DedupInv
<1>2. CASE rotate_filters
    <2>1. primary' = NewFilter /\ recent' = {} /\ secondary' = primary /\ previous' = recent /\ UNCHANGED dedup_now
        BY <1>2 DEF rotate_filters, Rotated
    <2>2. primary # NoFilter
        BY FilterIsThere DEF DedupInv
    <2> QED
        BY <2>1, <2>2, NewFilterOK DEF DedupInv, TooFull
<1>3. CASE maintain
    BY <1>3, RotateKeeps DEF maintain, DedupInv
<1>4. CASE clear_filters
    BY <1>4, NewFilterOK DEF clear_filters, DedupInv, TooFull
<1>5. CASE DedupTick
    BY <1>5 DEF DedupTick, DedupInv, TooFull
<1>6. CASE UNCHANGED dedupVars
    BY <1>6 DEF dedupVars, DedupInv, TooFull
<1> QED
    BY <1>1, <1>2, <1>3, <1>4, <1>5, <1>6 DEF DedupNext

\* A packet in either filter is always called a duplicate, and the primary filter
\* is never left too full, for any hashes and any traffic (check_and_add,
\* should_rotate_filters).
THEOREM FiltersAreSound == DedupSpec => []FiltersSound
<1>1. DedupInv => FiltersSound
    <2> SUFFICES ASSUME DedupInv PROVE FiltersSound
        OBVIOUS
    <2>1. primary # NoFilter
        BY FilterIsThere DEF DedupInv
    <2> QED
        BY <2>1 DEF DedupInv, FiltersSound, DuplicatesCaught, FillBounded, is_duplicate, contains
<1> QED
    BY <1>1, DedupInitInv, DedupNextInv, PTL DEF DedupSpec

-----------------------------------------------------------------------------
(* Identities *)

IdTimes == id_now \in Nat /\ last_cache_save \in Nat /\ last_change \in Nat
IdInv == IdTimes /\ IdentitySound

LEMMA NothingKnown == Fingerprints(NewCache) = {}
<1>1. NewCache.verified = {} /\ \A f \in IdFingerprint : NewCache.crypto[f] = NoTime /\ NewCache.social[f] = Absent
    BY DEF NewCache
<1> QED
    BY <1>1 DEF Fingerprints

\* Every change that asks for a save goes through Modify.
LEMMA ModifyKeeps ==
    ASSUME IdInv, NEW c, Modify(c)
    PROVE  IdInv'
<1>1. PICK ok \in BOOLEAN : save_cache_if_needed(c, ok)
    BY DEF Modify
<1>2. /\ cache' = c /\ asked' = c /\ last_change' = id_now
      /\ admitted' = admitted \cup Fingerprints(c)
      /\ cache_key' = cache_key /\ id_now' = id_now
    BY DEF Modify
<1>3. CASE cache_key /\ id_now - last_cache_save >= SaveInterval /\ ok
    <2>1. stored' = c /\ last_cache_save' = id_now
        BY <1>1, <1>3 DEF save_cache_if_needed, save_cache_now, store
    <2> QED
        BY <1>2, <2>1 DEF IdInv, IdTimes, IdentitySound, StorageLags, PanicForgets, Fingerprints
<1>4. CASE cache_key /\ id_now - last_cache_save >= SaveInterval /\ ~ok
    <2>1. stored' = stored /\ refused' = TRUE /\ last_cache_save' = last_cache_save
        BY <1>1, <1>4 DEF save_cache_if_needed, save_cache_now, store
    <2> QED
        BY <1>2, <1>4, <2>1 DEF IdInv, IdTimes, IdentitySound, StorageLags, PanicForgets, Fingerprints
<1>5. CASE ~(cache_key /\ id_now - last_cache_save >= SaveInterval)
    <2>1. stored' = stored /\ refused' = refused /\ last_cache_save' = last_cache_save
        BY <1>1, <1>5 DEF save_cache_if_needed, save_cache_now
    <2>2. StorageLags'
        BY <1>2, <1>5, <2>1, IdentityAssumption DEF IdInv, IdTimes, StorageLags
    <2>3. PanicForgets'
        BY <1>2, <2>1 DEF IdInv, IdentitySound, PanicForgets, Fingerprints
    <2> QED
        BY <1>2, <2>1, <2>2, <2>3 DEF IdInv, IdTimes, IdentitySound
<1> QED
    BY <1>3, <1>4, <1>5

LEMMA IdInitInv == IdInit => IdInv
    BY NothingKnown, IdentityAssumption
       DEF IdInit, IdInv, IdTimes, IdentitySound, StorageLags, PanicForgets, NoCache

LEMMA IdNextInv == IdInv /\ [IdNext]_idVars => IdInv'
<1> SUFFICES ASSUME IdInv, [IdNext]_idVars PROVE IdInv'
    OBVIOUS
<1> USE DEF IdInv, IdTimes, IdentitySound, StorageLags, PanicForgets
<1>1. ASSUME UNCHANGED <<cache, stored, cache_key, cache_dirty, last_cache_save, ghosts>>, id_now' \in Nat
      PROVE  IdInv'
    BY <1>1 DEF ghosts, Fingerprints
<1>2. CASE \E f \in IdFingerprint :
               \/ upsert_cryptographic_identity(f) \/ remove_identity(f)
               \/ \E n \in SocialIdentity : update_social_identity(f, n)
               \/ \E yes \in BOOLEAN : set_verified(f, yes)
    <2>1. \E c : Modify(c)
        BY <1>2 DEF upsert_cryptographic_identity, remove_identity, update_social_identity, set_verified
    <2> QED
        BY <2>1, ModifyKeeps
<1>3. ASSUME NEW f \in IdFingerprint, register_ephemeral_identity(f) PROVE IdInv'
    BY <1>1, <1>3 DEF register_ephemeral_identity
<1>4. ASSUME NEW f \in IdFingerprint, NEW s \in HandshakeState, update_handshake_state(f, s) PROVE IdInv'
    <2>1. \/ \E c : Modify(c)
          \/ UNCHANGED <<cache, stored, cache_key, cache_dirty, last_cache_save, id_now, ghosts>>
        BY <1>4 DEF update_handshake_state
    <2> QED
        BY <2>1, <1>1, ModifyKeeps
<1>5. CASE cleanup_old_identities
    <2>1. \E c : Modify(c)
        BY <1>5 DEF cleanup_old_identities
    <2> QED
        BY <2>1, ModifyKeeps
<1>6. ASSUME NEW f \in IdFingerprint, NEW n \in SocialIdentity, get_or_create_social_identity(f, n)
      PROVE  IdInv'
    <2>1. /\ admitted' = admitted \cup Fingerprints(cache')
          /\ UNCHANGED <<stored, cache_key, last_cache_save, id_now, asked, last_change, refused>>
        BY <1>6 DEF get_or_create_social_identity
    <2>2. Fingerprints(stored)' = Fingerprints(stored) /\ Fingerprints(cache)' = Fingerprints(cache')
        BY <2>1 DEF Fingerprints
    <2> QED
        BY <2>1, <2>2
<1>7. ASSUME NEW ok \in BOOLEAN, panic_clear_all_data(ok) PROVE IdInv'
    <2>1. /\ cache' = NewCache /\ cache_key' = FALSE /\ admitted' = {}
          /\ stored' = NewCache \/ refused' = TRUE
          /\ UNCHANGED <<last_cache_save, id_now, last_change>>
        BY <1>7 DEF panic_clear_all_data, clear_all, store, NoCache
    <2>2. Fingerprints(cache)' = {} /\ (stored' = NewCache => Fingerprints(stored)' = {})
        BY <2>1, NothingKnown DEF Fingerprints
    <2> QED
        BY <2>1, <2>2
<1>8. CASE Restart
    <2>1. /\ cache' = NewCache /\ stored' = NewCache /\ asked' = NewCache
          /\ last_cache_save' = id_now /\ last_change' = id_now /\ UNCHANGED <<id_now, admitted>>
        BY <1>8 DEF Restart, NoCache
    <2>2. Fingerprints(cache)' = {} /\ Fingerprints(stored)' = {}
        BY <2>1, NothingKnown DEF Fingerprints
    <2> QED
        BY <2>1, <2>2
<1>9. CASE IdTick
    BY <1>1, <1>9 DEF IdTick
<1>10. CASE UNCHANGED idVars
    BY <1>1, <1>10 DEF idVars
<1> QED
    BY <1>2, <1>3, <1>4, <1>5, <1>6, <1>7, <1>8, <1>9, <1>10 DEF IdNext

\* For any identities and times, and whatever the storage refuses: it lags behind
\* by no more than a save interval unless a save was refused, and what
\* panic_clear_all_data erased stays erased, in the storage too once that has been
\* cleared (save_cache_if_needed, panic_clear_all_data).
THEOREM IdentitiesAreSound == IdSpec => []IdentitySound
<1>1. IdInv => IdentitySound
    BY DEF IdInv
<1> QED
    BY <1>1, IdInitInv, IdNextInv, PTL DEF IdSpec

-----------------------------------------------------------------------------
(* File transfers *)

TransferRecord == [status : TransferStatus, chunks : SUBSET Chunks, last_activity : Nat]

TransferType ==
    /\ transfer_now \in Nat
    /\ transfers \in [End -> [TransferId -> TransferRecord \cup {NoTransfer}]]
    /\ \A m \in transfer_net : m.id \in TransferId /\ (m.type = "chunk" => m.index \in Chunks)

TransferInv == TransferType /\ CompletedHasAll

LEMMA HeldIsRecord ==
    ASSUME TransferType, NEW e \in End, NEW id \in TransferId, Held(e, id)
    PROVE  transfers[e][id] \in TransferRecord
    BY DEF TransferType, Held

LEMMA UpdateKeeps ==
    ASSUME TransferInv, NEW e \in End, NEW id \in TransferId, NEW s \in TransferRecord,
           s.status = "Completed" => AllReceived(s), Update(e, id, s)
    PROVE  /\ transfers' \in [End -> [TransferId -> TransferRecord \cup {NoTransfer}]]
           /\ CompletedHasAll'
<1> DEFINE r == [s EXCEPT !.last_activity = transfer_now]
<1>1. r \in TransferRecord /\ r.status = s.status /\ r.chunks = s.chunks
    BY DEF TransferRecord, TransferInv, TransferType
<1> HIDE DEF r
<1>2. transfers' = [transfers EXCEPT ![e][id] = r]
    BY DEF Update, r
<1>3. transfers \in [End -> [TransferId -> TransferRecord \cup {NoTransfer}]]
    BY DEF TransferInv, TransferType
<1>4. transfers' \in [End -> [TransferId -> TransferRecord \cup {NoTransfer}]]
    BY <1>1, <1>2, <1>3
<1>5. ASSUME NEW d \in End, NEW i \in TransferId, transfers'[d][i].status = "Completed"
      PROVE  AllReceived(transfers'[d][i])
    <2>1. CASE d = e /\ i = id
        <3>1. transfers'[d][i] = r
            BY <1>2, <1>3, <2>1
        <3> QED
            BY <1>1, <1>5, <3>1 DEF AllReceived
    <2>2. CASE ~(d = e /\ i = id)
        <3>1. transfers'[d][i] = transfers[d][i]
            BY <1>2, <1>3, <2>2
        <3> QED
            BY <1>5, <3>1 DEF TransferInv, CompletedHasAll
    <2> QED
        BY <2>1, <2>2
<1> QED
    BY <1>4, <1>5 DEF CompletedHasAll, AllReceived

\* A held session with another status, which is not Completed.
LEMMA OtherStatus ==
    ASSUME TransferInv, NEW e \in End, NEW id \in TransferId, Held(e, id),
           NEW st \in TransferStatus \ {"Completed"},
           Update(e, id, [transfers[e][id] EXCEPT !.status = st])
    PROVE  /\ transfers' \in [End -> [TransferId -> TransferRecord \cup {NoTransfer}]]
           /\ CompletedHasAll'
<1> DEFINE s == [transfers[e][id] EXCEPT !.status = st]
<1>1. s \in TransferRecord /\ s.status = st
    BY HeldIsRecord DEF TransferInv, TransferRecord
<1> HIDE DEF s
<1>2. Update(e, id, s)
    BY DEF s
<1> QED
    BY <1>1, <1>2, UpdateKeeps

LEMMA ChunkReceived ==
    ASSUME NEW s \in TransferRecord, s.status = "Completed" => AllReceived(s), NEW i \in Chunks
    PROVE  /\ receive_chunk(s, i) \in TransferRecord
           /\ receive_chunk(s, i).status = "Completed" => AllReceived(receive_chunk(s, i))
<1> DEFINE got == [s EXCEPT !.chunks = @ \cup {i}]
<1>1. got \in TransferRecord /\ got.status = s.status /\ got.chunks = s.chunks \cup {i}
    BY DEF TransferRecord
<1>2. s.status = "Completed" => AllReceived(got)
    BY <1>1 DEF AllReceived
<1> HIDE DEF got
<1>3. receive_chunk(s, i) = IF AllReceived(got) THEN [got EXCEPT !.status = "Completed"] ELSE got
    BY DEF receive_chunk, got
<1>4. [got EXCEPT !.status = "Completed"] \in TransferRecord
      /\ [got EXCEPT !.status = "Completed"].chunks = got.chunks
    BY <1>1 DEF TransferRecord, TransferStatus
<1> QED
    BY <1>1, <1>2, <1>3, <1>4 DEF AllReceived

LEMMA TransferInitInv == TransferInit => TransferInv
<1> SUFFICES ASSUME TransferInit PROVE TransferInv
    OBVIOUS
<1>1. transfers \in [End -> [TransferId -> TransferRecord \cup {NoTransfer}]]
    BY DEF TransferInit
<1>2. \A e \in End, id \in TransferId : transfers[e][id].status # "Completed"
    BY DEF TransferInit, NoTransfer
<1> QED
    BY <1>1, <1>2 DEF TransferInit, TransferInv, TransferType, CompletedHasAll

LEMMA TransferNextInv == TransferInv /\ [TransferNext]_transferVars => TransferInv'
<1> SUFFICES ASSUME TransferInv, [TransferNext]_transferVars PROVE TransferInv'
    OBVIOUS
<1> DEFINE Typed == transfers \in [End -> [TransferId -> TransferRecord \cup {NoTransfer}]]
           NetTyped == \A m \in transfer_net :
                           m.id \in TransferId /\ (m.type = "chunk" => m.index \in Chunks)
<1>1. transfer_now \in Nat /\ Typed /\ NetTyped /\ CompletedHasAll
    BY DEF TransferInv, TransferType
<1>2. SUFFICES transfer_now' \in Nat /\ Typed' /\ NetTyped' /\ CompletedHasAll'
    BY DEF TransferInv, TransferType
<1>3. /\ \A m \in transfer_net : m.id \in TransferId
      /\ End = {"sender", "recipient"}
    BY <1>1 DEF End
<1>4. ASSUME NEW id \in TransferId, start_transfer(id)
      PROVE  transfer_now' \in Nat /\ Typed' /\ NetTyped' /\ CompletedHasAll'
    <2>1. from_offer \in TransferRecord /\ from_offer.status = "Offered"
        BY <1>1 DEF from_offer, TransferRecord, TransferStatus
    <2>2. Typed' /\ CompletedHasAll'
        BY <1>3, <1>4, <2>1, UpdateKeeps DEF start_transfer
    <2>3. NetTyped'
        BY <1>1, <1>4 DEF start_transfer, TransmitFile, Offer
    <2> QED
        BY <1>1, <1>4, <2>2, <2>3 DEF start_transfer
<1>5. ASSUME NEW m \in transfer_net, receive_offer(m)
      PROVE  transfer_now' \in Nat /\ Typed' /\ NetTyped' /\ CompletedHasAll'
    <2>1. from_offer \in TransferRecord /\ from_offer.status = "Offered"
        BY <1>1 DEF from_offer, TransferRecord, TransferStatus
    <2>2. Typed' /\ CompletedHasAll'
        BY <1>3, <1>5, <2>1, UpdateKeeps DEF receive_offer
    <2> QED
        BY <1>1, <1>5, <2>2 DEF receive_offer
<1>6. ASSUME NEW id \in TransferId, NEW accepted \in BOOLEAN, AnswerOffer(id, accepted)
      PROVE  transfer_now' \in Nat /\ Typed' /\ NetTyped' /\ CompletedHasAll'
    <2>1. (IF accepted THEN "InProgress" ELSE "Failed") \in TransferStatus \ {"Completed"}
        BY DEF TransferStatus
    <2>2. Typed' /\ CompletedHasAll'
        BY <1>3, <1>6, <2>1, OtherStatus DEF AnswerOffer
    <2>3. NetTyped'
        BY <1>1, <1>6 DEF AnswerOffer, TransmitFile, Answer
    <2> QED
        BY <1>1, <1>6, <2>2, <2>3 DEF AnswerOffer
<1>7. ASSUME NEW m \in transfer_net, process_accept("sender", m)
      PROVE  transfer_now' \in Nat /\ Typed' /\ NetTyped' /\ CompletedHasAll'
    <2>1. (IF m.accepted THEN "InProgress" ELSE "Failed") \in TransferStatus \ {"Completed"}
        BY DEF TransferStatus
    <2>2. Typed' /\ CompletedHasAll'
        BY <1>3, <1>7, <2>1, OtherStatus DEF process_accept
    <2> QED
        BY <1>1, <1>7, <2>2 DEF process_accept
<1>8. ASSUME NEW id \in TransferId, NEW i \in Chunks, SendChunk(id, i)
      PROVE  transfer_now' \in Nat /\ Typed' /\ NetTyped' /\ CompletedHasAll'
    <2>1. NetTyped'
        BY <1>1, <1>8 DEF SendChunk, TransmitFile, FileChunk
    <2> QED
        BY <1>1, <1>8, <2>1 DEF SendChunk, CompletedHasAll, AllReceived
<1>9. ASSUME NEW m \in transfer_net, process_chunk(m)
      PROVE  transfer_now' \in Nat /\ Typed' /\ NetTyped' /\ CompletedHasAll'
    <2> DEFINE s == transfers["recipient"][m.id]
    <2>1. m.id \in TransferId /\ m.index \in Chunks /\ "recipient" \in End
        BY <1>1, <1>3, <1>9 DEF process_chunk
    <2>2. s \in TransferRecord /\ (s.status = "Completed" => AllReceived(s))
        BY <1>9, <2>1, HeldIsRecord DEF process_chunk, TransferInv, CompletedHasAll
    <2>3. Update("recipient", m.id, receive_chunk(s, m.index))
        BY <1>9 DEF process_chunk
    <2> HIDE DEF s
    <2>4. Typed' /\ CompletedHasAll'
        BY <2>1, <2>2, <2>3, ChunkReceived, UpdateKeeps
    <2> QED
        BY <1>1, <1>9, <2>4 DEF process_chunk
<1>10. ASSUME NEW id \in TransferId, ReportComplete(id)
      PROVE  transfer_now' \in Nat /\ Typed' /\ NetTyped' /\ CompletedHasAll'
    <2>1. NetTyped'
        BY <1>1, <1>10 DEF ReportComplete, TransmitFile, FileComplete
    <2> QED
        BY <1>1, <1>10, <2>1 DEF ReportComplete, CompletedHasAll, AllReceived
<1>11. ASSUME NEW m \in transfer_net, process_complete("sender", m)
      PROVE  transfer_now' \in Nat /\ Typed' /\ NetTyped' /\ CompletedHasAll'
    <2> DEFINE s == transfers["sender"][m.id]
    <2>1. m.id \in TransferId /\ "sender" \in End /\ Held("sender", m.id)
        BY <1>3, <1>11 DEF process_complete
    <2>2. s \in TransferRecord
        BY <2>1, HeldIsRecord DEF TransferInv
    <2>3. ASSUME MayComplete(s), Update("sender", m.id, [s EXCEPT !.status = "Completed"])
          PROVE  Typed' /\ CompletedHasAll'
        <3> DEFINE t == [s EXCEPT !.status = "Completed"]
        <3>1. t \in TransferRecord /\ t.chunks = s.chunks
            BY <2>2 DEF TransferRecord, TransferStatus
        <3>2. AllReceived(t)
            BY <2>3, <3>1 DEF MayComplete, AllReceived
        <3>3. Update("sender", m.id, t)
            BY <2>3
        <3> HIDE DEF t
        <3> QED
            BY <2>1, <3>1, <3>2, <3>3, UpdateKeeps
    <2>4. ASSUME Update("sender", m.id, [s EXCEPT !.status = "Failed"])
          PROVE  Typed' /\ CompletedHasAll'
        <3>1. "Failed" \in TransferStatus \ {"Completed"}
            BY DEF TransferStatus
        <3> QED
            BY <2>1, <2>4, <3>1, OtherStatus
    <2>5. Typed' /\ CompletedHasAll'
        BY <1>11, <2>3, <2>4 DEF process_complete
    <2> QED
        BY <1>1, <1>11, <2>5 DEF process_complete
<1>12. ASSUME NEW e \in End, NEW id \in TransferId, cancel_transfer(e, id)
      PROVE  transfer_now' \in Nat /\ Typed' /\ NetTyped' /\ CompletedHasAll'
    <2>1. "Cancelled" \in TransferStatus \ {"Completed"}
        BY DEF TransferStatus
    <2>2. Typed' /\ CompletedHasAll'
        BY <1>12, <2>1, OtherStatus DEF cancel_transfer
    <2> QED
        BY <1>1, <1>12, <2>2 DEF cancel_transfer
<1>13. ASSUME NEW e \in End, cleanup_sessions(e)
      PROVE  transfer_now' \in Nat /\ Typed' /\ NetTyped' /\ CompletedHasAll'
    <2>1. \A d \in End, id \in TransferId :
              transfers'[d][id] = transfers[d][id] \/ transfers'[d][id] = NoTransfer
        BY <1>1, <1>13 DEF cleanup_sessions
    <2>2. Typed'
        BY <1>1, <1>13 DEF cleanup_sessions
    <2>3. NoTransfer.status # "Completed"
        BY DEF NoTransfer
    <2>4. CompletedHasAll'
        BY <1>1, <2>1, <2>3 DEF CompletedHasAll, AllReceived
    <2> QED
        BY <1>1, <1>13, <2>2, <2>4 DEF cleanup_sessions
<1>14. CASE TransferTick
    BY <1>1, <1>14 DEF TransferTick, CompletedHasAll, AllReceived
<1>15. CASE UNCHANGED transferVars
    BY <1>1, <1>15 DEF transferVars, CompletedHasAll, AllReceived
<1> HIDE DEF Typed, NetTyped
<1> QED
    BY <1>4, <1>5, <1>6, <1>7, <1>8, <1>9, <1>10, <1>11, <1>12, <1>13, <1>14, <1>15 DEF TransferNext

\* For a file of any size and any number of transfers, an end that calls one
\* completed has all its chunks (receive_chunk, complete).
THEOREM CompletedIsWhole == TransferSpec => []CompletedHasAll
<1>1. TransferInv => CompletedHasAll
    BY DEF TransferInv
<1> QED
    BY <1>1, TransferInitInv, TransferNextInv, PTL DEF TransferSpec

-----------------------------------------------------------------------------
(* Groups *)

GroupCopy == [members : SUBSET [peer_id : GroupNode, role : GroupRole],
              name : {"none", "first", "second"}, settings : {"none", "default", "strict"}]

Joined(p, posts) == [type |-> "Join", member |-> Member(p, "Member")] \in posts

\* A copy of the group that its members could have made, given what was sent.
CopyOK(g, posts) ==
    /\ g \in GroupCopy
    /\ IsFiniteSet(g.members) /\ Cardinality(g.members) <= MaxGroupSize
    /\ \A x, y \in g.members : x.peer_id = y.peer_id => x = y
    /\ \A x \in g.members : \/ x = Member(Creator, "Owner")
                            \/ x.role = "Member" /\ x.peer_id # Creator /\ Joined(x.peer_id, posts)
    /\ g # NoGroup => Member(Creator, "Owner") \in g.members

\* What is on the way was made by this code; copies that travel are sound, too.
PostOK(m, posts) ==
    \/ m.type \in {"Create", "Invite"} /\ CopyOK(m.metadata, posts) /\ m.metadata # NoGroup
    \/ /\ m.type = "Join"
       /\ \E p \in GroupNode : m.member = Member(p, "Member") /\ Joined(p, posts)
    \/ m.type \in {"Leave", "Kick"} /\ m.peer_id \in GroupNode
    \/ /\ m.type = "Update" /\ m.fits \in BOOLEAN
       /\ m.name \in {"none", "first", "second"} /\ m.settings \in {"none", "default", "strict"}

GroupInv ==
    /\ groups \in [GroupNode -> GroupCopy]
    /\ \A n \in GroupNode : CopyOK(groups[n], group_net)
    /\ \A m \in group_net : PostOK(m, group_net)

LEMMA CopyStays ==
    ASSUME NEW g, NEW posts, CopyOK(g, posts), NEW more
    PROVE  CopyOK(g, posts \cup more)
    BY DEF CopyOK, Joined

LEMMA PostStays ==
    ASSUME NEW m, NEW posts, PostOK(m, posts), NEW more
    PROVE  PostOK(m, posts \cup more)
<1>1. CASE m.type \in {"Create", "Invite"} /\ CopyOK(m.metadata, posts) /\ m.metadata # NoGroup
    BY <1>1, CopyStays DEF PostOK
<1> QED
    BY <1>1 DEF PostOK, Joined

LEMMA NoGroupOK ==
    ASSUME NEW posts
    PROVE  NoGroup \in GroupCopy /\ CopyOK(NoGroup, posts)
<1>1. NoGroup.members = {} /\ NoGroup \in GroupCopy
    BY DEF NoGroup, GroupCopy
<1> QED
    BY <1>1, FS_EmptySet, GroupAssumption DEF CopyOK

LEMMA NewGroupOK ==
    ASSUME NEW posts
    PROVE  NewGroup \in GroupCopy /\ CopyOK(NewGroup, posts) /\ NewGroup # NoGroup
<1>1. NewGroup.members = {Member(Creator, "Owner")} /\ NewGroup \in GroupCopy
    BY GroupAssumption DEF NewGroup, GroupCopy, Member, GroupRole
<1>2. IsFiniteSet(NewGroup.members) /\ Cardinality(NewGroup.members) = 1
    BY <1>1, FS_Singleton
<1>3. NewGroup # NoGroup
    BY DEF NewGroup, NoGroup
<1> QED
    BY <1>1, <1>2, <1>3, GroupAssumption DEF CopyOK

LEMMA AddMemberOK ==
    ASSUME NEW posts, NEW g, CopyOK(g, posts), g # NoGroup, NEW p \in GroupNode, Joined(p, posts)
    PROVE  CopyOK(add_member(g, Member(p, "Member")), posts)
<1> DEFINE m == Member(p, "Member")
           more == g.members \cup {m}
           h == [g EXCEPT !.members = more]
<1>1. m.peer_id = p /\ m.role = "Member" /\ m \in [peer_id : GroupNode, role : GroupRole]
    BY DEF Member, GroupRole
<1>2. CASE Cardinality(g.members) >= MaxGroupSize \/ p \in MemberIds(g)
    <2>1. add_member(g, m) = g
        BY <1>1, <1>2 DEF add_member
    <2> QED
        BY <2>1
<1>3. CASE ~(Cardinality(g.members) >= MaxGroupSize \/ p \in MemberIds(g))
    <2>1. add_member(g, m) = h
        BY <1>1, <1>3 DEF add_member
    <2>2. g \in GroupCopy /\ IsFiniteSet(g.members) /\ Cardinality(g.members) \in Nat
        BY FS_CardinalityType DEF CopyOK
    <2>3. \A x \in g.members : x.peer_id # p
        BY <1>3 DEF MemberIds
    <2>4. Member(Creator, "Owner") \in g.members /\ Member(Creator, "Owner").peer_id = Creator
        BY DEF CopyOK, Member
    <2>5. p # Creator
        BY <2>3, <2>4
    <2>6. IsFiniteSet(more) /\ Cardinality(more) = Cardinality(g.members) + 1
        <3>1. m \notin g.members
            BY <1>1, <2>3
        <3> QED
            BY <2>2, <3>1, FS_AddElement
    <2>7. Cardinality(more) <= MaxGroupSize
        BY <1>3, <2>2, <2>6, GroupAssumption
    <2>8. h \in GroupCopy /\ h.members = more
        BY <1>1, <2>2 DEF GroupCopy
    <2>9. h # NoGroup => Member(Creator, "Owner") \in more
        BY <2>4
    <2>10. \A x, y \in more : x.peer_id = y.peer_id => x = y
        BY <1>1, <2>3 DEF CopyOK
    <2>11. \A x \in more : \/ x = Member(Creator, "Owner")
                           \/ x.role = "Member" /\ x.peer_id # Creator /\ Joined(x.peer_id, posts)
        BY <1>1, <2>5 DEF CopyOK
    <2> HIDE DEF h, more, m
    <2>12. CopyOK(h, posts)
        BY <2>6, <2>7, <2>8, <2>9, <2>10, <2>11 DEF CopyOK
    <2> QED
        BY <2>1, <2>12 DEF m
<1> QED
    BY <1>2, <1>3

LEMMA RemoveMemberOK ==
    ASSUME NEW posts, NEW g, CopyOK(g, posts), NEW p \in GroupNode
    PROVE  CopyOK(remove_member(g, p), posts)
<1> DEFINE fewer == {x \in g.members : x.peer_id # p}
           h == [g EXCEPT !.members = fewer]
<1>1. CASE p = Creator
    BY <1>1 DEF remove_member
<1>2. CASE p # Creator
    <2>1. remove_member(g, p) = h
        BY <1>2 DEF remove_member
    <2>2. g \in GroupCopy /\ IsFiniteSet(g.members) /\ Cardinality(g.members) \in Nat
        BY FS_CardinalityType DEF CopyOK
    <2>3. h \in GroupCopy /\ h.members = fewer
        BY <2>2 DEF GroupCopy
    <2>4. IsFiniteSet(fewer) /\ Cardinality(fewer) \in Nat /\ Cardinality(fewer) <= Cardinality(g.members)
        BY <2>2, FS_Subset, FS_CardinalityType
    <2>5. Cardinality(fewer) <= MaxGroupSize
        BY <2>2, <2>4, GroupAssumption DEF CopyOK
    <2>6. h # NoGroup => Member(Creator, "Owner") \in fewer
        <3>1. CASE g = NoGroup
            <4>1. fewer = g.members
                BY <3>1 DEF NoGroup
            <4>2. h = g
                BY <2>2, <4>1 DEF GroupCopy
            <4> QED
                BY <3>1, <4>2
        <3>2. CASE g # NoGroup
            <4>1. Member(Creator, "Owner") \in g.members /\ Member(Creator, "Owner").peer_id = Creator
                BY <3>2 DEF CopyOK, Member
            <4> QED
                BY <1>2, <4>1
        <3> QED
            BY <3>1, <3>2
    <2>7. \A x \in fewer : x \in g.members
        OBVIOUS
    <2> HIDE DEF h, fewer
    <2>8. CopyOK(h, posts)
        BY <2>3, <2>4, <2>5, <2>6, <2>7 DEF CopyOK
    <2> QED
        BY <2>1, <2>8
<1> QED
    BY <1>1, <1>2

LEMMA UpdateOK ==
    ASSUME NEW posts, NEW g, CopyOK(g, posts), g # NoGroup, NEW m, PostOK(m, posts), m.type = "Update"
    PROVE  CopyOK(update(g, m), posts)
<1>1. /\ m.fits \in BOOLEAN
      /\ m.name \in {"none", "first", "second"} /\ m.settings \in {"none", "default", "strict"}
    BY DEF PostOK
<1>2. g = [members |-> g.members, name |-> g.name, settings |-> g.settings] /\ g \in GroupCopy
    BY DEF CopyOK, GroupCopy
<1>3. update(g, m) = [members |-> g.members, name |-> m.name,
                      settings |-> IF m.fits THEN m.settings ELSE g.settings]
    BY <1>1, <1>2 DEF update
<1>4. update(g, m) \in GroupCopy /\ update(g, m).members = g.members
    BY <1>1, <1>2, <1>3 DEF GroupCopy
<1> QED
    BY <1>4 DEF CopyOK

LEMMA ProcessedOK ==
    ASSUME NEW posts, NEW g, CopyOK(g, posts), NEW m, PostOK(m, posts)
    PROVE  CopyOK(Processed(g, m), posts)
<1>1. CASE m.type = "Create"
    BY <1>1 DEF Processed, PostOK
<1>2. CASE m.type = "Join" /\ g # NoGroup
    <2>1. PICK p \in GroupNode : m.member = Member(p, "Member") /\ Joined(p, posts)
        BY <1>2 DEF PostOK
    <2>2. Processed(g, m) = add_member(g, m.member)
        BY <1>2 DEF Processed
    <2> QED
        BY <1>2, <2>1, <2>2, AddMemberOK
<1>3. CASE m.type \in {"Leave", "Kick"} /\ g # NoGroup
    <2>1. m.peer_id \in GroupNode
        BY <1>3 DEF PostOK
    <2>2. Processed(g, m) = remove_member(g, m.peer_id)
        BY <1>3 DEF Processed
    <2> QED
        BY <2>1, <2>2, RemoveMemberOK
<1>4. CASE m.type = "Update" /\ g # NoGroup
    <2>1. Processed(g, m) = update(g, m)
        BY <1>4 DEF Processed
    <2> QED
        BY <1>4, <2>1, UpdateOK
<1>5. CASE /\ m.type # "Create" /\ ~(m.type = "Join" /\ g # NoGroup)
           /\ ~(m.type \in {"Leave", "Kick"} /\ g # NoGroup) /\ ~(m.type = "Update" /\ g # NoGroup)
    <2>1. Processed(g, m) = g
        BY <1>5 DEF Processed
    <2> QED
        BY <2>1
<1> QED
    BY <1>1, <1>2, <1>3, <1>4, <1>5

LEMMA GroupInitInv == GroupInit => GroupInv
    BY NoGroupOK DEF GroupInit, GroupInv

\* A step posts at most one sound message and gives at most one node a sound copy.
LEMMA GroupStep ==
    ASSUME GroupInv, NEW more, group_net' = group_net \cup more,
           \A m \in more : PostOK(m, group_net \cup more),
           \/ groups' = groups
           \/ \E n \in GroupNode : \E g : CopyOK(g, group_net \cup more) /\ Change(n, g)
    PROVE  GroupInv'
<1>1. \A m \in group_net' : PostOK(m, group_net')
    BY PostStays DEF GroupInv
<1>2. \A n \in GroupNode : CopyOK(groups[n], group_net')
    BY CopyStays DEF GroupInv
<1>3. CASE groups' = groups
    BY <1>1, <1>2, <1>3 DEF GroupInv
<1>4. ASSUME NEW n \in GroupNode, NEW g, CopyOK(g, group_net \cup more), Change(n, g)
      PROVE  GroupInv'
    <2>1. g \in GroupCopy
        BY <1>4 DEF CopyOK
    <2>2. groups' = [groups EXCEPT ![n] = g] /\ groups \in [GroupNode -> GroupCopy]
        BY <1>4 DEF Change, GroupInv
    <2>3. groups' \in [GroupNode -> GroupCopy]
          /\ \A k \in GroupNode : groups'[k] = IF k = n THEN g ELSE groups[k]
        BY <2>1, <2>2
    <2> QED
        BY <1>1, <1>2, <1>4, <2>3 DEF GroupInv
<1> QED
    BY <1>3, <1>4

LEMMA GroupNextInv == GroupInv /\ [GroupNext]_groupVars => GroupInv'
<1> SUFFICES ASSUME GroupInv, [GroupNext]_groupVars PROVE GroupInv'
    OBVIOUS
<1>1. CASE create_group
    <2>1. PostOK(GroupCreate(NewGroup), group_net \cup {GroupCreate(NewGroup)})
        BY NewGroupOK DEF PostOK, GroupCreate
    <2> QED
        BY <1>1, <2>1, NewGroupOK, GroupStep, GroupAssumption DEF create_group, Post
<1>2. ASSUME NEW n \in GroupNode, invite(n) PROVE GroupInv'
    <2>1. CopyOK(groups[n], group_net \cup {GroupInvite(groups[n])}) /\ groups[n] # NoGroup
        BY <1>2, CopyStays DEF invite, HasGroup, GroupInv
    <2>2. PostOK(GroupInvite(groups[n]), group_net \cup {GroupInvite(groups[n])})
        BY <2>1 DEF PostOK, GroupInvite
    <2> QED
        BY <1>2, <2>2, GroupStep DEF invite, Post
<1>3. ASSUME NEW n \in GroupNode, leave_group(n) PROVE GroupInv'
    <2>1. PostOK(GroupLeave(n), group_net \cup {GroupLeave(n)})
        BY DEF PostOK, GroupLeave
    <2> QED
        BY <1>3, <2>1, NoGroupOK, GroupStep DEF leave_group, Post
<1>4. ASSUME NEW n \in GroupNode, NEW m \in group_net, join_group(n, m) PROVE GroupInv'
    <2> DEFINE posts == group_net \cup {GroupJoin(n)}
    <2>1. PostOK(GroupJoin(n), posts)
        BY DEF PostOK, GroupJoin, Joined
    <2>2. CopyOK(m.metadata, group_net)
        BY <1>4 DEF join_group, GroupInv, PostOK
    <2>3. CopyOK(m.metadata, posts)
        BY <2>2, CopyStays
    <2> QED
        BY <1>4, <2>1, <2>3, GroupStep DEF join_group, Post
<1>5. ASSUME NEW n \in GroupNode, NEW m \in group_net, process_message(n, m) PROVE GroupInv'
    <2>1. CopyOK(Processed(groups[n], m), group_net)
        BY ProcessedOK DEF GroupInv
    <2> PICK none : none = {}
        OBVIOUS
    <2>2. group_net' = group_net \cup none /\ Change(n, Processed(groups[n], m))
        BY <1>5 DEF process_message
    <2>3. CopyOK(Processed(groups[n], m), group_net \cup none)
        BY <2>1, CopyStays
    <2>4. \E k \in GroupNode : \E g : CopyOK(g, group_net \cup none) /\ Change(k, g)
        BY <2>2, <2>3, Zenon
    <2>5. \A x \in none : PostOK(x, group_net \cup none)
        OBVIOUS
    <2> QED
        BY <2>2, <2>4, <2>5, GroupStep, Zenon
<1>6. ASSUME NEW n \in GroupNode, NEW p \in GroupNode, send_kick(n, p) PROVE GroupInv'
    <2>1. PostOK(GroupKick(p), group_net \cup {GroupKick(p)})
        BY DEF PostOK, GroupKick
    <2> QED
        BY <1>6, <2>1, GroupStep DEF send_kick, Post
<1>7. ASSUME NEW n \in GroupNode, NEW fits \in BOOLEAN, send_update(n, "second", "strict", fits) PROVE GroupInv'
    <2> DEFINE m == GroupUpdate("second", "strict", fits)
    <2>1. PostOK(m, group_net \cup {m})
        BY DEF PostOK, GroupUpdate
    <2> QED
        BY <1>7, <2>1, GroupStep DEF send_update, Post
<1>8. CASE UNCHANGED groupVars
    BY <1>8 DEF groupVars, GroupInv
<1> QED
    BY <1>1, <1>2, <1>3, <1>4, <1>5, <1>6, <1>7, <1>8 DEF GroupNext

LEMMA CopyIsSound ==
    ASSUME NEW posts, NEW g, CopyOK(g, posts)
    PROVE  /\ g # NoGroup => {m.peer_id : m \in {x \in g.members : x.role = "Owner"}} = {Creator}
           /\ Cardinality(MemberIds(g)) = Cardinality(g.members)
           /\ \A p \in MemberIds(g) \ {Creator} : Joined(p, posts)
<1>1. \A x \in g.members : x.role = "Owner" => x = Member(Creator, "Owner")
    BY DEF CopyOK
<1>2. Member(Creator, "Owner").peer_id = Creator /\ Member(Creator, "Owner").role = "Owner"
    BY DEF Member
<1>3. g # NoGroup => {m.peer_id : m \in {x \in g.members : x.role = "Owner"}} = {Creator}
    BY <1>1, <1>2 DEF CopyOK
<1>4. Cardinality(MemberIds(g)) = Cardinality(g.members)
    <2> DEFINE f == [m \in g.members |-> m.peer_id]
    <2>1. f \in Surjection(g.members, MemberIds(g))
        BY DEF Surjection, MemberIds
    <2>2. f \in Injection(g.members, MemberIds(g))
        BY DEF Injection, IsInjective, MemberIds, CopyOK
    <2>3. IsFiniteSet(g.members)
        BY DEF CopyOK
    <2> QED
        BY <2>1, <2>2, <2>3, FS_Surjection
<1>5. \A p \in MemberIds(g) \ {Creator} : Joined(p, posts)
    BY <1>2 DEF MemberIds, CopyOK
<1> QED
    BY <1>3, <1>4, <1>5

\* Whatever order kicks, leaves, joins and stale invitations arrive in, every copy
\* of a group is owned by its creator alone and lists those who joined, each once
\* and within the limit, for any number of nodes and messages (add_member,
\* remove_member, join_group).
THEOREM MembershipIsSound == GroupSpec => []MembershipSound
<1>1. GroupInv => MembershipSound
    <2> SUFFICES ASSUME GroupInv, NEW n \in GroupNode
                 PROVE  /\ HasGroup(n) => {m.peer_id : m \in {x \in groups[n].members : x.role = "Owner"}} = {Creator}
                        /\ Cardinality(groups[n].members) <= MaxGroupSize
                        /\ Cardinality(MemberIds(groups[n])) = Cardinality(groups[n].members)
                        /\ \A p \in MemberIds(groups[n]) \ {Creator} : Joined(p, group_net)
        BY DEF MembershipSound, OneOwner, MembersDistinct, MembersJoined, Joined
    <2>1. CopyOK(groups[n], group_net)
        BY DEF GroupInv
    <2>2. Cardinality(groups[n].members) <= MaxGroupSize
        BY <2>1 DEF CopyOK
    <2> QED
        BY <2>1, <2>2, CopyIsSound DEF HasGroup
<1> QED
    BY <1>1, GroupInitInv, GroupNextInv, PTL DEF GroupSpec

-----------------------------------------------------------------------------
(* Capabilities *)

LEMMA LeastNat ==
    ASSUME NEW S \in SUBSET Nat, S # {}
    PROVE  \E x \in S : \A y \in S : x <= y
<1> DEFINE R == {q \in Nat \X Nat : q[1] < q[2]}
<1>1. IsWellFoundedOn(R, Nat)
    BY NatLessThanWellFounded, Zenon DEF OpToRel
<1> HIDE DEF R
<1>2. PICK x \in S : \A y \in S : <<y, x>> \notin R
    BY <1>1, WFMin
<1>3. ASSUME NEW y \in S PROVE x <= y
    <2>1. <<y, x>> \in Nat \X Nat /\ <<y, x>> \notin R
        BY <1>2
    <2>2. ~(y < x)
        BY <2>1 DEF R
    <2> QED
        BY <2>2
<1> QED
    BY <1>3

\* A table with a row for every node and an entry for every peer.
IsTable(f) == f = [n \in CapNode |-> [p \in CapNode |-> f[n][p]]]

\* What both n and p can do, what a legacy peer is given, and a version that n speaks.
Mutual(n, p, caps) ==
    \A c \in DOMAIN caps : c \in DOMAIN LocalCaps[n] \cap DOMAIN LocalCaps[p] /\ BothHave(n, p, c, caps[c])
CoreOnly(caps) == \A c \in DOMAIN caps : c \in CoreCaps /\ caps[c].parameters = {}
Speaks(n, v) == \E i \in 1 .. Len(Versions[n]) : is_compatible_with(Versions[n][i], v)

\* A hello says what its sender can do. An ack says what both ends can do, and
\* names a version its receiver offered.
OfferOK(m) ==
    \/ \E n, p \in CapNode : m = VersionHello(n, p)
    \/ /\ m.type = "ack" /\ m.from \in CapNode /\ m.to \in CapNode
       /\ Mutual(m.to, m.from, m.caps) /\ Speaks(m.to, m.version)

CapInv ==
    /\ IsTable(peer_capabilities) /\ IsTable(peer_versions)
    /\ legacy_peers \in [CapNode -> SUBSET CapNode]
    /\ \A n, p \in CapNode :
           \/ Mutual(n, p, peer_capabilities[n][p])
           \/ p \in legacy_peers[n] /\ CoreOnly(peer_capabilities[n][p])
    /\ \A n, p \in CapNode : peer_versions[n][p] # NoVersion => Speaks(n, peer_versions[n][p])
    /\ \A m \in cap_net : OfferOK(m)

LEMMA NothingIsMutual ==
    ASSUME NEW n, NEW p
    PROVE  Mutual(n, p, NotNegotiated)
<1>1. DOMAIN NotNegotiated = {}
    BY DEF NotNegotiated
<1> QED
    BY <1>1 DEF Mutual

LEMMA MutualFound ==
    ASSUME NEW n, NEW p
    PROVE  /\ Mutual(n, p, find_mutual_capabilities(n, LocalCaps[p]))
           /\ Mutual(p, n, find_mutual_capabilities(n, LocalCaps[p]))
    BY DEF Mutual, BothHave, find_mutual_capabilities

LEMMA CurrentSpoken ==
    ASSUME NEW n \in CapNode
    PROVE  Speaks(n, current(n))
<1>1. Versions[n] \in Seq([major : Nat, minor : Nat]) /\ Versions[n] # <<>>
    BY CapAssumption
<1>2. 1 \in 1 .. Len(Versions[n])
    BY <1>1
<1> QED
    BY <1>2 DEF Speaks, current, is_compatible_with

\* The version chosen is one of those offered, and n speaks it.
LEMMA VersionChosen ==
    ASSUME NEW n \in CapNode, NEW p \in CapNode, Compatible(n, Versions[p]) # {}
    PROVE  /\ Speaks(n, negotiate_version(n, Versions[p]))
           /\ Speaks(p, negotiate_version(n, Versions[p]))
<1> DEFINE C == Compatible(n, Versions[p])
           i == CHOOSE k \in C : \A j \in C : k <= j
<1>1. Len(Versions[p]) \in Nat
    BY CapAssumption
<1>2. C \in SUBSET Nat
    BY <1>1 DEF Compatible
<1>3. \E k \in C : \A j \in C : k <= j
    <2> HIDE DEF C
    <2> QED
        BY <1>2, LeastNat DEF C
<1>4. i \in C
    <2> HIDE DEF C
    <2> QED
        BY <1>3, Zenon
<1>5. negotiate_version(n, Versions[p]) = Versions[p][i]
    BY DEF negotiate_version
<1> HIDE DEF i
<1>6. i \in 1 .. Len(Versions[p]) /\ is_compatible_with(current(n), Versions[p][i])
    BY <1>4 DEF Compatible
<1>7. Speaks(p, Versions[p][i])
    BY <1>6 DEF Speaks, is_compatible_with
<1>8. Speaks(n, Versions[p][i])
    BY <1>6, CurrentSpoken DEF Speaks, is_compatible_with
<1> QED
    BY <1>5, <1>7, <1>8

LEMMA CapInitInv == CapInit => CapInv
    BY NothingIsMutual DEF CapInit, CapInv, IsTable

\* One entry is replaced by what was agreed upon, or by nothing.
LEMMA NegotiatedKeeps ==
    ASSUME CapInv, NEW n \in CapNode, NEW p \in CapNode, NEW caps, NEW v, Negotiated(n, p, caps, v),
           Mutual(n, p, caps), v # NoVersion => Speaks(n, v),
           legacy_peers' \in [CapNode -> SUBSET CapNode],
           \A a, b \in CapNode : a # n \/ b # p => (b \in legacy_peers'[a] <=> b \in legacy_peers[a]),
           \A m \in cap_net' : OfferOK(m)
    PROVE  CapInv'
<1>1. /\ IsTable(peer_capabilities')
      /\ \A a, b \in CapNode : peer_capabilities'[a][b] = IF a = n /\ b = p THEN caps ELSE peer_capabilities[a][b]
    <2>1. IsTable(peer_capabilities) /\ peer_capabilities' = [peer_capabilities EXCEPT ![n][p] = caps]
        BY DEF Negotiated, CapInv
    <2> QED
        BY <2>1 DEF IsTable
<1>2. /\ IsTable(peer_versions')
      /\ \A a, b \in CapNode : peer_versions'[a][b] = IF a = n /\ b = p THEN v ELSE peer_versions[a][b]
    <2>1. IsTable(peer_versions) /\ peer_versions' = [peer_versions EXCEPT ![n][p] = v]
        BY DEF Negotiated, CapInv
    <2> QED
        BY <2>1 DEF IsTable
<1>3. ASSUME NEW a \in CapNode, NEW b \in CapNode
      PROVE  \/ Mutual(a, b, peer_capabilities'[a][b])
             \/ b \in legacy_peers'[a] /\ CoreOnly(peer_capabilities'[a][b])
    <2>1. CASE a = n /\ b = p
        BY <1>1, <2>1
    <2>2. CASE a # n \/ b # p
        BY <1>1, <2>2 DEF CapInv
    <2> QED
        BY <2>1, <2>2
<1>4. ASSUME NEW a \in CapNode, NEW b \in CapNode, peer_versions'[a][b] # NoVersion
      PROVE  Speaks(a, peer_versions'[a][b])
    BY <1>2, <1>4 DEF CapInv
<1> QED
    BY <1>1, <1>2, <1>3, <1>4 DEF CapInv

LEMMA LegacyKeeps ==
    ASSUME CapInv, NEW n \in CapNode, NEW ps \in SUBSET CapNode, Legacy(n, ps), UNCHANGED cap_net
    PROVE  CapInv'
<1> PICK core : core = [c \in CoreCaps |-> CoreCapability]
    OBVIOUS
<1>1. /\ IsTable(peer_capabilities')
      /\ \A a, b \in CapNode : peer_capabilities'[a][b] = IF a = n /\ b \in ps THEN core ELSE peer_capabilities[a][b]
    BY DEF Legacy, CapInv, IsTable
<1>2. /\ IsTable(peer_versions')
      /\ \A a, b \in CapNode : peer_versions'[a][b] = IF a = n /\ b \in ps THEN current(n) ELSE peer_versions[a][b]
    BY DEF Legacy, CapInv, IsTable
<1>3. /\ legacy_peers' \in [CapNode -> SUBSET CapNode]
      /\ \A a \in CapNode : legacy_peers'[a] = IF a = n THEN legacy_peers[a] \cup ps ELSE legacy_peers[a]
    BY DEF Legacy, CapInv
<1>4. ASSUME NEW a \in CapNode, NEW b \in CapNode
      PROVE  \/ Mutual(a, b, peer_capabilities'[a][b])
             \/ b \in legacy_peers'[a] /\ CoreOnly(peer_capabilities'[a][b])
    <2>1. CASE a = n /\ b \in ps
        <3>1. CoreOnly(core)
            BY DEF CoreOnly, CoreCapability
        <3> QED
            BY <1>1, <1>3, <2>1, <3>1
    <2>2. CASE ~(a = n /\ b \in ps)
        BY <1>1, <1>3, <2>2 DEF CapInv
    <2> QED
        BY <2>1, <2>2
<1>5. ASSUME NEW a \in CapNode, NEW b \in CapNode, peer_versions'[a][b] # NoVersion
      PROVE  Speaks(a, peer_versions'[a][b])
    BY <1>2, <1>5, CurrentSpoken DEF CapInv
<1> QED
    BY <1>1, <1>2, <1>3, <1>4, <1>5 DEF CapInv

LEMMA CapNextInv == CapInv /\ [CapNext]_capVars => CapInv'
<1> SUFFICES ASSUME CapInv, [CapNext]_capVars PROVE CapInv'
    OBVIOUS
<1>1. ASSUME NEW n \in CapNode, check_hello_timeouts(n) PROVE CapInv'
    <2>1. TimedOut(n) \in SUBSET CapNode
        BY DEF TimedOut
    <2> QED
        BY <1>1, <2>1, LegacyKeeps DEF check_hello_timeouts
<1>2. ASSUME NEW n \in CapNode, NEW p \in CapNode, SendHello(n, p) PROVE CapInv'
    <2>1. OfferOK(VersionHello(n, p))
        BY DEF OfferOK
    <2> QED
        BY <1>2, <2>1 DEF SendHello, create_hello, CapInv
<1>3. ASSUME NEW n \in CapNode, NEW p \in CapNode, remove_peer(n, p) PROVE CapInv'
    <2>1. /\ legacy_peers' \in [CapNode -> SUBSET CapNode]
          /\ \A a \in CapNode : legacy_peers'[a] = IF a = n THEN legacy_peers[a] \ {p} ELSE legacy_peers[a]
        BY <1>3 DEF remove_peer, CapInv
    <2>2. \A m \in cap_net' : OfferOK(m)
        BY <1>3 DEF remove_peer, CapInv
    <2> QED
        BY <1>3, <2>1, <2>2, NothingIsMutual, NegotiatedKeeps DEF remove_peer
<1>4. ASSUME NEW n \in CapNode, NEW p \in CapNode, mark_as_legacy_peer(n, p) PROVE CapInv'
    BY <1>4, LegacyKeeps DEF mark_as_legacy_peer
<1>5. ASSUME NEW n \in CapNode, NEW m \in cap_net, process_hello(n, m) PROVE CapInv'
    <2>1. PICK q \in CapNode : m = VersionHello(q, n)
        BY <1>5 DEF CapInv, OfferOK, process_hello, VersionHello
    <2>2. m.from = q /\ m.versions = Versions[q] /\ m.caps = LocalCaps[q]
        BY <2>1 DEF VersionHello
    <2> DEFINE v == negotiate_version(n, Versions[q])
               caps == find_mutual_capabilities(n, LocalCaps[q])
    <2>3. Mutual(n, q, caps) /\ Mutual(q, n, caps) /\ Speaks(n, v) /\ Speaks(q, v)
        BY <1>5, <2>2, MutualFound, VersionChosen DEF process_hello
    <2>4. Negotiated(n, q, caps, v) /\ cap_net' = cap_net \cup {VersionAck(n, q, v, caps)}
          /\ legacy_peers' = legacy_peers
        BY <1>5, <2>2 DEF process_hello
    <2> HIDE DEF v, caps
    <2>5. OfferOK(VersionAck(n, q, v, caps))
        BY <2>3 DEF OfferOK, VersionAck
    <2>6. \A x \in cap_net' : OfferOK(x)
        BY <2>4, <2>5 DEF CapInv
    <2>7. legacy_peers' \in [CapNode -> SUBSET CapNode]
        BY <2>4 DEF CapInv
    <2> QED
        BY <2>3, <2>4, <2>6, <2>7, NegotiatedKeeps
<1>6. ASSUME NEW n \in CapNode, NEW m \in cap_net, process_ack(n, m) PROVE CapInv'
    <2>1. m.from \in CapNode /\ Mutual(n, m.from, m.caps) /\ Speaks(n, m.version)
        BY <1>6 DEF CapInv, OfferOK, process_ack, VersionHello
    <2>2. (\A x \in cap_net' : OfferOK(x)) /\ legacy_peers' \in [CapNode -> SUBSET CapNode]
          /\ legacy_peers' = legacy_peers /\ Negotiated(n, m.from, m.caps, m.version)
        BY <1>6 DEF process_ack, CapInv
    <2> QED
        BY <2>1, <2>2, NegotiatedKeeps
<1>7. CASE CapTick
    BY <1>7 DEF CapTick, CapInv
<1>8. CASE UNCHANGED capVars
    BY <1>8 DEF capVars, CapInv
<1> QED
    BY <1>1, <1>2, <1>3, <1>4, <1>5, <1>6, <1>7, <1>8 DEF CapNext

\* Between any builds, whoever says hello, and however hellos cross and answers are
\* lost, repeated or late, what a node uses towards a peer is what both can do or what
\* a peer taken for legacy is given, in a version it speaks (negotiate_version,
\* find_mutual_capabilities, mark_as_legacy_peer).
THEOREM NegotiationIsSound == CapSpec => []NegotiationSound
<1>1. CapInv => NegotiationSound
    BY DEF CapInv, NegotiationSound, FeaturesMutual, VersionSpoken, Mutual, CoreOnly, Speaks,
           peer_supports_capability
<1> QED
    BY <1>1, CapInitInv, CapNextInv, PTL DEF CapSpec

-----------------------------------------------------------------------------
(* Verification *)

\* An entry of n's table is empty, or a challenge that n put to that peer under a
\* nonce drawn before.
PendingOK(n, p, c) ==
    c # NoChallenge => /\ [by |-> n, to |-> p, challenge |-> c] \in challenges
                       /\ c.nonce_b \in 1 .. nonces /\ c.expires_at \in Int

\* No nonce is pending twice, and none is pending that verified already.
NoncesFresh ==
    /\ \A n, p, a, b \in VNode :
           /\ pending_challenges[n][p] # NoChallenge /\ pending_challenges[a][b] # NoChallenge
           /\ pending_challenges[n][p].nonce_b = pending_challenges[a][b].nonce_b
           => n = a /\ p = b
    /\ \A v \in verified :
           /\ v.nonce_b \in 1 .. nonces
           /\ \A n, p \in VNode : pending_challenges[n][p] # NoChallenge
                                  => pending_challenges[n][p].nonce_b # v.nonce_b

VInv ==
    /\ nonces \in Nat /\ v_now \in Nat
    /\ pending_challenges = [n \in VNode |-> [p \in VNode |-> pending_challenges[n][p]]]
    /\ \A n, p \in VNode : PendingOK(n, p, pending_challenges[n][p])
    /\ \A q \in qr_codes : q.noise_public_key \in VNode
    /\ NoncesFresh
    /\ VerifiedAnswered

LEMMA VInitInv == VInit => VInv
    BY DEF VInit, VInv, PendingOK, NoncesFresh, VerifiedAnswered

\* Entries only go, and nothing is verified.
LEMMA FewerPending ==
    ASSUME VInv,
           pending_challenges' = [n \in VNode |-> [p \in VNode |-> pending_challenges'[n][p]]],
           \A n, p \in VNode : pending_challenges'[n][p] \in {NoChallenge, pending_challenges[n][p]},
           nonces' \in Nat, nonces' >= nonces, v_now' \in Nat,
           UNCHANGED <<challenges, verified>>, signatures \subseteq signatures',
           \A q \in qr_codes' : q.noise_public_key \in VNode
    PROVE  VInv'
<1>1. ASSUME NEW n \in VNode, NEW p \in VNode PROVE PendingOK(n, p, pending_challenges[n][p])'
    <2>1. PendingOK(n, p, pending_challenges[n][p])
        BY DEF VInv
    <2>2. nonces \in Nat
        BY DEF VInv
    <2> QED
        BY <2>1, <2>2 DEF PendingOK
<1>2. NoncesFresh'
    BY DEF VInv, NoncesFresh
<1>3. VerifiedAnswered'
    BY DEF VInv, VerifiedAnswered
<1> QED
    BY <1>1, <1>2, <1>3 DEF VInv

LEMMA RemainingIs ==
    ASSUME NEW n \in VNode, NEW t, t = Remaining(n)
    PROVE  /\ t = [p \in VNode |-> t[p]]
           /\ \A p \in VNode : t[p] \in {NoChallenge, pending_challenges[n][p]}
    BY DEF Remaining

\* n puts a fresh challenge to p.
LEMMA ChallengePut ==
    ASSUME VInv, NEW n \in VNode, NEW p \in VNode, NEW c, NEW t, t = Remaining(n), Drawn,
           c.nonce_b = nonces + 1, c.expires_at \in Int,
           pending_challenges' = [pending_challenges EXCEPT ![n] = [t EXCEPT ![p] = c]],
           challenges' = challenges \cup {[by |-> n, to |-> p, challenge |-> c]},
           UNCHANGED <<qr_codes, signatures, verified, v_now>>
    PROVE  VInv'
<1>1. nonces \in Nat /\ nonces' = nonces + 1 /\ c # NoChallenge
    BY DEF VInv, Drawn, NoChallenge
<1>2. /\ t = [b \in VNode |-> t[b]]
      /\ \A b \in VNode : t[b] \in {NoChallenge, pending_challenges[n][b]}
    BY RemainingIs
<1>3. pending_challenges' = [a \in VNode |-> [b \in VNode |-> pending_challenges'[a][b]]]
    BY <1>2 DEF VInv
<1>4. /\ pending_challenges'[n][p] = c
      /\ \A a, b \in VNode : a # n \/ b # p =>
             pending_challenges'[a][b] \in {NoChallenge, pending_challenges[a][b]}
    BY <1>2 DEF VInv
<1>5. ASSUME NEW a \in VNode, NEW b \in VNode PROVE PendingOK(a, b, pending_challenges[a][b])'
    <2>1. PendingOK(a, b, pending_challenges[a][b])
        BY DEF VInv
    <2>2. CASE a = n /\ b = p
        BY <2>2, <1>1, <1>4 DEF PendingOK
    <2>3. CASE a # n \/ b # p
        BY <2>1, <2>3, <1>1, <1>4 DEF PendingOK
    <2> QED
        BY <2>2, <2>3
<1>6. ASSUME NEW a \in VNode, NEW b \in VNode, pending_challenges[a][b] # NoChallenge
      PROVE  pending_challenges[a][b].nonce_b \in 1 .. nonces
    BY <1>6 DEF VInv, PendingOK
<1>7. NoncesFresh'
    <2>1. ASSUME NEW a \in VNode, NEW b \in VNode, NEW d \in VNode, NEW e \in VNode,
                 pending_challenges'[a][b] # NoChallenge, pending_challenges'[d][e] # NoChallenge,
                 pending_challenges'[a][b].nonce_b = pending_challenges'[d][e].nonce_b
          PROVE  a = d /\ b = e
        <3>1. CASE (a # n \/ b # p) /\ (d # n \/ e # p)
            BY <2>1, <3>1, <1>4 DEF VInv, NoncesFresh
        <3>2. CASE a = n /\ b = p /\ (d # n \/ e # p)
            BY <2>1, <3>2, <1>1, <1>4, <1>6
        <3>3. CASE d = n /\ e = p /\ (a # n \/ b # p)
            BY <2>1, <3>3, <1>1, <1>4, <1>6
        <3> QED
            BY <3>1, <3>2, <3>3
    <2>2. ASSUME NEW v \in verified
          PROVE  /\ v.nonce_b \in 1 .. nonces'
                 /\ \A a, b \in VNode : pending_challenges'[a][b] # NoChallenge
                                        => pending_challenges'[a][b].nonce_b # v.nonce_b
        <3>1. /\ v.nonce_b \in 1 .. nonces
              /\ \A a, b \in VNode : pending_challenges[a][b] # NoChallenge
                                     => pending_challenges[a][b].nonce_b # v.nonce_b
            BY DEF VInv, NoncesFresh
        <3> QED
            BY <3>1, <1>1, <1>4
    <2> QED
        BY <2>1, <2>2 DEF NoncesFresh
<1>8. VerifiedAnswered'
    BY DEF VInv, VerifiedAnswered
<1>9. \A a, b \in VNode : PendingOK(a, b, pending_challenges[a][b])'
    BY <1>5
<1>10. nonces' \in Nat /\ v_now' \in Nat /\ \A q \in qr_codes' : q.noise_public_key \in VNode
    BY <1>1 DEF VInv
<1> QED
    BY <1>3, <1>7, <1>8, <1>9, <1>10, Zenon DEF VInv

\* What one response does: its challenge is gone, and at most one Success is new.
LEMMA ResponseJudged ==
    ASSUME VInv, NEW n \in VNode, NEW r, r.noise_public_key \in VNode,
           r.signature \in signatures \cup {NoSignature}, process_verification_response(n, r)
    PROVE  VInv' /\ ChallengeUsedOnce
<1> DEFINE p == r.noise_public_key
           c == pending_challenges[n][p]
           s == Success(n, r, c)
<1>1. p \in VNode
    OBVIOUS
<1>2. /\ c # NoChallenge
      /\ pending_challenges' = [pending_challenges EXCEPT ![n][p] = NoChallenge]
      /\ verified' \in {verified, verified \cup {s}}
      /\ verified' # verified => ~ChallengeExpired(c) /\ verify(r, c)
      /\ UNCHANGED <<qr_codes, challenges, signatures, nonces, v_now>>
    BY DEF process_verification_response, Removed
<1>3. [by |-> n, to |-> p, challenge |-> c] \in challenges /\ c.nonce_b \in 1 .. nonces /\ c.expires_at \in Int
    BY <1>1, <1>2 DEF VInv, PendingOK
<1>4. /\ s.verifier = n /\ s.peer = p /\ s.nonce_b = c.nonce_b /\ s.at = v_now
      /\ s.key = r.signing_public_key
    BY DEF Success
<1> HIDE DEF s
<1>5. pending_challenges' = [a \in VNode |-> [b \in VNode |-> pending_challenges'[a][b]]]
    BY <1>1, <1>2 DEF VInv
<1>6. \A a, b \in VNode : pending_challenges'[a][b] = IF a = n /\ b = p THEN NoChallenge
                                                                     ELSE pending_challenges[a][b]
    BY <1>1, <1>2 DEF VInv
<1>7. \A a, b \in VNode : PendingOK(a, b, pending_challenges[a][b])'
    BY <1>2, <1>6 DEF VInv, PendingOK
<1>8. NoncesFresh'
    <2>1. \A v \in verified' : v.nonce_b \in 1 .. nonces'
        BY <1>2, <1>3, <1>4 DEF VInv, NoncesFresh
    <2>2. ASSUME NEW v \in verified', NEW a \in VNode, NEW b \in VNode,
                 pending_challenges'[a][b] # NoChallenge
          PROVE  pending_challenges'[a][b].nonce_b # v.nonce_b
        <3>1. (a # n \/ b # p) /\ pending_challenges'[a][b] = pending_challenges[a][b]
            BY <2>2, <1>6
        <3>2. CASE v \in verified
            BY <2>2, <3>1, <3>2 DEF VInv, NoncesFresh
        <3>3. CASE v = s
            BY <2>2, <3>1, <3>3, <1>1, <1>2, <1>4 DEF VInv, NoncesFresh
        <3> QED
            BY <3>2, <3>3, <1>2
    <2>3. ASSUME NEW a \in VNode, NEW b \in VNode, NEW d \in VNode, NEW e \in VNode,
                 pending_challenges'[a][b] # NoChallenge, pending_challenges'[d][e] # NoChallenge,
                 pending_challenges'[a][b].nonce_b = pending_challenges'[d][e].nonce_b
          PROVE  a = d /\ b = e
        BY <2>3, <1>6 DEF VInv, NoncesFresh
    <2> QED
        BY <2>1, <2>2, <2>3 DEF NoncesFresh
<1>9. VerifiedAnswered'
    <2>1. ASSUME NEW v \in verified'
          PROVE  \E m \in challenges :
                     /\ m.by = v.verifier /\ m.to = v.peer /\ m.challenge.nonce_b = v.nonce_b
                     /\ v.at <= m.challenge.expires_at
                     /\ Signature(v.key, m.challenge) \in signatures
        <3>1. CASE v \in verified
            BY <3>1 DEF VInv, VerifiedAnswered
        <3>2. CASE v \notin verified
            <4>1. v = s /\ v_now <= c.expires_at
                BY <3>2, <1>2, <1>3 DEF ChallengeExpired, VInv
            <4>2. PICK m \in challenges : m = [by |-> n, to |-> p, challenge |-> c]
                BY <1>3
            <4>3. m.by = n /\ m.to = p /\ m.challenge = c
                BY <4>2
            <4>4. Signature(v.key, c) = r.signature
                BY <3>2, <4>1, <1>2, <1>4 DEF verify
            <4>5. r.signature \in signatures
                BY <4>4 DEF Signature, NoSignature
            <4> QED
                BY <4>1, <4>3, <4>4, <4>5, <1>4
        <3> QED
            BY <3>1, <3>2
    <2> QED
        BY <2>1, <1>2 DEF VerifiedAnswered
<1>10. VInv'
    BY <1>2, <1>5, <1>7, <1>8, <1>9 DEF VInv
<1>11. ChallengeUsedOnce
    <2>1. \A w \in verified : w.nonce_b # c.nonce_b
        BY <1>1, <1>2 DEF VInv, NoncesFresh
    <2> QED
        BY <2>1, <1>2, <1>4 DEF ChallengeUsedOnce
<1> QED
    BY <1>10, <1>11

LEMMA VStep ==
    ASSUME VInv, [VNext]_vVars
    PROVE  VInv' /\ ChallengeUsedOnce
<1> USE VAssumption
<1>0. nonces \in Nat /\ v_now \in Nat
    BY DEF VInv
<1>1. ASSUME NEW n \in VNode, NEW p \in VNode, generate_verification_qr(n, p)
      PROVE  VInv' /\ ChallengeUsedOnce
    <2>1. \A q \in qr_codes' : q.noise_public_key \in VNode
        BY <1>1 DEF generate_verification_qr, VInv, VerificationQR
    <2> QED
        BY <1>0, <1>1, <2>1, FewerPending DEF generate_verification_qr, Drawn, VInv, ChallengeUsedOnce
<1>2. ASSUME NEW n \in VNode, pending_challenges' = [pending_challenges EXCEPT ![n] = Remaining(n)],
             UNCHANGED <<qr_codes, challenges, signatures, verified, nonces, v_now>>
      PROVE  VInv' /\ ChallengeUsedOnce
    <2>1. PICK t : t = Remaining(n)
        OBVIOUS
    <2>2. /\ t = [p \in VNode |-> t[p]]
          /\ \A p \in VNode : t[p] \in {NoChallenge, pending_challenges[n][p]}
        BY <2>1, RemainingIs
    <2>3. pending_challenges' = [a \in VNode |-> [b \in VNode |-> pending_challenges'[a][b]]]
        BY <1>2, <2>1, <2>2 DEF VInv
    <2>4. \A a, b \in VNode : pending_challenges'[a][b] \in {NoChallenge, pending_challenges[a][b]}
        BY <1>2, <2>1, <2>2 DEF VInv
    <2> QED
        BY <1>0, <1>2, <2>3, <2>4, FewerPending DEF VInv, ChallengeUsedOnce
<1>3. ASSUME NEW n \in VNode, NEW q \in qr_codes, process_scanned_qr(n, q)
      PROVE  VInv' /\ ChallengeUsedOnce
    <2>1. CASE Cardinality(PendingOf(Remaining(n))) >= MaxPending
        BY <1>2, <1>3, <2>1 DEF process_scanned_qr
    <2>2. CASE ~(Cardinality(PendingOf(Remaining(n))) >= MaxPending)
        <3> DEFINE c == PendingChallenge(q)
        <3>1. PICK p, t : p \in VNode /\ p = q.noise_public_key /\ t = Remaining(n)
            BY DEF VInv
        <3>2. /\ Drawn
              /\ pending_challenges' = [pending_challenges EXCEPT ![n] = [t EXCEPT ![p] = c]]
              /\ challenges' = challenges \cup {[by |-> n, to |-> p, challenge |-> c]}
              /\ UNCHANGED <<qr_codes, signatures, verified, v_now>>
            BY <1>3, <2>2, <3>1 DEF process_scanned_qr
        <3>3. c.nonce_b = nonces + 1 /\ c.expires_at \in Int
            BY <1>0 DEF PendingChallenge
        <3> HIDE DEF c
        <3>4. VInv'
            BY <3>1, <3>2, <3>3, ChallengePut
        <3> QED
            BY <3>2, <3>4 DEF ChallengeUsedOnce
    <2> QED
        BY <2>1, <2>2
<1>4. ASSUME NEW n \in VNode, NEW m \in challenges, create_challenge_response(n, m)
      PROVE  VInv' /\ ChallengeUsedOnce
    BY <1>0, <1>4, FewerPending DEF create_challenge_response, Drawn, VInv, ChallengeUsedOnce
<1>5. CASE VTick
    BY <1>0, <1>5, FewerPending DEF VTick, VInv, ChallengeUsedOnce
<1>6. CASE UNCHANGED vVars
    BY <1>0, <1>6, FewerPending DEF vVars, VInv, ChallengeUsedOnce
<1>7. ASSUME NEW n \in VNode, cleanup_expired_challenges(n) PROVE VInv' /\ ChallengeUsedOnce
    BY <1>2, <1>7 DEF cleanup_expired_challenges
<1>8. ASSUME NEW n \in VNode, NEW p \in VNode, NEW k \in VNode,
             NEW s \in signatures \cup {NoSignature},
             process_verification_response(n, Response(p, k, s))
      PROVE  VInv' /\ ChallengeUsedOnce
    BY <1>8, ResponseJudged DEF Response
<1> QED
    BY <1>1, <1>3, <1>4, <1>5, <1>6, <1>7, <1>8 DEF VNext

\* For any number of nodes, however codes, challenges and responses are shown
\* again, delayed or lost, and whoever writes the responses: a success rests on a
\* signature over this node's own challenge to that peer, by the key the response
\* names, in time and once (process_verification_response).
THEOREM VerificationIsSound == VSpec => VerificationSound
<1>1. VInv /\ [VNext]_vVars => VInv' /\ [VerifiedAnswered' /\ ChallengeUsedOnce]_vVars
    BY VStep DEF VInv
<1> QED
    BY <1>1, VInitInv, PTL DEF VSpec, VerificationSound


-----------------------------------------------------------------------------
(* Noise sessions: the invariant of a slot *)

\* What a handshake in progress, held by node n, has seen.
HandshakeOK(hs, n) ==
    /\ Len(hs.h) < 3
    /\ hs.role = "initiator" =>
        /\ Len(hs.h) >= 1 => Wrote(hs.h[1], n, << >>)
        /\ Len(hs.h) >= 2 => \E o \in Node : /\ Wrote(hs.h[2], o, <<hs.h[1]>>)
                                             /\ hs.rs = FingerprintOf(o)
    /\ (hs.role = "responder" /\ Len(hs.h) >= 2) =>
        /\ Wrote(hs.h[2], n, <<hs.h[1]>>)
        /\ \A c \in wire : c.role = "responder" => c.key[2] # hs.h[2]

\* The initiator and the responder of a transport held by n, with o its other end.
InitiatorOf(t, n, o) == IF t.role = "initiator" THEN n ELSE o
ResponderOf(t, n, o) == IF t.role = "initiator" THEN o ELSE n

\* The transcript behind a transport held by n, with o the other end.
KeyOK(t, n, o) ==
    LET i == InitiatorOf(t, n, o)
        r == ResponderOf(t, n, o)
    IN  /\ Len(t.key) = 3
        /\ Wrote(t.key[1], i, << >>)
        /\ Wrote(t.key[2], r, <<t.key[1]>>)
        /\ Wrote(t.key[3], i, <<t.key[1], t.key[2]>>)

\* Sent and received nonces of a transport with o the other end.
NoncesOK(t, o) ==
    /\ \A c \in wire : (c.key = t.key /\ c.role = t.role) => c.n < t.sendN
    /\ \A i \in 0..(t.recvN - 1) :
        \E c \in wire : /\ c.key = t.key /\ c.role # t.role
                        /\ c.n = i /\ c.from = o

\* A transport held by n under the given fingerprint.
TransportOK(t, n, fingerprint) ==
    \E o \in Node : /\ fingerprint = FingerprintOf(o)
                    /\ KeyOK(t, n, o) /\ NoncesOK(t, o)

SlotOK(s, n) ==
    s # NoSession =>
        /\ s.state \in {"Handshaking", "Rekeying"} <=> s.handshake # NoHandshake
        /\ s.state = "Established" <=> s.transport # NoTransport
        /\ s.handshake # NoHandshake => HandshakeOK(s.handshake, n)
        /\ s.transport # NoTransport =>
            /\ TransportOK(s.transport, n, s.fingerprint)
            /\ s.transport.sendN + s.transport.recvN <= s.count

NetOK ==
    /\ \A m \in net : m.id < nextId
    /\ \A m1, m2 \in net : m1.id = m2.id => m1 = m2
    /\ \A m \in net : Len(m.h) = 2 => Wrote(m.h[1], m.from, << >>)

WireOK == \A c \in wire : \E o \in Node : KeyOK([key |-> c.key, role |-> c.role], c.from, o)

\* The first message a transcript's holder wrote itself: its ephemeral key.
Own(role, h, x) ==
    \/ role = "initiator" /\ Len(h) >= 1 /\ x = h[1]
    \/ role = "responder" /\ Len(h) >= 2 /\ x = h[2]

Owns(s, x) ==
    /\ s # NoSession
    /\ \/ s.handshake # NoHandshake /\ Own(s.handshake.role, s.handshake.h, x)
       \/ s.transport # NoTransport /\ Own(s.transport.role, s.transport.key, x)

\* An ephemeral key belongs to one slot of one node: what tells two sessions
\* apart when any bytes may reach any of them.
OwnersOK ==
    \A x \in Nat :
        /\ \A n \in Node, p \in PeerId : Owns(sessions[n][p], x) => x < nextId
        /\ \A n, q \in Node : \A p, r \in PeerId :
            Owns(sessions[n][p], x) /\ Owns(sessions[q][r], x) => n = q /\ p = r

IInv ==
    /\ TypeOK
    /\ NetOK
    /\ WireOK
    /\ OwnersOK
    /\ \A n \in Node, p \in PeerId : SlotOK(sessions[n][p], n)

-----------------------------------------------------------------------------
(* Facts about slots and records *)

\* A member of a session slot is a session exactly when it is not NoSession.
LEMMA SlotCases ==
    ASSUME NEW s \in Session \cup {NoSession}
    PROVE  /\ s # NoSession => s \in Session
           /\ s \in Session => s # NoSession
<1>1. ASSUME s \in Session PROVE s # NoSession
    <2>1. s.state \in SessionState BY <1>1 DEF Session
    <2>2. NoSession.state = "None" BY DEF NoSession
    <2> QED BY <2>1, <2>2 DEF SessionState
<1> QED BY <1>1

\* The two "none" records are not cipher states.
LEMMA NoneDistinct ==
    /\ NoHandshake \notin NoiseHandshake
    /\ NoTransport \notin NoiseTransport
<1>1. NoHandshake.role = "none" /\ NoTransport.role = "none"
    BY DEF NoHandshake, NoTransport
<1>2. \A hs \in NoiseHandshake : hs.role \in Role BY DEF NoiseHandshake
<1>3. \A t \in NoiseTransport : t.role \in Role BY DEF NoiseTransport
<1> QED BY <1>1, <1>2, <1>3 DEF Role

\* Writing one slot of the session map leaves every other slot alone.
LEMMA PutSlot ==
    ASSUME TypeOK, NEW n \in Node, NEW p \in PeerId,
           NEW s \in Session \cup {NoSession}, Put(n, p, s)
    PROVE  /\ sessions' \in [Node -> [PeerId -> Session \cup {NoSession}]]
           /\ sessions'[n][p] = s
           /\ \A q \in Node, r \in PeerId :
                <<q, r>> # <<n, p>> => sessions'[q][r] = sessions[q][r]
<1> DEFINE S == Session \cup {NoSession}
<1>1. sessions \in [Node -> [PeerId -> S]] BY DEF TypeOK
<1>2. s \in S OBVIOUS
<1>3. sessions' = [sessions EXCEPT ![n][p] = s] BY DEF Put
<1> HIDE DEF S
<1>4. /\ sessions' \in [Node -> [PeerId -> S]]
      /\ sessions'[n][p] = s
      /\ \A q \in Node, r \in PeerId :
            <<q, r>> # <<n, p>> => sessions'[q][r] = sessions[q][r]
    BY <1>1, <1>2, <1>3
<1> QED BY <1>4 DEF S

LEMMA NewSessionType ==
    /\ Initiator \in NoiseHandshake
    /\ Responder \in NoiseHandshake
    /\ \A hs \in NoiseHandshake : NewSession(hs) \in Session
<1>1. << >> \in Seq(Nat) OBVIOUS
<1>2. NoFingerprint \in Fingerprint BY DEF Fingerprint
<1>3. Initiator \in NoiseHandshake /\ Responder \in NoiseHandshake
    BY <1>1, <1>2 DEF Initiator, Responder, NoiseHandshake, Role, Transcript
<1>4. \A hs \in NoiseHandshake : NewSession(hs) \in Session
    BY <1>2 DEF NewSession, Session, SessionState
<1> QED BY <1>3, <1>4

LEMMA BelowThree == \A k \in Nat : k < 3 => k = 0 \/ k = 1 \/ k = 2
    OBVIOUS

\* Short transcripts are given by their elements.
LEMMA ShortTranscripts ==
    ASSUME NEW h \in Transcript
    PROVE  /\ Len(h) \in Nat
           /\ Len(h) = 0 => h = << >>
           /\ Len(h) = 1 => h = <<h[1]>>
           /\ Len(h) = 2 => h = <<h[1], h[2]>>
    BY DEF Transcript

\* One more message at the end of a transcript.
LEMMA LongerTranscript ==
    ASSUME NEW h \in Transcript, NEW x \in Nat
    PROVE  /\ Append(h, x) \in Transcript
           /\ Len(Append(h, x)) = Len(h) + 1
           /\ Append(h, x)[Len(h) + 1] = x
           /\ \A i \in 1..Len(h) : Append(h, x)[i] = h[i]
    BY DEF Transcript

-----------------------------------------------------------------------------
(* What a step does to the invariant of a slot *)

\* A slot that is not written keeps its invariant while messages are added.
LEMMA SlotKept ==
    ASSUME NEW n \in Node, NEW s, SlotOK(s, n),
           net \subseteq net', wire' = wire
    PROVE  SlotOK(s, n)'
<1>1. \A i, a, h : Wrote(i, a, h) => Wrote(i, a, h)' BY DEF Wrote
<1>2. ASSUME NEW hs, HandshakeOK(hs, n) PROVE HandshakeOK(hs, n)'
    BY <1>1, <1>2 DEF HandshakeOK
<1>3. ASSUME NEW t, NEW f, TransportOK(t, n, f) PROVE TransportOK(t, n, f)'
    <2> PICK o \in Node : f = FingerprintOf(o) /\ KeyOK(t, n, o) /\ NoncesOK(t, o)
        BY <1>3 DEF TransportOK
    <2>1. KeyOK(t, n, o)' BY <1>1 DEF KeyOK, InitiatorOf, ResponderOf
    <2>2. NoncesOK(t, o)' BY DEF NoncesOK
    <2> QED BY <2>1, <2>2 DEF TransportOK
<1> QED BY <1>2, <1>3 DEF SlotOK

\* A freshly created session is in order and has written nothing.
LEMMA NewSlot ==
    ASSUME NEW n \in Node, NEW hs \in {Initiator, Responder}
    PROVE  SlotOK(NewSession(hs), n)' /\ \A x : ~Owns(NewSession(hs), x)
<1>1. hs \in NoiseHandshake /\ hs # NoHandshake /\ Len(hs.h) = 0
    BY NewSessionType, NoneDistinct DEF Initiator, Responder
<1>2. HandshakeOK(hs, n)' BY <1>1 DEF HandshakeOK
<1>3. SlotOK(NewSession(hs), n)' BY <1>1, <1>2 DEF SlotOK, NewSession
<1>4. \A x : ~Own(hs.role, hs.h, x) BY <1>1 DEF Own
<1>5. \A x : ~Owns(NewSession(hs), x) BY <1>4 DEF Owns, NewSession
<1> QED BY <1>3, <1>5

\* Writing a handshake message: the only one a transcript's holder comes to own
\* is the one it writes.
LEMMA WrittenOK ==
    ASSUME TypeOK, NetOK, WireOK, NEW n \in Node,
           NEW hs \in NoiseHandshake, HandshakeOK(hs, n), CanWrite(hs),
           NEW id, id = nextId,
           net' = net \cup {[id |-> id, from |-> n, h |-> hs.h]},
           wire' = wire
    PROVE  LET w == Written(hs, id)
           IN  /\ w \in NoiseHandshake
               /\ ~is_handshake_finished(w) => HandshakeOK(w, n)'
               /\ is_handshake_finished(w) => TransportOK(into_transport_mode(w), n, w.rs)'
               /\ \A x : Own(w.role, w.h, x) => x = id \/ Own(hs.role, hs.h, x)
<1> DEFINE w == Written(hs, id)
           Goal == /\ ~is_handshake_finished(w) => HandshakeOK(w, n)'
                   /\ is_handshake_finished(w) =>
                        TransportOK(into_transport_mode(w), n, w.rs)'
                   /\ \A x : Own(w.role, w.h, x) => x = id \/ Own(hs.role, hs.h, x)
<1>1. hs.h \in Transcript /\ hs.role \in Role /\ id \in Nat /\ id = nextId
    BY DEF NoiseHandshake, TypeOK
<1>2. w \in NoiseHandshake /\ w.h = Append(hs.h, id)
        /\ w.role = hs.role /\ w.rs = hs.rs
    BY <1>1, LongerTranscript DEF Written, NoiseHandshake
<1>2a. Len(hs.h) \in Nat /\ Len(w.h) = Len(hs.h) + 1 /\ w.h[Len(hs.h) + 1] = id
        /\ \A i \in 1..Len(hs.h) : w.h[i] = hs.h[i]
    BY <1>1, <1>2, ShortTranscripts, LongerTranscript
<1> SUFFICES Goal BY <1>2
<1> HIDE DEF w, Goal
<1>3. \A i, a, h : Wrote(i, a, h) => Wrote(i, a, h)' BY DEF Wrote
<1>4. Wrote(id, n, hs.h)' BY DEF Wrote
<1>5. \A i, a, h : Wrote(i, a, h) => i # id
    <2> SUFFICES ASSUME NEW i, NEW a, NEW h, Wrote(i, a, h)
                 PROVE  i # id
        OBVIOUS
    <2>1. [id |-> i, from |-> a, h |-> h] \in net BY DEF Wrote
    <2> QED BY <2>1, <1>1 DEF NetOK, TypeOK, Message
<1>6. \A c \in wire : c.key[2] # id /\ c.key[3] # id
    BY <1>5 DEF WireOK, KeyOK
<1>7. \/ hs.role = "initiator" /\ Len(hs.h) = 0
      \/ hs.role = "responder" /\ Len(hs.h) = 1
      \/ hs.role = "initiator" /\ Len(hs.h) = 2
    <2>1. Len(hs.h) < 3 BY DEF HandshakeOK
    <2>0. Len(hs.h) \in Nat BY <1>2a
    <2>2. Len(hs.h) = 0 \/ Len(hs.h) = 1 \/ Len(hs.h) = 2
        BY <2>0, <2>1, BelowThree
    <2>3. (hs.role = "initiator") <=> (Len(hs.h) % 2 = 0)
        BY DEF CanWrite, MyTurn
    <2>4. hs.role = "initiator" \/ hs.role = "responder" BY <1>1 DEF Role
    <2>5. 0 % 2 = 0 /\ 1 % 2 = 1 /\ 2 % 2 = 0 OBVIOUS
    <2> QED BY <2>2, <2>3, <2>4, <2>5
<1>8. CASE hs.role = "initiator" /\ Len(hs.h) = 0
    <2>1. hs.h = << >> /\ Len(w.h) = 1 /\ w.h[1] = id
        BY <1>1, <1>2a, <1>8, ShortTranscripts
    <2>2. HandshakeOK(w, n)' BY <2>1, <1>2, <1>4, <1>8 DEF HandshakeOK
    <2>3. \A x : Own(w.role, w.h, x) => x = id BY <2>1, <1>2, <1>8 DEF Own
    <2> QED BY <2>1, <2>2, <2>3 DEF Goal, is_handshake_finished, XXMessages
<1>9. CASE hs.role = "responder" /\ Len(hs.h) = 1
    <2>1. /\ hs.h = <<hs.h[1]>> /\ Len(w.h) = 2
          /\ w.h[1] = hs.h[1] /\ w.h[2] = id
        BY <1>1, <1>2a, <1>9, ShortTranscripts
    <2>2. HandshakeOK(w, n)'
        BY <2>1, <1>2, <1>4, <1>6, <1>9 DEF HandshakeOK
    <2>3. \A x : Own(w.role, w.h, x) => x = id BY <2>1, <1>2, <1>9 DEF Own
    <2> QED BY <2>1, <2>2, <2>3 DEF Goal, is_handshake_finished, XXMessages
<1>10. CASE hs.role = "initiator" /\ Len(hs.h) = 2
    <2>1. /\ hs.h = <<hs.h[1], hs.h[2]>> /\ Len(w.h) = 3
          /\ w.h[1] = hs.h[1] /\ w.h[2] = hs.h[2] /\ w.h[3] = id
        BY <1>1, <1>2a, <1>10, ShortTranscripts
    <2>2. Wrote(hs.h[1], n, << >>)
        BY <1>10 DEF HandshakeOK
    <2> PICK o \in Node : Wrote(hs.h[2], o, <<hs.h[1]>>) /\ hs.rs = FingerprintOf(o)
        BY <1>10 DEF HandshakeOK
    <2> DEFINE t == into_transport_mode(w)
    <2>3. t.key = w.h /\ t.role = "initiator" /\ t.sendN = 0 /\ t.recvN = 0
        BY <1>2, <1>10 DEF into_transport_mode
    <2> HIDE DEF t
    <2>4. InitiatorOf(t, n, o) = n /\ ResponderOf(t, n, o) = o
        BY <2>3 DEF InitiatorOf, ResponderOf
    <2>5. /\ Wrote(w.h[1], n, << >>)' /\ Wrote(w.h[2], o, <<w.h[1]>>)'
          /\ Wrote(w.h[3], n, <<w.h[1], w.h[2]>>)'
        BY <2>1, <2>2, <1>3, <1>4
    <2>6. KeyOK(t, n, o)' BY <2>1, <2>3, <2>4, <2>5 DEF KeyOK
    <2>7. NoncesOK(t, o)' BY <2>1, <2>3, <1>6 DEF NoncesOK
    <2>8. TransportOK(t, n, w.rs)' BY <2>6, <2>7, <1>2 DEF TransportOK
    <2>9. \A x : Own(w.role, w.h, x) => Own(hs.role, hs.h, x)
        BY <2>1, <1>2, <1>10 DEF Own
    <2> QED BY <2>1, <2>8, <2>9 DEF Goal, is_handshake_finished, XXMessages, t
<1> QED BY <1>7, <1>8, <1>9, <1>10

\* Reading any handshake message of the network: the transcript's holder comes to
\* own none by it.
LEMMA ReadOK ==
    ASSUME TypeOK, NetOK, NEW n \in Node,
           NEW hs \in NoiseHandshake, HandshakeOK(hs, n),
           NEW m \in net, CanRead(hs, m),
           net' = net, wire' = wire
    PROVE  LET w == Read(hs, m)
           IN  /\ w \in NoiseHandshake
               /\ ~is_handshake_finished(w) => HandshakeOK(w, n)'
               /\ is_handshake_finished(w) => TransportOK(into_transport_mode(w), n, w.rs)'
               /\ \A x : Own(w.role, w.h, x) => Own(hs.role, hs.h, x)
<1> DEFINE w == Read(hs, m)
           Goal == /\ ~is_handshake_finished(w) => HandshakeOK(w, n)'
                   /\ is_handshake_finished(w) =>
                        TransportOK(into_transport_mode(w), n, w.rs)'
                   /\ \A x : Own(w.role, w.h, x) => Own(hs.role, hs.h, x)
<1> PICK o : o = m.from OBVIOUS
<1>1. hs.h \in Transcript /\ hs.role \in Role /\ hs.rs \in Fingerprint
    BY DEF NoiseHandshake
<1>2. /\ m.id \in Nat /\ o \in Node
      /\ m = [id |-> m.id, from |-> o, h |-> m.h]
    BY DEF TypeOK, Message
<1>3. FingerprintOf(o) \in Fingerprint BY <1>2 DEF Fingerprint
<1>4. /\ w \in NoiseHandshake /\ w.h = Append(hs.h, m.id) /\ w.role = hs.role
      /\ Len(hs.h) # 0 => w.rs = FingerprintOf(o)
    <2>1. Append(hs.h, m.id) \in Transcript BY <1>1, <1>2, LongerTranscript
    <2> QED BY <2>1, <1>1, <1>3 DEF Read, NoiseHandshake
<1>5. Len(hs.h) \in Nat /\ Len(w.h) = Len(hs.h) + 1 /\ w.h[Len(hs.h) + 1] = m.id
        /\ \A i \in 1..Len(hs.h) : w.h[i] = hs.h[i]
    BY <1>1, <1>2, <1>4, ShortTranscripts, LongerTranscript
<1> SUFFICES Goal BY <1>4
<1> HIDE DEF w, Goal
<1>6. Wrote(m.id, o, m.h) BY <1>2 DEF Wrote
<1>7. Len(hs.h) # 0 => m.h = hs.h BY DEF CanRead
<1>8. \/ hs.role = "responder" /\ Len(hs.h) = 0
      \/ hs.role = "initiator" /\ Len(hs.h) = 1
      \/ hs.role = "responder" /\ Len(hs.h) = 2
    <2>1. Len(hs.h) < 3 BY DEF HandshakeOK
    <2>2. Len(hs.h) \in Nat BY <1>5
    <2>3. Len(hs.h) = 0 \/ Len(hs.h) = 1 \/ Len(hs.h) = 2
        BY <2>1, <2>2, BelowThree
    <2>4. ~((hs.role = "initiator") <=> (Len(hs.h) % 2 = 0))
        BY DEF CanRead, MyTurn
    <2>5. hs.role = "initiator" \/ hs.role = "responder" BY <1>1 DEF Role
    <2>6. 0 % 2 = 0 /\ 1 % 2 = 1 /\ 2 % 2 = 0 OBVIOUS
    <2> QED BY <2>3, <2>4, <2>5, <2>6
<1>9. CASE hs.role = "responder" /\ Len(hs.h) = 0
    <2>1. Len(w.h) = 1 BY <1>5, <1>9
    <2>2. HandshakeOK(w, n)' BY <2>1, <1>4, <1>9 DEF HandshakeOK
    <2>3. \A x : ~Own(w.role, w.h, x) BY <2>1, <1>4, <1>9 DEF Own
    <2> QED BY <2>1, <2>2, <2>3 DEF Goal, is_handshake_finished, XXMessages
<1>10. CASE hs.role = "initiator" /\ Len(hs.h) = 1
    <2>1. /\ hs.h = <<hs.h[1]>> /\ Len(w.h) = 2
          /\ w.h[1] = hs.h[1] /\ w.h[2] = m.id
        BY <1>1, <1>5, <1>10, ShortTranscripts
    <2>2. Wrote(hs.h[1], n, << >>) BY <1>10 DEF HandshakeOK
    <2>3. Wrote(m.id, o, <<hs.h[1]>>) BY <2>1, <1>6, <1>7, <1>10
    <2>4. \A i, a, h : Wrote(i, a, h)' <=> Wrote(i, a, h)
        BY DEF Wrote
    <2>5. HandshakeOK(w, n)'
        BY <2>1, <2>2, <2>3, <2>4, <1>2, <1>4, <1>10 DEF HandshakeOK
    <2>6. \A x : Own(w.role, w.h, x) => Own(hs.role, hs.h, x)
        BY <2>1, <1>4, <1>10 DEF Own
    <2> QED BY <2>1, <2>5, <2>6 DEF Goal, is_handshake_finished, XXMessages
<1>11. CASE hs.role = "responder" /\ Len(hs.h) = 2
    <2>1. /\ hs.h = <<hs.h[1], hs.h[2]>> /\ Len(w.h) = 3
          /\ w.h[1] = hs.h[1] /\ w.h[2] = hs.h[2] /\ w.h[3] = m.id
        BY <1>1, <1>5, <1>11, ShortTranscripts
    <2>2. Len(m.h) = 2 /\ m.h = hs.h BY <1>7, <1>11
    <2>3. Wrote(hs.h[1], o, << >>) BY <2>2 DEF NetOK
    <2>4. Wrote(m.id, o, <<hs.h[1], hs.h[2]>>) BY <2>1, <2>2, <1>6
    <2>5. /\ Wrote(hs.h[2], n, <<hs.h[1]>>)
          /\ \A c \in wire : c.role = "responder" => c.key[2] # hs.h[2]
        BY <1>11 DEF HandshakeOK
    <2> DEFINE t == into_transport_mode(w)
    <2>6. t.key = w.h /\ t.role = "responder" /\ t.sendN = 0 /\ t.recvN = 0
        BY <1>4, <1>11 DEF into_transport_mode
    <2> HIDE DEF t
    <2>7. InitiatorOf(t, n, o) = o /\ ResponderOf(t, n, o) = n
        BY <2>6 DEF InitiatorOf, ResponderOf
    <2>8. /\ Wrote(w.h[1], o, << >>)' /\ Wrote(w.h[2], n, <<w.h[1]>>)'
          /\ Wrote(w.h[3], o, <<w.h[1], w.h[2]>>)'
        BY <2>1, <2>3, <2>4, <2>5 DEF Wrote
    <2>9. KeyOK(t, n, o)' BY <2>1, <2>6, <2>7, <2>8 DEF KeyOK
    <2>10. NoncesOK(t, o)' BY <2>1, <2>5, <2>6 DEF NoncesOK
    <2>11. w.rs = FingerprintOf(o) BY <1>4, <1>11
    <2>12. TransportOK(t, n, w.rs)' BY <2>9, <2>10, <2>11, <1>2 DEF TransportOK
    <2>13. \A x : Own(w.role, w.h, x) => Own(hs.role, hs.h, x)
        BY <2>1, <1>4, <1>11 DEF Own
    <2> QED BY <2>1, <2>12, <2>13 DEF Goal, is_handshake_finished, XXMessages, t
<1> QED BY <1>8, <1>9, <1>10, <1>11

\* The common tail of the two handshake operations.
LEMMA AdvancedOK ==
    ASSUME NEW n \in Node,
           NEW s \in Session, s.state = "Handshaking", SlotOK(s, n),
           NEW w \in NoiseHandshake,
           ~is_handshake_finished(w) => HandshakeOK(w, n)',
           is_handshake_finished(w) => TransportOK(into_transport_mode(w), n, w.rs)'
    PROVE  /\ Advanced(s, w) \in Session
           /\ SlotOK(Advanced(s, w), n)'
           /\ \A x : Owns(Advanced(s, w), x) => Own(w.role, w.h, x)
<1> DEFINE t == into_transport_mode(w)
           v == Advanced(s, w)
<1>1. /\ s.count \in Nat /\ s.transport = NoTransport /\ s.idle \in Nat
      /\ s.fingerprint \in Fingerprint
    BY SlotCases DEF Session, SlotOK
<1>2. CASE is_handshake_finished(w)
    <2>1. t \in NoiseTransport /\ w.rs \in Fingerprint
        BY DEF into_transport_mode, NoiseHandshake, NoiseTransport
    <2>2. t # NoTransport BY <2>1, NoneDistinct
    <2>3. t.sendN = 0 /\ t.recvN = 0 /\ t.role = w.role /\ t.key = w.h
        BY DEF into_transport_mode
    <2> HIDE DEF t
    <2>4. v = [s EXCEPT !.state = "Established", !.handshake = NoHandshake,
                        !.transport = t, !.fingerprint = w.rs, !.idle = 0]
        BY <1>2 DEF Advanced, t
    <2>4a. v = [state |-> "Established", handshake |-> NoHandshake,
                transport |-> t, fingerprint |-> w.rs,
                count |-> s.count, idle |-> 0]
        BY <2>4 DEF Session
    <2>5. v \in Session BY <2>1, <2>4a, <1>1 DEF Session, SessionState
    <2>6. /\ v.state = "Established" /\ v.handshake = NoHandshake
          /\ v.transport = t /\ v.fingerprint = w.rs /\ v.count = s.count
        BY <2>4 DEF Session
    <2> HIDE DEF v
    <2>7. SlotOK(v, n)'
        BY <2>2, <2>3, <2>6, <1>1, <1>2 DEF SlotOK, t
    <2>8. \A x : Owns(v, x) => Own(w.role, w.h, x) BY <2>3, <2>6 DEF Owns
    <2> QED BY <2>5, <2>7, <2>8 DEF v
<1>3. CASE ~is_handshake_finished(w)
    <2>1. v = [s EXCEPT !.handshake = w, !.idle = 0] BY <1>3 DEF Advanced
    <2>1a. v = [state |-> "Handshaking", handshake |-> w,
                transport |-> NoTransport, fingerprint |-> s.fingerprint,
                count |-> s.count, idle |-> 0]
        BY <2>1, <1>1 DEF Session
    <2>2. v \in Session BY <2>1a, <1>1 DEF Session, SessionState
    <2>3. /\ v.state = "Handshaking" /\ v.handshake = w
          /\ v.transport = NoTransport
        BY <2>1, <1>1 DEF Session
    <2>4. w # NoHandshake BY NoneDistinct
    <2> HIDE DEF v
    <2>5. SlotOK(v, n)' BY <2>3, <2>4, <1>3 DEF SlotOK
    <2>6. \A x : Owns(v, x) => Own(w.role, w.h, x) BY <2>3 DEF Owns
    <2> QED BY <2>2, <2>5, <2>6 DEF v
<1> QED BY <1>2, <1>3

\* A slot that comes to own no more than the id just given out disturbs no other.
LEMMA OwnersKept ==
    ASSUME TypeOK, OwnersOK, NEW n \in Node, NEW p \in PeerId,
           NEW s \in Session \cup {NoSession}, Put(n, p, s),
           nextId' \in Nat, nextId <= nextId',
           \A x \in Nat : Owns(s, x) =>
                Owns(sessions[n][p], x) \/ (x = nextId /\ nextId < nextId')
    PROVE  OwnersOK'
<1>1. /\ sessions'[n][p] = s
      /\ \A q \in Node, r \in PeerId :
            <<q, r>> # <<n, p>> => sessions'[q][r] = sessions[q][r]
    BY PutSlot
<1>2. nextId \in Nat BY DEF TypeOK
<1>3. ASSUME NEW q \in Node, NEW r \in PeerId
      PROVE  <<q, r>> # <<n, p>> <=> ~(q = n /\ r = p)
    OBVIOUS
<1>4. ASSUME NEW x \in Nat, NEW q \in Node, NEW r \in PeerId, Owns(sessions'[q][r], x)
      PROVE  \/ Owns(sessions[q][r], x) /\ x < nextId
             \/ q = n /\ r = p /\ x = nextId /\ nextId < nextId'
    <2>1. CASE q = n /\ r = p
        BY <2>1, <1>1, <1>4 DEF OwnersOK
    <2>2. CASE ~(q = n /\ r = p)
        BY <2>2, <1>1, <1>3, <1>4 DEF OwnersOK
    <2> QED BY <2>1, <2>2
<1>5. ASSUME NEW x \in Nat, NEW q \in Node, NEW r \in PeerId, Owns(sessions'[q][r], x)
      PROVE  x < nextId'
    BY <1>2, <1>4, <1>5
<1>6. ASSUME NEW x \in Nat, NEW q \in Node, NEW r \in PeerId, NEW u \in Node,
             NEW v \in PeerId, Owns(sessions'[q][r], x), Owns(sessions'[u][v], x)
      PROVE  q = u /\ r = v
    <2>1. \/ Owns(sessions[q][r], x) /\ x < nextId
          \/ q = n /\ r = p /\ x = nextId
        BY <1>4, <1>6
    <2>2. \/ Owns(sessions[u][v], x) /\ x < nextId
          \/ u = n /\ v = p /\ x = nextId
        BY <1>4, <1>6
    <2>3. x < nextId => x # nextId BY <1>2
    <2> QED BY <2>1, <2>2, <2>3 DEF OwnersOK
<1> QED BY <1>5, <1>6 DEF OwnersOK

\* A step that writes one slot in order, adds messages and sends no ciphertext.
LEMMA PutKeeps ==
    ASSUME IInv, NEW n \in Node, NEW p \in PeerId,
           NEW s \in Session \cup {NoSession}, Put(n, p, s), SlotOK(s, n)',
           net \subseteq net', wire' = wire
    PROVE  /\ sessions' \in [Node -> [PeerId -> Session \cup {NoSession}]]
           /\ WireOK'
           /\ (\A q \in Node, r \in PeerId : SlotOK(sessions[q][r], q))'
<1>1. /\ sessions' \in [Node -> [PeerId -> Session \cup {NoSession}]]
      /\ sessions'[n][p] = s
      /\ \A q \in Node, r \in PeerId :
            <<q, r>> # <<n, p>> => sessions'[q][r] = sessions[q][r]
    BY PutSlot DEF IInv
<1>2. ASSUME NEW q \in Node, NEW r \in PeerId
      PROVE  SlotOK(sessions[q][r], q)'
    <2>1. CASE <<q, r>> = <<n, p>>
        <3>1. q = n /\ r = p BY <2>1
        <3> QED BY <3>1, <1>1
    <2>2. CASE <<q, r>> # <<n, p>>
        <3> PICK v : v = sessions[q][r] OBVIOUS
        <3>1. SlotOK(v, q) BY DEF IInv
        <3>2. SlotOK(v, q)' BY <3>1, SlotKept
        <3> QED BY <3>2, <2>2, <1>1
    <2> QED BY <2>1, <2>2
<1>3. WireOK'
    <2>1. \A i, a, h : Wrote(i, a, h) => Wrote(i, a, h)' BY DEF Wrote
    <2>2. ASSUME NEW t, NEW a, NEW b, KeyOK(t, a, b) PROVE KeyOK(t, a, b)'
        BY <2>1, <2>2 DEF KeyOK, InitiatorOf, ResponderOf
    <2> QED BY <2>2 DEF WireOK, IInv
<1> QED BY <1>1, <1>2, <1>3

\* A step that only writes one slot, which comes to own nothing new.
LEMMA PutOnly ==
    ASSUME IInv, NEW n \in Node, NEW p \in PeerId,
           NEW s \in Session \cup {NoSession}, Put(n, p, s), SlotOK(s, n)',
           \A x : Owns(s, x) => Owns(sessions[n][p], x),
           UNCHANGED <<net, wire, nextId>>
    PROVE  IInv'
<1>1. /\ sessions' \in [Node -> [PeerId -> Session \cup {NoSession}]]
      /\ WireOK'
      /\ (\A q \in Node, r \in PeerId : SlotOK(sessions[q][r], q))'
    BY PutKeeps
<1>2. TypeOK' BY <1>1 DEF TypeOK, IInv
<1>3. NetOK' BY DEF NetOK, IInv, Wrote
<1>4. OwnersOK'
    <2>1. nextId \in Nat /\ nextId' = nextId /\ TypeOK /\ OwnersOK BY DEF IInv, TypeOK
    <2>2. nextId' \in Nat /\ nextId <= nextId' BY <2>1
    <2> QED BY <2>1, <2>2, OwnersKept
<1> QED BY <1>1, <1>2, <1>3, <1>4 DEF IInv

\* An empty slot is in order.
LEMMA EmptySlot ==
    ASSUME NEW n \in Node
    PROVE  SlotOK(NoSession, n)' /\ \A x : ~Owns(NoSession, x)
    BY DEF SlotOK, Owns

-----------------------------------------------------------------------------
(* The actions *)

LEMMA CreatePreserves ==
    ASSUME IInv, NEW n \in Node, NEW p \in PeerId,
           get_or_create_outbound(n, p) \/ create_inbound(n, p)
    PROVE  IInv'
<1>1. CASE get_or_create_outbound(n, p)
    BY <1>1, NewSessionType, NewSlot, PutOnly DEF get_or_create_outbound
<1>2. CASE create_inbound(n, p)
    BY <1>2, NewSessionType, NewSlot, PutOnly DEF create_inbound
<1> QED BY <1>1, <1>2

LEMMA RemovePreserves ==
    ASSUME IInv, NEW n \in Node, NEW p \in PeerId, remove_session(n, p)
    PROVE  IInv'
    BY EmptySlot, PutOnly DEF remove_session

LEMMA WritePreserves ==
    ASSUME IInv, NEW n \in Node, NEW p \in PeerId, create_handshake_message(n, p)
    PROVE  IInv'
<1> PICK s : s = sessions[n][p] OBVIOUS
<1> PICK id : id = nextId OBVIOUS
<1>1. s \in Session /\ s.state = "Handshaking" /\ SlotOK(s, n)
    BY SlotCases DEF create_handshake_message, IsSession, MayHandshake, IInv, TypeOK
<1> DEFINE hs == s.handshake
           w == Written(hs, id)
           m == [id |-> id, from |-> n, h |-> hs.h]
<1>2. hs \in NoiseHandshake /\ HandshakeOK(hs, n)
    BY <1>1, SlotCases DEF Session, SlotOK
<1>3. /\ CanWrite(hs) /\ net' = net \cup {m} /\ nextId' = id + 1
      /\ wire' = wire /\ Put(n, p, Advanced(s, w))
    BY DEF create_handshake_message
<1>4. TypeOK /\ NetOK /\ WireOK BY DEF IInv
<1> HIDE DEF hs
<1>5. /\ w \in NoiseHandshake
      /\ ~is_handshake_finished(w) => HandshakeOK(w, n)'
      /\ is_handshake_finished(w) => TransportOK(into_transport_mode(w), n, w.rs)'
      /\ \A x : Own(w.role, w.h, x) => x = id \/ Own(hs.role, hs.h, x)
    BY <1>2, <1>3, <1>4, WrittenOK
<1> HIDE DEF w
<1>6. /\ Advanced(s, w) \in Session /\ SlotOK(Advanced(s, w), n)'
      /\ \A x : Owns(Advanced(s, w), x) => Own(w.role, w.h, x)
    BY <1>1, <1>5, AdvancedOK
<1> PICK v : v = Advanced(s, w) OBVIOUS
<1>11. OwnersOK'
    <2>1. s.handshake # NoHandshake BY <1>1, SlotCases DEF SlotOK
    <2>2. \A x : Own(hs.role, hs.h, x) => Owns(s, x)
        BY <2>1, <1>1, SlotCases DEF Owns, hs
    <2>3. id \in Nat /\ nextId' \in Nat /\ nextId < nextId' /\ nextId <= nextId'
        BY <1>3, <1>4 DEF TypeOK
    <2>4. \A x \in Nat : Owns(v, x) =>
            Owns(sessions[n][p], x) \/ (x = nextId /\ nextId < nextId')
        BY <2>2, <2>3, <1>5, <1>6
    <2>5. Put(n, p, v) /\ v \in Session \cup {NoSession} BY <1>3, <1>6
    <2>6. TypeOK /\ OwnersOK BY DEF IInv
    <2> QED BY <2>3, <2>4, <2>5, <2>6, OwnersKept
<1>7. /\ sessions' \in [Node -> [PeerId -> Session \cup {NoSession}]]
      /\ WireOK'
      /\ (\A q \in Node, r \in PeerId : SlotOK(sessions[q][r], q))'
    <2>1. Put(n, p, v) /\ v \in Session \cup {NoSession} /\ SlotOK(v, n)'
        BY <1>3, <1>6
    <2> QED BY <2>1, <1>3, PutKeeps
<1>8. m \in Message /\ id \in Nat /\ hs.h \in Transcript
    BY <1>2, <1>4 DEF Message, NoiseHandshake, TypeOK
<1>9. TypeOK' BY <1>3, <1>4, <1>7, <1>8 DEF TypeOK
<1>10. NetOK'
    <2>1. \A i, a, h : Wrote(i, a, h) => Wrote(i, a, h)'
        BY <1>3 DEF Wrote
    <2>2. Len(hs.h) = 2 => Wrote(hs.h[1], n, << >>)'
        <3> HAVE Len(hs.h) = 2
        <3>1. 2 % 2 = 0 OBVIOUS
        <3>2. hs.role = "initiator" BY <3>1, <1>3 DEF CanWrite, MyTurn
        <3>3. Wrote(hs.h[1], n, << >>)
            BY <3>2, <1>2 DEF HandshakeOK
        <3> QED BY <3>3, <2>1
    <2>3. \A x \in net : x.id \in Nat /\ x.id < id BY <1>4 DEF NetOK, TypeOK, Message
    <2>4. m.id = id /\ m.from = n /\ m.h = hs.h OBVIOUS
    <2> HIDE DEF m
    <2>5. \A x \in net' : x.id < nextId' BY <2>3, <2>4, <1>3, <1>8
    <2>6. \A x, y \in net' : x.id = y.id => x = y
        BY <2>3, <2>4, <1>3, <1>4, <1>8 DEF NetOK
    <2>7. \A x \in net' : Len(x.h) = 2 => Wrote(x.h[1], x.from, << >>)'
        BY <2>1, <2>2, <2>4, <1>3, <1>4 DEF NetOK
    <2> QED BY <2>5, <2>6, <2>7 DEF NetOK
<1> QED BY <1>7, <1>9, <1>10, <1>11 DEF IInv

LEMMA ReadPreserves ==
    ASSUME IInv, NEW n \in Node, NEW p \in PeerId, NEW m \in net,
           process_handshake_message(n, p, m)
    PROVE  IInv'
<1> PICK s : s = sessions[n][p] OBVIOUS
<1>1. s \in Session /\ s.state = "Handshaking" /\ SlotOK(s, n)
    BY SlotCases DEF process_handshake_message, IsSession, MayHandshake, IInv, TypeOK
<1> DEFINE hs == s.handshake
           w == Read(hs, m)
<1>2. hs \in NoiseHandshake /\ HandshakeOK(hs, n)
    BY <1>1, SlotCases DEF Session, SlotOK
<1>3. /\ CanRead(hs, m)
      /\ net' = net /\ wire' = wire /\ nextId' = nextId
      /\ Put(n, p, Advanced(s, w))
    BY DEF process_handshake_message
<1>4. TypeOK /\ NetOK BY DEF IInv
<1> HIDE DEF hs
<1>5. /\ w \in NoiseHandshake
      /\ ~is_handshake_finished(w) => HandshakeOK(w, n)'
      /\ is_handshake_finished(w) => TransportOK(into_transport_mode(w), n, w.rs)'
      /\ \A x : Own(w.role, w.h, x) => Own(hs.role, hs.h, x)
    BY <1>2, <1>3, <1>4, ReadOK
<1> HIDE DEF w
<1>6. /\ Advanced(s, w) \in Session /\ SlotOK(Advanced(s, w), n)'
      /\ \A x : Owns(Advanced(s, w), x) => Own(w.role, w.h, x)
    BY <1>1, <1>5, AdvancedOK
<1> PICK v : v = Advanced(s, w) OBVIOUS
<1>7. Put(n, p, v) /\ v \in Session \cup {NoSession} /\ SlotOK(v, n)'
    BY <1>3, <1>6
<1>8. s.handshake # NoHandshake BY <1>1, SlotCases DEF SlotOK
<1>9. \A x : Own(hs.role, hs.h, x) => Owns(s, x)
    BY <1>8, <1>1, SlotCases DEF Owns, hs
<1>10. \A x : Owns(v, x) => Owns(sessions[n][p], x) BY <1>5, <1>6, <1>9
<1> QED BY <1>3, <1>7, <1>10, PutOnly

\* A session with a transport, taken apart.
LEMMA EstablishedSlot ==
    ASSUME NEW n \in Node,
           NEW s \in Session, s.state = "Established", SlotOK(s, n)
    PROVE  /\ s.transport \in NoiseTransport /\ s.transport # NoTransport
           /\ s.handshake = NoHandshake
           /\ TransportOK(s.transport, n, s.fingerprint)
           /\ s.transport.sendN \in Nat /\ s.transport.recvN \in Nat
           /\ s.count \in Nat /\ s.idle \in Nat
           /\ s.transport.sendN + s.transport.recvN <= s.count
<1>1. s # NoSession BY SlotCases
<1>2. s.transport \in NoiseTransport BY <1>1 DEF SlotOK, Session
<1> QED BY <1>1, <1>2 DEF SlotOK, Session, NoiseTransport

\* A session in order stays in order with its transport's counters moved on.
LEMMA CountedSlot ==
    ASSUME NEW n \in Node,
           NEW s \in Session, s.state = "Established", SlotOK(s, n),
           NEW t \in NoiseTransport, TransportOK(t, n, s.fingerprint)',
           t.key = s.transport.key, t.role = s.transport.role,
           t.sendN + t.recvN <= s.count + 1,
           NEW v, v = [s EXCEPT !.transport = t, !.count = @ + 1, !.idle = 0]
    PROVE  v \in Session /\ SlotOK(v, n)' /\ \A x : Owns(v, x) => Owns(s, x)
<1>1. /\ s.handshake = NoHandshake /\ s.count \in Nat
      /\ s.fingerprint \in Fingerprint /\ s.transport # NoTransport
    BY EstablishedSlot DEF Session
<1>2. v = [state |-> "Established", handshake |-> NoHandshake, transport |-> t,
           fingerprint |-> s.fingerprint, count |-> s.count + 1, idle |-> 0]
    BY <1>1 DEF Session
<1>3. v \in Session BY <1>1, <1>2 DEF Session, SessionState
<1>4. t # NoTransport BY NoneDistinct
<1>5. SlotOK(v, n)' BY <1>1, <1>2, <1>4 DEF SlotOK
<1>6. \A x : Owns(v, x) => Owns(s, x) BY <1>1, <1>2, SlotCases DEF Owns
<1> QED BY <1>3, <1>5, <1>6

LEMMA EncryptPreserves ==
    ASSUME IInv, NEW n \in Node, NEW p \in PeerId, encrypt(n, p)
    PROVE  IInv'
<1> PICK s : s = sessions[n][p] OBVIOUS
<1>1. s \in Session /\ s.state = "Established" /\ SlotOK(s, n)
    BY SlotCases DEF encrypt, IsSession, IInv, TypeOK
<1> PICK t : t = s.transport OBVIOUS
<1> DEFINE u == [t EXCEPT !.sendN = @ + 1]
           v == [s EXCEPT !.transport = u, !.count = @ + 1, !.idle = 0]
           c == [key |-> t.key, role |-> t.role, n |-> t.sendN, from |-> n]
<1>2. /\ wire' = wire \cup {c} /\ net' = net /\ nextId' = nextId
      /\ Put(n, p, v)
    BY DEF encrypt
<1> PICK f : f = s.fingerprint OBVIOUS
<1>3. /\ t \in NoiseTransport /\ t # NoTransport /\ s.handshake = NoHandshake
      /\ TransportOK(t, n, f)
      /\ t.sendN \in Nat /\ t.recvN \in Nat /\ s.count \in Nat
      /\ t.sendN + t.recvN <= s.count
    BY <1>1, EstablishedSlot
<1>4. /\ u \in NoiseTransport /\ u.key = t.key /\ u.role = t.role
      /\ u.sendN = t.sendN + 1 /\ u.recvN = t.recvN
    BY <1>3 DEF NoiseTransport
<1>5. /\ c \in Ciphertext /\ c.key = t.key /\ c.role = t.role
      /\ c.n = t.sendN /\ c.from = n
    BY <1>3 DEF Ciphertext, NoiseTransport
<1>6. wire \subseteq Ciphertext /\ NetOK /\ WireOK /\ TypeOK BY DEF IInv, TypeOK
<1> PICK vv : vv = v OBVIOUS
<1> HIDE DEF c, u
<1>7. \A i, a, h : Wrote(i, a, h)' <=> Wrote(i, a, h)
    BY <1>2 DEF Wrote
<1>8. \A x, a, b : KeyOK(x, a, b)' <=> KeyOK(x, a, b)
    BY <1>7 DEF KeyOK, InitiatorOf, ResponderOf
<1>8a. PICK o \in Node : f = FingerprintOf(o) /\ KeyOK(t, n, o) /\ NoncesOK(t, o)
    BY <1>3 DEF TransportOK
<1> PICK uu : uu = u OBVIOUS
<1>9. SlotOK(vv, n)' /\ vv \in Session /\ \A x : Owns(vv, x) => Owns(s, x)
    <2>1. KeyOK(uu, n, o)'
        <3>1. KeyOK(uu, n, o)
            BY <1>4, <1>8a DEF KeyOK, InitiatorOf, ResponderOf
        <3> QED BY <3>1, <1>8
    <2>2. NoncesOK(uu, o)'
        <3>1. \A d \in wire' :
                (d.key = uu.key /\ d.role = uu.role) => d.n < uu.sendN
            BY <1>2, <1>3, <1>4, <1>5, <1>6, <1>8a DEF NoncesOK, Ciphertext
        <3>2. \A i \in 0..(uu.recvN - 1) :
                \E d \in wire' : /\ d.key = uu.key /\ d.role # uu.role
                                 /\ d.n = i /\ d.from = o
            BY <1>2, <1>4, <1>8a DEF NoncesOK
        <3> QED BY <3>1, <3>2 DEF NoncesOK
    <2>3. uu.sendN + uu.recvN <= s.count + 1 BY <1>3, <1>4
    <2>4. TransportOK(uu, n, s.fingerprint)' BY <2>1, <2>2, <1>8a DEF TransportOK
    <2>5. /\ uu \in NoiseTransport /\ uu.key = s.transport.key /\ uu.role = s.transport.role
          /\ vv = [s EXCEPT !.transport = uu, !.count = @ + 1, !.idle = 0]
        BY <1>4
    <2> QED BY <2>3, <2>4, <2>5, <1>1, CountedSlot
<1>10. /\ sessions' \in [Node -> [PeerId -> Session \cup {NoSession}]]
       /\ sessions'[n][p] = vv
       /\ \A q \in Node, r \in PeerId :
            <<q, r>> # <<n, p>> => sessions'[q][r] = sessions[q][r]
    BY <1>2, <1>6, <1>9, PutSlot
<1>11. ASSUME NEW q \in Node, NEW r \in PeerId, <<q, r>> # <<n, p>>
       PROVE  SlotOK(sessions[q][r], q)'
    <2> PICK w : w = sessions[q][r] OBVIOUS
    <2>1. SlotOK(w, q) /\ w \in Session \cup {NoSession} BY DEF IInv, TypeOK
    <2>2. w # NoSession => w \in Session BY <2>1, SlotCases
    <2>3. \A x \in Nat : ~(Owns(s, x) /\ Owns(w, x))
        BY <1>11 DEF IInv, OwnersOK
    <2>4. \A x \in Nat : Own(t.role, t.key, x) => Owns(s, x)
        BY <1>1, <1>3, SlotCases DEF Owns
    <2>5. ASSUME w # NoSession, w.handshake # NoHandshake
          PROVE  HandshakeOK(w.handshake, q)'
        <3> PICK hs : hs = w.handshake OBVIOUS
        <3>1. HandshakeOK(hs, q) BY <2>1, <2>5 DEF SlotOK
        <3>2. hs.h \in Transcript BY <2>2, <2>5 DEF Session, NoiseHandshake
        <3>3. \A x : Own(hs.role, hs.h, x) => Owns(w, x) BY <2>5 DEF Owns
        <3>4. ASSUME hs.role = "responder", Len(hs.h) >= 2, c.role = "responder"
              PROVE  c.key[2] # hs.h[2]
            <4>1. Len(t.key) = 3 /\ t.key \in Transcript
                BY <1>3, <1>8a DEF KeyOK, NoiseTransport
            <4> PICK h : h = hs.h OBVIOUS
            <4>2. h[2] \in Nat
                <5>1. h \in Seq(Nat) /\ Len(h) >= 2 BY <3>2, <3>4 DEF Transcript
                <5>2. Len(h) \in Nat BY <5>1
                <5>3. 2 \in 1..Len(h) BY <5>1, <5>2
                <5> QED BY <5>1, <5>3
            <4>5. Own(hs.role, hs.h, hs.h[2]) BY <3>4 DEF Own
            <4>3. Own(t.role, t.key, t.key[2]) BY <4>1, <3>4, <1>5 DEF Own
            <4> QED BY <4>2, <4>5, <4>3, <2>3, <2>4, <3>3, <1>5
        <3>5. (hs.role = "responder" /\ Len(hs.h) >= 2) =>
                \A d \in wire' : d.role = "responder" => d.key[2] # hs.h[2]
            BY <3>1, <3>4, <1>2 DEF HandshakeOK
        <3>6. HandshakeOK(hs, q)' BY <3>1, <3>5, <1>7 DEF HandshakeOK
        <3> QED BY <3>6 DEF HandshakeOK
    <2>6. ASSUME w # NoSession, w.transport # NoTransport
          PROVE  TransportOK(w.transport, q, w.fingerprint)'
        <3> PICK x : x = w.transport OBVIOUS
        <3>1. PICK e \in Node : /\ w.fingerprint = FingerprintOf(e)
                                /\ KeyOK(x, q, e) /\ NoncesOK(x, e)
            BY <2>1, <2>6 DEF SlotOK, TransportOK
        <3>2. x \in NoiseTransport BY <2>2, <2>6 DEF Session
        <3>3. \A y : Own(x.role, x.key, y) => Owns(w, y) BY <2>6 DEF Owns
        <3>4. ~(c.key = x.key /\ c.role = x.role)
            <4> SUFFICES ASSUME t.key = x.key, t.role = x.role PROVE FALSE
                BY <1>5
            <4>1. Len(t.key) = 3 /\ t.key \in Transcript /\ t.role \in Role
                BY <1>3, <1>8a DEF KeyOK, NoiseTransport
            <4>2. t.key[1] \in Nat /\ t.key[2] \in Nat BY <4>1 DEF Transcript
            <4>3. \E y \in Nat : Own(t.role, t.key, y)
                BY <4>1, <4>2 DEF Own, Role
            <4> QED BY <4>3, <2>3, <2>4, <3>3
        <3>5. NoncesOK(x, e)' BY <3>1, <3>4, <1>2 DEF NoncesOK
        <3>6. KeyOK(x, q, e)' BY <3>1, <1>8
        <3> QED BY <3>1, <3>5, <3>6 DEF TransportOK
    <2>7. SlotOK(w, q)' BY <2>1, <2>5, <2>6 DEF SlotOK
    <2> QED BY <2>7, <1>10, <1>11
<1>12. (\A q \in Node, r \in PeerId : SlotOK(sessions[q][r], q))'
    <2> SUFFICES ASSUME NEW q \in Node, NEW r \in PeerId
                 PROVE  SlotOK(sessions[q][r], q)'
        OBVIOUS
    <2>1. CASE <<q, r>> = <<n, p>>
        <3>1. q = n /\ r = p BY <2>1
        <3> QED BY <3>1, <1>9, <1>10
    <2>2. CASE <<q, r>> # <<n, p>> BY <2>2, <1>11
    <2> QED BY <2>1, <2>2
<1>13. WireOK'
    <2>1. KeyOK([key |-> c.key, role |-> c.role], c.from, o)
        BY <1>5, <1>8a DEF KeyOK, InitiatorOf, ResponderOf
    <2> QED BY <2>1, <1>2, <1>6, <1>8 DEF WireOK
<1>14. TypeOK' BY <1>2, <1>5, <1>6, <1>10 DEF TypeOK
<1>15. NetOK' BY <1>2, <1>6 DEF NetOK, Wrote
<1>16. OwnersOK'
    <2>1. nextId' \in Nat /\ nextId <= nextId' BY <1>2, <1>6 DEF TypeOK
    <2>2. Put(n, p, vv) /\ vv \in Session \cup {NoSession} BY <1>2, <1>9
    <2>3. \A x \in Nat : Owns(vv, x) =>
            Owns(sessions[n][p], x) \/ (x = nextId /\ nextId < nextId')
        BY <1>9
    <2> QED BY <2>1, <2>2, <2>3, OwnersKept DEF IInv
<1> QED BY <1>12, <1>13, <1>14, <1>15, <1>16 DEF IInv

\* A message has one author.
LEMMA OneAuthor ==
    ASSUME NetOK, NEW i, NEW a, NEW b, NEW h, NEW g, Wrote(i, a, h), Wrote(i, b, g)
    PROVE  a = b
<1>1. [id |-> i, from |-> a, h |-> h] = [id |-> i, from |-> b, h |-> g]
    BY DEF NetOK, Wrote
<1>2. [id |-> i, from |-> a, h |-> h].from = [id |-> i, from |-> b, h |-> g].from
    BY <1>1
<1> QED BY <1>2

LEMMA DecryptPreserves ==
    ASSUME IInv, NEW n \in Node, NEW p \in PeerId, NEW c \in wire,
           decrypt(n, p, c)
    PROVE  IInv'
<1> PICK s : s = sessions[n][p] OBVIOUS
<1>1. s \in Session /\ s.state = "Established" /\ SlotOK(s, n)
    BY SlotCases DEF decrypt, IsSession, IInv, TypeOK
<1> PICK t : t = s.transport OBVIOUS
<1> DEFINE u == [t EXCEPT !.recvN = IF Decrypts(t, c) THEN @ + 1 ELSE @]
           v == [s EXCEPT !.transport = u, !.count = @ + 1, !.idle = 0]
<1>2. UNCHANGED <<net, wire, nextId>> /\ Put(n, p, v)
    BY DEF decrypt
<1> PICK f : f = s.fingerprint OBVIOUS
<1>3. /\ t \in NoiseTransport
      /\ TransportOK(t, n, f)
      /\ t.sendN \in Nat /\ t.recvN \in Nat /\ s.count \in Nat
      /\ t.sendN + t.recvN <= s.count
    BY <1>1, EstablishedSlot
<1>4. /\ u \in NoiseTransport /\ u.key = t.key /\ u.role = t.role
      /\ u.sendN = t.sendN
      /\ u.recvN = IF Decrypts(t, c) THEN t.recvN + 1 ELSE t.recvN
    BY <1>3 DEF NoiseTransport
<1> PICK vv : vv = v OBVIOUS
<1> HIDE DEF u
<1> PICK uu : uu = u OBVIOUS
<1>4a. PICK o \in Node : f = FingerprintOf(o) /\ KeyOK(t, n, o) /\ NoncesOK(t, o)
    BY <1>3 DEF TransportOK
<1>4b. Decrypts(t, c) => c.from = o
    <2> SUFFICES ASSUME Decrypts(t, c) PROVE c.from = o OBVIOUS
    <2>1. c.key = t.key /\ c.role # t.role /\ c.role \in Role /\ t.role \in Role
        BY <1>3 DEF Decrypts, IInv, TypeOK, Ciphertext, NoiseTransport
    <2>2. PICK e : KeyOK([key |-> c.key, role |-> c.role], c.from, e)
        BY DEF IInv, WireOK
    <2>3. CASE c.role = "initiator"
        <3>1. Wrote(t.key[1], c.from, << >>) /\ Wrote(t.key[1], o, << >>)
            BY <2>1, <2>2, <2>3, <1>4a DEF KeyOK, InitiatorOf, ResponderOf, Role
        <3> QED BY <3>1, OneAuthor DEF IInv
    <2>4. CASE c.role = "responder"
        <3>1. Wrote(t.key[2], c.from, <<t.key[1]>>) /\ Wrote(t.key[2], o, <<t.key[1]>>)
            BY <2>1, <2>2, <2>4, <1>4a DEF KeyOK, InitiatorOf, ResponderOf, Role
        <3> QED BY <3>1, OneAuthor DEF IInv
    <2> QED BY <2>1, <2>3, <2>4 DEF Role
<1>5. SlotOK(vv, n)' /\ vv \in Session /\ \A x : Owns(vv, x) => Owns(s, x)
    <2>1. KeyOK(uu, n, o)'
        BY <1>2, <1>4, <1>4a DEF KeyOK, InitiatorOf, ResponderOf, Wrote
    <2>2. NoncesOK(uu, o)'
        <3>1. \A d \in wire :
                (d.key = uu.key /\ d.role = uu.role) => d.n < uu.sendN
            BY <1>4, <1>4a DEF NoncesOK
        <3>2. ASSUME NEW i \in 0..(uu.recvN - 1)
              PROVE  \E d \in wire : /\ d.key = uu.key /\ d.role # uu.role
                                     /\ d.n = i /\ d.from = o
            <4>1. i \in 0..(t.recvN - 1) \/ (i = t.recvN /\ Decrypts(t, c))
                BY <1>3, <1>4
            <4>2. CASE i \in 0..(t.recvN - 1)
                BY <4>2, <1>4, <1>4a DEF NoncesOK
            <4>3. CASE i = t.recvN /\ Decrypts(t, c)
                BY <4>3, <1>4, <1>4b DEF Decrypts
            <4> QED BY <4>1, <4>2, <4>3
        <3> QED BY <3>1, <3>2, <1>2 DEF NoncesOK
    <2>3. uu.sendN + uu.recvN <= s.count + 1 BY <1>3, <1>4
    <2>4. TransportOK(uu, n, s.fingerprint)' BY <2>1, <2>2, <1>4a DEF TransportOK
    <2>5. /\ uu \in NoiseTransport /\ uu.key = s.transport.key /\ uu.role = s.transport.role
          /\ vv = [s EXCEPT !.transport = uu, !.count = @ + 1, !.idle = 0]
        BY <1>4
    <2> QED BY <2>3, <2>4, <2>5, <1>1, CountedSlot
<1> QED BY <1>2, <1>5, PutOnly

LEMMA RekeyPreserves ==
    ASSUME IInv, NEW n \in Node, NEW p \in PeerId, start_rekey(n, p)
    PROVE  IInv'
<1> PICK s : s = sessions[n][p] OBVIOUS
<1>1. s \in Session BY SlotCases DEF start_rekey, IsSession, IInv, TypeOK
<1>0. PICK v : v = [s EXCEPT !.state = "Rekeying", !.handshake = Initiator,
                           !.transport = NoTransport, !.count = 0, !.idle = 0]
    OBVIOUS
<1>2. v = [state |-> "Rekeying", handshake |-> Initiator,
           transport |-> NoTransport, fingerprint |-> s.fingerprint,
           count |-> 0, idle |-> 0]
    BY <1>0, <1>1 DEF Session
<1>2a. s.fingerprint \in Fingerprint /\ Initiator \in NoiseHandshake
    BY <1>1, NewSessionType DEF Session
<1>3. v \in Session BY <1>2, <1>2a DEF Session, SessionState
<1>4. Initiator # NoHandshake /\ Len(Initiator.h) = 0 /\ Initiator.role = "initiator"
    BY NewSessionType, NoneDistinct DEF Initiator
<1>5. HandshakeOK(Initiator, n)' BY <1>4 DEF HandshakeOK
<1>6. SlotOK(v, n)' BY <1>2, <1>4, <1>5 DEF SlotOK
<1>7. Put(n, p, v) /\ UNCHANGED <<net, wire, nextId>> BY <1>0 DEF start_rekey
<1>8. \A x : ~Owns(v, x) BY <1>2, <1>4 DEF Owns, Own
<1> QED BY <1>3, <1>6, <1>7, <1>8, PutOnly

LEMMA FailPreserves ==
    ASSUME IInv, NEW n \in Node, NEW p \in PeerId, mark_failed(n, p)
    PROVE  IInv'
<1> PICK s : s = sessions[n][p] OBVIOUS
<1>1. s \in Session BY SlotCases DEF mark_failed, IsSession, IInv, TypeOK
<1> PICK v : v = [s EXCEPT !.state = "Failed", !.handshake = NoHandshake,
                           !.transport = NoTransport]
    OBVIOUS
<1>2. v = [state |-> "Failed", handshake |-> NoHandshake,
           transport |-> NoTransport, fingerprint |-> s.fingerprint,
           count |-> s.count, idle |-> s.idle]
    BY <1>1 DEF Session
<1>3. v \in Session BY <1>1, <1>2 DEF Session, SessionState
<1>4. SlotOK(v, n)' BY <1>2 DEF SlotOK
<1>5. Put(n, p, v) /\ UNCHANGED <<net, wire, nextId>> BY DEF mark_failed
<1>6. \A x : ~Owns(v, x) BY <1>2 DEF Owns
<1> QED BY <1>3, <1>4, <1>5, <1>6, PutOnly

\* Steps that rewrite many slots at once, each to one in order.
LEMMA AllSlots ==
    ASSUME IInv, UNCHANGED <<net, wire, nextId>>,
           sessions' \in [Node -> [PeerId -> Session \cup {NoSession}]],
           \A q \in Node, r \in PeerId :
               /\ SlotOK(sessions'[q][r], q)
               /\ \A x \in Nat : Owns(sessions'[q][r], x) => Owns(sessions[q][r], x)
    PROVE  IInv'
<1>1. TypeOK' BY DEF TypeOK, IInv
<1>2. NetOK' BY DEF NetOK, IInv, Wrote
<1>3. WireOK' BY DEF WireOK, IInv, KeyOK, InitiatorOf, ResponderOf, Wrote
<1>4. ASSUME NEW q \in Node, NEW r \in PeerId
      PROVE  SlotOK(sessions[q][r], q)'
    <2> PICK v : v = sessions'[q][r] OBVIOUS
    <2>1. SlotOK(v, q) OBVIOUS
    <2>2. SlotOK(v, q)' BY <2>1, SlotKept
    <2> QED BY <2>2
<1>5. OwnersOK' BY DEF IInv, OwnersOK
<1> QED BY <1>1, <1>2, <1>3, <1>4, <1>5 DEF IInv

LEMMA CleanupPreserves ==
    ASSUME IInv, NEW n \in Node, cleanup_expired(n)
    PROVE  IInv'
<1> DEFINE S == Session \cup {NoSession}
           f == [p \in PeerId |-> IF Expired(sessions[n][p]) THEN NoSession
                                ELSE sessions[n][p]]
<1>1. sessions \in [Node -> [PeerId -> S]] BY DEF IInv, TypeOK
<1>2. sessions' = [sessions EXCEPT ![n] = f] /\ UNCHANGED <<net, wire, nextId>>
    BY <1>1 DEF cleanup_expired
<1>3. NoSession \in S OBVIOUS
<1> HIDE DEF S
<1>4. f \in [PeerId -> S] BY <1>1, <1>3
<1>5. sessions' \in [Node -> [PeerId -> S]] BY <1>1, <1>2, <1>4
<1>6. \A q \in Node, r \in PeerId : \/ sessions'[q][r] = sessions[q][r]
                         \/ sessions'[q][r] = NoSession
    BY <1>1, <1>2
<1>7. \A q \in Node, r \in PeerId :
        /\ SlotOK(sessions'[q][r], q)
        /\ \A x \in Nat : Owns(sessions'[q][r], x) => Owns(sessions[q][r], x)
    BY <1>6 DEF IInv, SlotOK, Owns
<1> QED BY <1>2, <1>5, <1>7, AllSlots DEF S

LEMMA TickPreserves ==
    ASSUME IInv, Tick
    PROVE  IInv'
<1>1. ASSUME NEW q \in Node, NEW r \in PeerId
      PROVE  /\ sessions'[q][r] \in Session \cup {NoSession}
             /\ SlotOK(sessions'[q][r], q)
             /\ \A x \in Nat : Owns(sessions'[q][r], x) => Owns(sessions[q][r], x)
    <2> PICK s : s = sessions[q][r] OBVIOUS
    <2>1. s \in Session \cup {NoSession} /\ SlotOK(s, q) BY DEF IInv, TypeOK
    <2>2. sessions'[q][r] = IF s = NoSession \/ s.idle >= MaxIdle THEN s
                            ELSE [s EXCEPT !.idle = @ + 1]
        BY DEF Tick
    <2>3. CASE s = NoSession \/ s.idle >= MaxIdle BY <2>1, <2>2, <2>3
    <2>4. CASE ~(s = NoSession \/ s.idle >= MaxIdle)
        <3> PICK v : v = [s EXCEPT !.idle = @ + 1] OBVIOUS
        <3>1. s \in Session BY <2>1, <2>4
        <3>2. v = [state |-> s.state, handshake |-> s.handshake,
                   transport |-> s.transport, fingerprint |-> s.fingerprint,
                   count |-> s.count, idle |-> s.idle + 1]
            BY <3>1 DEF Session
        <3>3. v \in Session BY <3>1, <3>2 DEF Session
        <3>4. SlotOK(v, q) BY <3>2, <2>1, <2>4 DEF SlotOK
        <3>5. \A x \in Nat : Owns(v, x) => Owns(s, x) BY <3>2, <2>4 DEF Owns
        <3> QED BY <3>3, <3>4, <3>5, <2>2, <2>4
    <2> QED BY <2>3, <2>4
<1>2. sessions' \in [Node -> [PeerId -> Session \cup {NoSession}]]
    BY <1>1 DEF Tick
<1>3. UNCHANGED <<net, wire, nextId>> BY DEF Tick
<1> QED BY <1>1, <1>2, <1>3, AllSlots

-----------------------------------------------------------------------------
(* The theorems *)

LEMMA InitIInv == Init => IInv
<1> SUFFICES ASSUME Init PROVE IInv OBVIOUS
<1>1. \A n \in Node, p \in PeerId : sessions[n][p] = NoSession BY DEF Init
<1>2. \A n \in Node, p \in PeerId : SlotOK(sessions[n][p], n) BY <1>1 DEF SlotOK
<1>3. TypeOK BY DEF Init, TypeOK
<1>4. OwnersOK BY <1>1 DEF OwnersOK, Owns
<1> QED BY <1>2, <1>3, <1>4 DEF Init, IInv, NetOK, WireOK

LEMMA NextIInv == IInv /\ [Next]_vars => IInv'
<1> SUFFICES ASSUME IInv, [Next]_vars PROVE IInv' OBVIOUS
<1>1. CASE Tick BY <1>1, TickPreserves
<1>2. ASSUME NEW n \in Node, cleanup_expired(n) PROVE IInv'
    BY <1>2, CleanupPreserves
<1>3. ASSUME NEW n \in Node, NEW p \in PeerId,
             \/ get_or_create_outbound(n, p) \/ create_inbound(n, p)
             \/ remove_session(n, p) \/ create_handshake_message(n, p)
             \/ \E m \in net : process_handshake_message(n, p, m)
             \/ encrypt(n, p) \/ \E c \in wire : decrypt(n, p, c)
             \/ start_rekey(n, p) \/ mark_failed(n, p)
      PROVE  IInv'
    BY <1>3, CreatePreserves, RemovePreserves, WritePreserves, ReadPreserves,
       EncryptPreserves, DecryptPreserves, RekeyPreserves, FailPreserves
<1>4. CASE UNCHANGED vars
    <2>1. UNCHANGED <<net, wire, nextId>> /\ sessions' = sessions
        BY <1>4 DEF vars
    <2>2. \A q \in Node, r \in PeerId : SlotOK(sessions'[q][r], q) BY <2>1 DEF IInv
    <2> QED BY <2>1, <2>2, AllSlots DEF IInv, TypeOK
<1> QED BY <1>1, <1>2, <1>3, <1>4 DEF Next

\* The inductive invariant holds in every reachable state of the sessions.
THEOREM Invariance == Spec => []IInv
    BY InitIInv, NextIInv, PTL DEF Spec

\* Type correctness of session.rs and managers/session.rs, for any set of
\* nodes and any bound on messages.
THEOREM TypeCorrect == Spec => []TypeOK
<1>1. IInv => TypeOK BY DEF IInv
<1> QED BY <1>1, Invariance, PTL

\* In every reachable state a NoiseSession's state tells which cipher state it
\* holds; see SessionShape.
THEOREM ShapeCorrect == Spec => []SessionShape
<1>1. IInv => SessionShape
    <2> SUFFICES ASSUME IInv, NEW n \in Node, NEW p \in PeerId, IsSession(n, p)
                 PROVE  LET s == sessions[n][p] IN
                    /\ s.state \in {"Handshaking", "Rekeying"} <=> s.handshake # NoHandshake
                    /\ s.state = "Established" <=> s.transport # NoTransport
                    /\ s.handshake # NoHandshake => ~is_handshake_finished(s.handshake)
                    /\ s.transport # NoTransport => Len(s.transport.key) = XXMessages
                    /\ ~ CanCompleteRekey(s)
        BY DEF SessionShape
    <2> PICK s : s = sessions[n][p] OBVIOUS
    <2>1. SlotOK(s, n) /\ s # NoSession BY DEF IInv, IsSession
    <2>2. s \in Session BY <2>1, SlotCases DEF IInv, TypeOK
    <2>3. s.handshake # NoHandshake => ~is_handshake_finished(s.handshake)
        <3> HAVE s.handshake # NoHandshake
        <3>1. s.handshake.h \in Transcript BY <2>2 DEF Session, NoiseHandshake
        <3>2. Len(s.handshake.h) \in Nat BY <3>1, ShortTranscripts
        <3>3. Len(s.handshake.h) < 3 BY <2>1 DEF SlotOK, HandshakeOK
        <3> QED BY <3>2, <3>3 DEF is_handshake_finished, XXMessages
    <2>4. s.transport # NoTransport => Len(s.transport.key) = XXMessages
        BY <2>1 DEF SlotOK, TransportOK, KeyOK, XXMessages
    <2>5. ~ CanCompleteRekey(s) BY <2>3 DEF CanCompleteRekey
    <2> QED BY <2>1, <2>3, <2>4, <2>5 DEF SlotOK
<1> QED BY <1>1, Invariance, PTL

\* What the invariant says of an established session, with o its other end.
LEMMA EstablishedFacts ==
    ASSUME IInv, NEW n \in Node, NEW p \in PeerId, IsEstablished(n, p)
    PROVE  LET s == sessions[n][p] IN
           /\ s \in Session /\ s.transport # NoTransport
           /\ \E o \in Node : /\ s.fingerprint = FingerprintOf(o)
                              /\ KeyOK(s.transport, n, o) /\ NoncesOK(s.transport, o)
           /\ s.transport.key \in Transcript
           /\ s.transport.sendN \in Nat /\ s.transport.recvN \in Nat
           /\ s.count \in Nat /\ s.transport.role \in Role
           /\ s.transport.sendN + s.transport.recvN <= s.count
<1> PICK s : s = sessions[n][p] OBVIOUS
<1>1. SlotOK(s, n) /\ s # NoSession /\ s.state = "Established"
    BY DEF IInv, IsEstablished, IsSession
<1>2. s \in Session BY <1>1, SlotCases DEF IInv, TypeOK
<1>3. s.transport \in NoiseTransport BY <1>1, <1>2, EstablishedSlot
<1> QED BY <1>1, <1>2, <1>3, EstablishedSlot DEF NoiseTransport, TransportOK

\* The fingerprint of an established session is that of the author of the other
\* end's messages (process_handshake_message, create_handshake_message), though
\* any session may be handed any bytes and be filed under any peer id.
THEOREM Authentication == Spec => []PeerAuthenticated
<1>1. IInv => PeerAuthenticated
    <2> SUFFICES ASSUME IInv, NEW n \in Node, NEW p \in PeerId, IsEstablished(n, p)
                 PROVE  \E q \in Node : LET k == sessions[n][p].transport.key IN
                    /\ sessions[n][p].fingerprint = FingerprintOf(q)
                    /\ IF sessions[n][p].transport.role = "initiator"
                       THEN Wrote(k[2], q, <<k[1]>>)
                       ELSE Wrote(k[1], q, << >>) /\ Wrote(k[3], q, <<k[1], k[2]>>)
        BY DEF PeerAuthenticated
    <2> PICK t : t = sessions[n][p].transport OBVIOUS
    <2>1. PICK o \in Node : sessions[n][p].fingerprint = FingerprintOf(o) /\ KeyOK(t, n, o)
        BY EstablishedFacts
    <2>2. IF t.role = "initiator"
          THEN Wrote(t.key[2], o, <<t.key[1]>>)
          ELSE Wrote(t.key[1], o, << >>) /\ Wrote(t.key[3], o, <<t.key[1], t.key[2]>>)
        BY <2>1 DEF KeyOK, InitiatorOf, ResponderOf
    <2> QED BY <2>1, <2>2
<1> QED BY <1>1, Invariance, PTL

\* The two ends agree on the transcript behind an established key.
THEOREM TranscriptAgreement == Spec => []TranscriptAuthentic
<1>1. IInv => TranscriptAuthentic
    <2> SUFFICES ASSUME IInv, NEW n \in Node, NEW p \in PeerId, IsEstablished(n, p)
                 PROVE  \E q \in Node :
                    LET t == sessions[n][p].transport
                        k == t.key
                        i == IF t.role = "initiator" THEN n ELSE q
                        r == IF t.role = "initiator" THEN q ELSE n
                    IN  /\ Wrote(k[1], i, << >>)
                        /\ Wrote(k[2], r, <<k[1]>>)
                        /\ Wrote(k[3], i, <<k[1], k[2]>>)
        BY DEF TranscriptAuthentic
    <2>1. PICK o \in Node : KeyOK(sessions[n][p].transport, n, o)
        BY EstablishedFacts
    <2> QED BY <2>1 DEF KeyOK, InitiatorOf, ResponderOf
<1> QED BY <1>1, Invariance, PTL

\* A transport key is held in two sessions at most, by the two nodes that named
\* each other in its handshake.
THEOREM KeysExclusive == Spec => []KeyExclusive
<1>1. IInv => KeyExclusive
    <2> SUFFICES ASSUME IInv, NEW n \in Node, NEW q \in Node,
                        NEW p \in PeerId, NEW r \in PeerId, <<n, p>> # <<q, r>>,
                        IsEstablished(n, p),
                        Holds(q, r, sessions[n][p].transport.key)
                 PROVE  /\ sessions[n][p].transport.role # sessions[q][r].transport.role
                        /\ sessions[n][p].fingerprint = FingerprintOf(q)
                        /\ sessions[q][r].fingerprint = FingerprintOf(n)
        BY DEF KeyExclusive
    <2> PICK t : t = sessions[n][p].transport OBVIOUS
    <2> PICK u : u = sessions[q][r].transport OBVIOUS
    <2>0. IsEstablished(q, r) /\ u.key = t.key /\ NetOK BY DEF Holds, IInv
    <2>1. /\ t.role \in Role /\ u.role \in Role /\ t.key \in Transcript
          /\ t # NoTransport /\ u # NoTransport
        BY <2>0, EstablishedFacts
    <2>2. PICK o \in Node : sessions[n][p].fingerprint = FingerprintOf(o) /\ KeyOK(t, n, o)
        BY EstablishedFacts
    <2>3. PICK e \in Node : sessions[q][r].fingerprint = FingerprintOf(e) /\ KeyOK(u, q, e)
        BY <2>0, EstablishedFacts
    <2>4. Len(t.key) = 3 BY <2>2 DEF KeyOK
    <2>5. t.key[1] \in Nat /\ t.key[2] \in Nat BY <2>1, <2>4 DEF Transcript
    <2>6. \A x : Own(t.role, t.key, x) => Owns(sessions[n][p], x)
        BY <2>1 DEF Owns, IsEstablished, IsSession
    <2>7. \A x : Own(u.role, u.key, x) => Owns(sessions[q][r], x)
        BY <2>0, <2>1 DEF Owns, IsEstablished, IsSession
    <2>8. t.role # u.role
        <3> SUFFICES ASSUME t.role = u.role PROVE FALSE OBVIOUS
        <3>1. PICK y \in Nat : Own(t.role, t.key, y)
            BY <2>1, <2>4, <2>5 DEF Own, Role
        <3>2. Owns(sessions[n][p], y) /\ Owns(sessions[q][r], y)
            BY <3>1, <2>0, <2>6, <2>7
        <3>3. n = q /\ p = r BY <3>2 DEF IInv, OwnersOK
        <3> QED BY <3>3
    <2>9. o = q /\ e = n
        <3>1. CASE t.role = "initiator"
            <4>1. u.role = "responder" BY <3>1, <2>1, <2>8 DEF Role
            <4>2. /\ Wrote(t.key[1], n, << >>) /\ Wrote(t.key[2], o, <<t.key[1]>>)
                  /\ Wrote(t.key[1], e, << >>) /\ Wrote(t.key[2], q, <<t.key[1]>>)
                BY <3>1, <4>1, <2>0, <2>2, <2>3 DEF KeyOK, InitiatorOf, ResponderOf
            <4> QED BY <4>2, <2>0, OneAuthor
        <3>2. CASE t.role = "responder"
            <4>1. u.role = "initiator" BY <3>2, <2>1, <2>8 DEF Role
            <4>2. /\ Wrote(t.key[1], o, << >>) /\ Wrote(t.key[2], n, <<t.key[1]>>)
                  /\ Wrote(t.key[1], q, << >>) /\ Wrote(t.key[2], e, <<t.key[1]>>)
                BY <3>2, <4>1, <2>0, <2>2, <2>3 DEF KeyOK, InitiatorOf, ResponderOf
            <4> QED BY <4>2, <2>0, OneAuthor
        <3> QED BY <3>1, <3>2, <2>1 DEF Role
    <2> QED BY <2>2, <2>3, <2>8, <2>9
<1> QED BY <1>1, Invariance, PTL

\* encrypt never uses a nonce twice under one key and direction.
THEOREM NoncesNeverReused == Spec => []NonceFresh
<1>1. IInv => NonceFresh BY EstablishedFacts DEF NonceFresh, NoncesOK
<1> QED BY <1>1, Invariance, PTL

\* decrypt accepts only what the peer sent under the same key, once, in order.
THEOREM ReplayRejected == Spec => []DecryptedWasSent
<1>1. IInv => DecryptedWasSent
    <2> SUFFICES ASSUME IInv, NEW n \in Node, NEW p \in PeerId, IsEstablished(n, p),
                        NEW i \in 0..(sessions[n][p].transport.recvN - 1)
                 PROVE  LET s == sessions[n][p] IN \E c \in wire :
                    /\ c.key = s.transport.key /\ c.role # s.transport.role
                    /\ c.n = i /\ s.fingerprint = FingerprintOf(c.from)
        BY DEF DecryptedWasSent
    <2> PICK s : s = sessions[n][p] OBVIOUS
    <2>1. PICK o \in Node : s.fingerprint = FingerprintOf(o) /\ NoncesOK(s.transport, o)
        BY EstablishedFacts
    <2> QED BY <2>1 DEF NoncesOK
<1> QED BY <1>1, Invariance, PTL

\* needs_rekey reports every key that carried 90% of the threshold.
THEOREM RekeyReported == Spec => []RekeyTriggerReached
<1>1. IInv => RekeyTriggerReached
    <2> SUFFICES ASSUME IInv, NEW n \in Node, NEW p \in PeerId, IsEstablished(n, p),
                        sessions[n][p].transport.sendN + sessions[n][p].transport.recvN
                            >= (RekeyThreshold * 90) \div 100
                 PROVE  needs_rekey(sessions[n][p])
        BY DEF RekeyTriggerReached
    <2> PICK s : s = sessions[n][p] OBVIOUS
    <2> PICK lim : lim = (RekeyThreshold * 90) \div 100 OBVIOUS
    <2>1. lim \in Int BY ConstantsAssumption
    <2>2. /\ s.transport.sendN \in Nat /\ s.transport.recvN \in Nat
          /\ s.count \in Nat
          /\ s.transport.sendN + s.transport.recvN <= s.count
        BY EstablishedFacts
    <2>3. s.count >= lim BY <2>1, <2>2
    <2> QED BY <2>3 DEF needs_rekey, IsEstablished
<1> QED BY <1>1, Invariance, PTL

\* Sessions stay sound (session.rs): well typed, shaped as their state says, and
\* reported by needs_rekey in time.
THEOREM SessionsSound == Spec => []SessionSound
BY TypeCorrect, ShapeCorrect, RekeyReported, PTL DEF SessionSound

\* Fingerprints are authentic and both ends agree on the handshake, however many
\* nodes and sessions there are and whichever bytes reach which session.
THEOREM SessionsAuthenticated == Spec => []Authenticated
BY Authentication, TranscriptAgreement, PTL DEF Authenticated

\* Transport keys are safe: two holders, fresh nonces, no replay.
THEOREM KeysStaySafe == Spec => []KeysSafe
BY KeysExclusive, NoncesNeverReused, ReplayRejected, PTL DEF KeysSafe

=============================================================================
