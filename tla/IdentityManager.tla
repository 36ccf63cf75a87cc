---------------------------- MODULE IdentityManager ----------------------------
(***************************************************************************)
(* SecureIdentityStateManager (bitchat-core, identity/): the identities a  *)
(* node knows, kept in a cache and saved encrypted now and then. The only  *)
(* SecureStorage there is keeps its data in memory and belongs to the      *)
(* manager, so a crash, an exit or a restart loses everything; any of its  *)
(* operations may return an error.                                         *)
(*                                                                         *)
(* A cryptographic identity is the time of its last handshake. A social    *)
(* identity is a value in Note: which field a setter changes makes no      *)
(* difference to what is saved.                                            *)
(***************************************************************************)
EXTENDS Integers, FiniteSets

CONSTANTS
    IdFingerprint,
    Note,           \* what the user may write into a social identity
    SaveInterval,   \* CACHE_SAVE_INTERVAL_MS
    EphemeralAge,   \* MAX_EPHEMERAL_AGE_MS
    IdentityAge,    \* max_age_ms of cleanup_old_identities
    MaxIdTime       \* bound: the clock

\* Ages are unsigned, and a save interval is longer than nothing.
ASSUME IdentityAssumption ==
    /\ SaveInterval \in Nat \ {0} /\ EphemeralAge \in Nat /\ IdentityAge \in Nat /\ MaxIdTime \in Nat

VARIABLES
    cache,              \* IdentityCache
    stored,             \* the cache in the storage, NoCache when none
    cache_key,          \* whether there is a cache_encryption_key
    cache_dirty, last_cache_save,
    ephemeral,          \* peer (named by its fingerprint) -> EphemeralIdentity
    id_now,
    asked, last_change, \* ghosts: what an operation last asked to be saved, and when
    refused,            \* ghost: the last write to the storage failed
    admitted            \* ghost: fingerprints entered since the last panic

ghosts == <<asked, last_change, refused, admitted>>
idVars == <<cache, stored, cache_key, cache_dirty, last_cache_save, ephemeral, id_now, ghosts>>

Absent == "absent"
NoTime == -1
HandshakeState == {"None", "InProgress", "Completed", "Failed"}
NewCache == [crypto |-> [f \in IdFingerprint |-> NoTime], social |-> [f \in IdFingerprint |-> Absent], verified |-> {}]
NoCache == NewCache   \* an empty cache saved is as good as none
NoIdSession == [handshake_state |-> "Absent", session_start |-> NoTime]
EphemeralIdentity == [handshake_state |-> "None", session_start |-> id_now]
SocialIdentity == Note    \* names, trust and marks of a contact, told apart only by a note
Fingerprints(c) == {f \in IdFingerprint : c.crypto[f] # NoTime \/ c.social[f] # Absent} \cup c.verified

IdInit ==
    /\ cache = NewCache /\ stored = NoCache
    /\ cache_key = TRUE /\ cache_dirty = FALSE /\ last_cache_save = 0
    /\ ephemeral = [f \in IdFingerprint |-> NoIdSession]
    /\ asked = NewCache /\ last_change = 0 /\ refused = FALSE
    /\ id_now = 0 /\ admitted = {}

-----------------------------------------------------------------------------
\* SecureStorage: store and clear_all either succeed or change nothing.
store(c, ok) == stored' = (IF ok THEN c ELSE stored) /\ refused' = ~ok
clear_all(ok) == store(NoCache, ok)

\* save_cache_now: without a key nothing is saved, and that is not an error.
\* After an error the cache stays dirty and the next change tries again.
save_cache_now(c, due, ok) ==
    /\ IF cache_key /\ due THEN store(c, ok) ELSE UNCHANGED <<stored, refused>>
    /\ IF cache_key /\ due /\ ok THEN cache_dirty' = FALSE /\ last_cache_save' = id_now
       ELSE cache_dirty' = TRUE /\ last_cache_save' = last_cache_save

\* Mutant of save_cache_if_needed: a save waits for more than the interval.
BugSave(c, ok) == save_cache_now(c, id_now - last_cache_save > SaveInterval, ok)
\* mark_cache_dirty and save_cache_if_needed: soon after a save, nothing is saved.
save_cache_if_needed(c, ok) == save_cache_now(c, id_now - last_cache_save >= SaveInterval, ok)

\* The cache becomes c and is saved when it is time.
Modify(c) ==
    /\ cache' = c
    /\ \E ok \in BOOLEAN : save_cache_if_needed(c, ok)
    /\ asked' = c /\ last_change' = id_now
    /\ admitted' = admitted \cup Fingerprints(c)
    /\ UNCHANGED <<cache_key, id_now>>

upsert_cryptographic_identity(f) ==
    Modify([cache EXCEPT !.crypto[f] = id_now]) /\ UNCHANGED ephemeral

\* The caller gets a reference to the entry, made if need be, and may write to it
\* as it likes; only the making marks the cache dirty, and nothing asks for a save.
get_or_create_social_identity(f, n) ==
    /\ cache' = [cache EXCEPT !.social[f] = n]
    /\ cache_dirty' = (cache_dirty \/ cache.social[f] = Absent)
    /\ admitted' = admitted \cup Fingerprints(cache')
    /\ UNCHANGED <<stored, cache_key, last_cache_save, ephemeral, id_now, asked, last_change, refused>>

\* The setters of names, trust, favourite and blocked.
update_social_identity(f, n) ==
    Modify([cache EXCEPT !.social[f] = n]) /\ UNCHANGED ephemeral

set_verified(f, yes) ==
    Modify([cache EXCEPT !.verified = IF yes THEN @ \cup {f} ELSE @ \ {f}]) /\ UNCHANGED ephemeral

remove_identity(f) ==
    Modify([crypto |-> [cache.crypto EXCEPT ![f] = NoTime],
            social |-> [cache.social EXCEPT ![f] = Absent],
            verified |-> cache.verified \ {f}]) /\ UNCHANGED ephemeral

register_ephemeral_identity(f) ==
    /\ ephemeral' = [ephemeral EXCEPT ![f] = EphemeralIdentity]
    /\ UNCHANGED <<cache, stored, cache_key, cache_dirty, last_cache_save, id_now, ghosts>>

\* Only a completed handshake names a fingerprint, and only a known one is touched.
update_handshake_state(f, s) ==
    /\ ephemeral[f] # NoIdSession
    /\ ephemeral' = [ephemeral EXCEPT ![f].handshake_state = s]
    /\ IF s = "Completed" /\ cache.crypto[f] # NoTime
       THEN Modify([cache EXCEPT !.crypto[f] = id_now])
       ELSE UNCHANGED <<cache, stored, cache_key, cache_dirty, last_cache_save, id_now, ghosts>>

cleanup_ephemeral_sessions ==
    ephemeral' = [f \in IdFingerprint |->
        IF ephemeral[f].session_start >= id_now - EphemeralAge THEN ephemeral[f] ELSE NoIdSession]

\* Verified identities outlive their age.
Kept(f) == cache.crypto[f] # NoTime /\ (cache.crypto[f] >= id_now - IdentityAge \/ f \in cache.verified)

cleanup_old_identities ==
    /\ cleanup_ephemeral_sessions
    /\ Modify([crypto |-> [f \in IdFingerprint |-> IF Kept(f) THEN cache.crypto[f] ELSE NoTime],
               social |-> [f \in IdFingerprint |-> IF Kept(f) THEN cache.social[f] ELSE Absent],
               verified |-> {f \in cache.verified : Kept(f)}])

\* The key is gone from memory too: until a restart nothing is saved again. The
\* storage comes last, and may refuse when all the rest is cleared.
panic_clear_all_data(ok) ==
    /\ cache' = NewCache /\ cache_key' = FALSE /\ cache_dirty' = FALSE
    /\ ephemeral' = [f \in IdFingerprint |-> NoIdSession]
    /\ clear_all(ok)
    /\ admitted' = {}
    /\ UNCHANGED <<last_cache_save, id_now, asked, last_change>>

\* An exit or a crash, and with_storage over a new storage: a key is made and there
\* is no cache to load. What Drop saves is dropped with the storage.
Restart ==
    /\ cache' = NewCache /\ stored' = NoCache
    /\ cache_key' = TRUE /\ cache_dirty' = FALSE /\ last_cache_save' = id_now
    /\ ephemeral' = [f \in IdFingerprint |-> NoIdSession]
    /\ asked' = NewCache /\ last_change' = id_now /\ refused' = FALSE
    /\ UNCHANGED <<id_now, admitted>>

IdTick ==
    /\ id_now < MaxIdTime
    /\ id_now' = id_now + 1
    /\ UNCHANGED <<cache, stored, cache_key, cache_dirty, last_cache_save, ephemeral, ghosts>>

IdNext ==
    \/ \E f \in IdFingerprint :
           \/ upsert_cryptographic_identity(f) \/ remove_identity(f) \/ register_ephemeral_identity(f)
           \/ \E n \in SocialIdentity :
                  update_social_identity(f, n) \/ get_or_create_social_identity(f, n)
           \/ \E yes \in BOOLEAN : set_verified(f, yes)
           \/ \E s \in HandshakeState : update_handshake_state(f, s)
    \/ cleanup_old_identities
    \/ \E ok \in BOOLEAN : panic_clear_all_data(ok)
    \/ Restart
    \/ IdTick

IdSpec == IdInit /\ [][IdNext]_idVars

-----------------------------------------------------------------------------
(* Properties *)

\* The storage holds what was last to be saved, unless that was asked for within
\* SaveInterval of the last save or the storage refused it: a refused save is made
\* up for by the next change, whatever happened in between (save_cache_if_needed).
\* Without the key, after a panic, nothing is saved at all.
StorageLags ==
    cache_key /\ ~refused => stored = asked \/ last_change - last_cache_save < SaveInterval

\* Nothing known before panic_clear_all_data is in the cache after it, and no later
\* change or save brings it back; nor is it in the storage, unless the storage
\* refused to be cleared: then the old cache stays in it, and since the key is gone
\* no save replaces it.
PanicForgets ==
    /\ Fingerprints(cache) \subseteq admitted
    /\ cache_key \/ ~refused => Fingerprints(stored) \subseteq admitted

\* The store of identities keeps what it was told to keep and forgets what it was
\* told to forget, over late and failing saves (save_cache_if_needed,
\* panic_clear_all_data).
IdentitySound == StorageLags /\ PanicForgets
=============================================================================
