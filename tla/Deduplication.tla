----------------------------- MODULE Deduplication -----------------------------
(***************************************************************************)
(* DeduplicationManager (bitchat-core, protocol/deduplication.rs): a       *)
(* primary and a secondary Bloom filter that change places when the        *)
(* primary is old or full.                                                 *)
(*                                                                         *)
(* A filter is its set bits and its age. BitsOf is what the seeded hashes  *)
(* of a packet id come to modulo the size of the filter; packets may share *)
(* bits, which is where false positives come from.                         *)
(***************************************************************************)
EXTENDS Integers, FiniteSets

CONSTANTS
    PacketId,
    BitsOf,        \* packet id -> the bits its hashes select
    BitSize,       \* bit_size
    FilterTtl,     \* BLOOM_TTL_MS
    MaxDedupTime   \* bound: the clock

\* Sizes and ages are unsigned.
ASSUME DedupAssumption == BitSize \in Nat /\ FilterTtl \in Nat /\ MaxDedupTime \in Nat

VARIABLES
    primary,       \* primary_filter
    secondary,     \* secondary_filter, NoFilter when there is none
    dedup_now,
    recent,        \* ghost: the packets added to the present primary filter
    previous       \* ghost: the packets added to the present secondary filter

dedupVars == <<primary, secondary, dedup_now, recent, previous>>

NoFilter == [bits |-> {}, created_at |-> -1]
NewFilter == [bits |-> {}, created_at |-> dedup_now]

BugAdd(f, p) == [f EXCEPT !.bits = @ \cup {CHOOSE b \in BitsOf[p] : TRUE}]
add(f, p) == [f EXCEPT !.bits = @ \cup BitsOf[p]]
contains(f, p) == f # NoFilter /\ BitsOf[p] \subseteq f.bits
is_filter_expired(f) == dedup_now - f.created_at > FilterTtl
TooFull(f) == 10 * Cardinality(f.bits) > 7 * BitSize

DedupInit ==
    /\ dedup_now = 0
    /\ primary = NewFilter /\ secondary = NoFilter
    /\ recent = {} /\ previous = {}

is_duplicate(p) == contains(primary, p) \/ contains(secondary, p)

should_rotate_filters(f) == is_filter_expired(f) \/ TooFull(f)

\* The filter f, which holds the packets s, makes way for an empty one.
Rotated(f, s) ==
    /\ secondary' = f /\ previous' = s
    /\ primary' = NewFilter /\ recent' = {}

RotateIfNeeded(f, s, other, others) ==
    IF should_rotate_filters(f) THEN Rotated(f, s)
    ELSE /\ primary' = f /\ recent' = s
         /\ secondary' = other /\ previous' = others

check_and_add(p) ==
    /\ RotateIfNeeded(add(primary, p), recent \cup {p}, secondary, previous)
    /\ UNCHANGED dedup_now

rotate_filters == Rotated(primary, recent) /\ UNCHANGED dedup_now

\* An expired secondary filter goes before the primary may take its place.
maintain ==
    /\ IF secondary # NoFilter /\ is_filter_expired(secondary)
       THEN RotateIfNeeded(primary, recent, NoFilter, {})
       ELSE RotateIfNeeded(primary, recent, secondary, previous)
    /\ UNCHANGED dedup_now

clear_filters ==
    /\ primary' = NewFilter /\ secondary' = NoFilter
    /\ recent' = {} /\ previous' = {}
    /\ UNCHANGED dedup_now

DedupTick ==
    /\ dedup_now < MaxDedupTime
    /\ dedup_now' = dedup_now + 1
    /\ UNCHANGED <<primary, secondary, recent, previous>>

DedupNext ==
    \/ \E p \in PacketId : check_and_add(p)
    \/ rotate_filters \/ maintain \/ clear_filters
    \/ DedupTick

DedupSpec == DedupInit /\ [][DedupNext]_dedupVars

-----------------------------------------------------------------------------
(* Properties *)

\* No false negatives: a packet that went into a filter still in use is always
\* called a duplicate, through every rotation, age and collision of bits.
DuplicatesCaught == \A p \in recent \cup previous : is_duplicate(p)

\* The filter in use never stays over 70% full between two calls, so the rate of
\* false positives is bounded whatever the traffic.
FillBounded == ~TooFull(primary)

\* The filters miss no duplicate they should know, and leave the false alarms bounded
\* (check_and_add, should_rotate_filters).
FiltersSound == DuplicatesCaught /\ FillBounded
=============================================================================
