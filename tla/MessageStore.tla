----------------------------- MODULE MessageStore -----------------------------
(***************************************************************************)
(* MessageStore (bitchat-core, protocol/message_store.rs): messages under  *)
(* their content hash, with an index by conversation and one by time, and  *)
(* counters kept beside them.                                              *)
(*                                                                         *)
(* The hash is taken to be free of collisions: an id is the tuple of the   *)
(* fields it is computed from. Contents are told apart by whether          *)
(* validation accepts them.                                                *)
(***************************************************************************)
EXTENDS Integers, Sequences, FiniteSets

CONSTANTS
    StorePeer,
    Content,          \* contents; the ones in ValidContent pass validation
    ValidContent,
    MaxTotal,         \* max_total_messages
    MaxConversation,  \* max_messages_per_conversation
    MaxMessageAge,    \* max_message_age_secs
    Millis,           \* milliseconds per second, 1000 in the code
    MillisFrom,       \* from_metadata takes smaller timestamps for seconds
    SuppliedTime,     \* the timestamps and sequence numbers peers supply
    Sequence,
    MaxClock,         \* bound: the clock, which starts at MillisFrom
    MaxRefused        \* bound: the counters of duplicates and failures

\* Limits, times and sequence numbers are unsigned; a second has milliseconds.
ASSUME StoreAssumption ==
    /\ MaxTotal \in Nat /\ MaxConversation \in Nat /\ MaxMessageAge \in Nat
    /\ Millis \in Nat \ {0} /\ MillisFrom \in Nat /\ MaxClock \in Nat /\ MaxClock >= MillisFrom
    /\ MaxRefused \in Nat
    /\ SuppliedTime \subseteq Nat /\ Sequence \subseteq Nat

VARIABLES
    messages,       \* the messages stored, by id
    conversations,  \* conversation -> the ids in it
    time_index,     \* timestamp -> the ids of that time
    store_stats,    \* MessageStoreStats
    clock           \* milliseconds

storeVars == <<messages, conversations, time_index, store_stats, clock>>

NoRecipient == "broadcast"

\* compute_id: everything but the id itself.
compute_id(m) == <<m.sender, m.recipient, m.content, m.timestamp, m.sequence>>
verify_integrity(m) == m.id = compute_id(m)

\* The two peers in either order, or nobody for a broadcast.
conversation_id(m) == IF m.recipient = NoRecipient THEN {} ELSE {m.sender, m.recipient}

Normalized(t) == IF t < MillisFrom THEN t * Millis ELSE t

\* from_metadata with no id given, or with one that has to match; content and id
\* may still have been tampered with before the message is stored.
from_metadata(s, r, c, n, t) ==
    [id |-> <<s, r, c, Normalized(t), n>>, sender |-> s, recipient |-> r, content |-> c,
     timestamp |-> Normalized(t), sequence |-> n]

StoreInit ==
    /\ messages = {}
    /\ conversations = << >>
    /\ time_index = << >>
    /\ store_stats = [total_messages |-> 0, unique_conversations |-> 0,
                      deduplication_saves |-> 0, integrity_failures |-> 0]
    /\ clock = MillisFrom

-----------------------------------------------------------------------------
\* A vector of ids as the set of its entries, each with which copy of the id it
\* is. Both queries sort what they find, so the order of a vector is never read.
Pushed(list, id) == list \cup {<<id, Cardinality({e \in list : e[1] = id}) + 1>>}
Ids(list) == {e[1] : e \in list}

\* An index with an id pushed under a key, or with the ids of some keys taken out
\* and the keys that have none left dropped.
With(index, key, id) ==
    [k \in DOMAIN index \cup {key} |->
        IF k # key THEN index[k]
        ELSE Pushed(IF key \in DOMAIN index THEN index[key] ELSE {}, id)]
Retained(index, out, k) == {e \in index[k] : <<k, e[1]>> \notin out}
Without(index, out) ==
    [k \in {k \in DOMAIN index : Retained(index, out, k) # {}} |-> Retained(index, out, k)]

saturating_sub(n, k) == IF n > k THEN n - k ELSE 0

\* The counters that follow the messages, beside those that only grow.
Counts(stats, total, unique) ==
    [total_messages |-> total, unique_conversations |-> unique,
     deduplication_saves |-> stats.deduplication_saves,
     integrity_failures |-> stats.integrity_failures]

Contents == [messages |-> messages, conversations |-> conversations,
             time_index |-> time_index, stats |-> store_stats]

ByConversation(ms) == {<<conversation_id(m), m.id>> : m \in ms}
ByTime(ms) == {<<m.timestamp, m.id>> : m \in ms}

\* Defect: a clean-up that forgets the conversations a message is in.
BugRemoveCompletely(s, gone) ==
    [s EXCEPT !.messages = @ \ gone, !.time_index = Without(@, ByTime(gone)),
              !.stats.total_messages = saturating_sub(@, Cardinality(gone))]

\* Called once for each message of gone; the removals commute.
remove_message_completely(s, gone) ==
    LET left == Without(s.conversations, ByConversation(gone))
    IN  [messages |-> s.messages \ gone,
         conversations |-> left,
         time_index |-> Without(s.time_index, ByTime(gone)),
         stats |-> Counts(s.stats,
             saturating_sub(s.stats.total_messages, Cardinality(gone)),
             saturating_sub(s.stats.unique_conversations,
                            Cardinality(DOMAIN s.conversations \ DOMAIN left)))]

\* The cut-off is in seconds, the timestamps are in milliseconds.
Cutoff == IF clock \div Millis > MaxMessageAge THEN (clock \div Millis) - MaxMessageAge ELSE 0
Old == {m \in messages : m.timestamp < Cutoff}

cleanup_old_messages(s) == remove_message_completely(s, Old)

\* What the store holds after enforce_capacity_limits made room.
AtCapacity == store_stats.total_messages >= MaxTotal
Cleaned == IF AtCapacity THEN cleanup_old_messages(Contents) ELSE Contents

InConversation(s, c) == IF c \in DOMAIN s.conversations THEN Cardinality(s.conversations[c]) ELSE 0

BugEnforced(s, m) == InConversation(s, conversation_id(m)) < MaxConversation
enforce_capacity_limits(s, m) ==
    /\ ~(AtCapacity /\ Old = {})
    /\ InConversation(s, conversation_id(m)) < MaxConversation

Put(s) ==
    /\ messages' = s.messages
    /\ conversations' = s.conversations
    /\ time_index' = s.time_index
    /\ store_stats' = s.stats

Inserted(s, m) ==
    LET c == conversation_id(m)
    IN  [messages |-> s.messages \cup {m},
         conversations |-> With(s.conversations, c, m.id),
         time_index |-> With(s.time_index, m.timestamp, m.id),
         stats |-> Counts(s.stats, s.stats.total_messages + 1,
             s.stats.unique_conversations + IF c \in DOMAIN s.conversations THEN 0 ELSE 1)]

validate_message_input(m) == m.content \in ValidContent

Counted(counter) ==
    /\ store_stats[counter] < MaxRefused
    /\ store_stats' = [store_stats EXCEPT ![counter] = @ + 1]
    /\ UNCHANGED <<messages, conversations, time_index>>

\* An invalid message is refused without a trace; a refusal for lack of room
\* comes after the clean-up.
store_message(m) ==
    /\ validate_message_input(m)
    /\ \/ ~verify_integrity(m) /\ Counted("integrity_failures")
       \/ verify_integrity(m) /\ m \in messages /\ Counted("deduplication_saves")
       \/ /\ verify_integrity(m) /\ m \notin messages
          /\ Put(IF enforce_capacity_limits(Cleaned, m) THEN Inserted(Cleaned, m) ELSE Cleaned)
    /\ UNCHANGED clock

\* A message of the local user: its time is the clock's.
new(s, r, c, n) == from_metadata(s, r, c, n, clock)

StoreTick == clock < MaxClock /\ clock' = clock + 1
             /\ UNCHANGED <<messages, conversations, time_index, store_stats>>

Built(t) == {from_metadata(s, r, c, n, t) :
                s \in StorePeer, r \in StorePeer \cup {NoRecipient}, c \in Content, n \in Sequence}
Tampered(m) == {[m EXCEPT !.content = c] : c \in Content}

StoreNext ==
    \/ \E m \in Built(clock) : store_message(m)
    \/ \E t \in SuppliedTime : \E b \in Built(t) : \E m \in Tampered(b) : store_message(m)
    \/ StoreTick

StoreSpec == StoreInit /\ [][StoreNext]_storeVars

-----------------------------------------------------------------------------
(* Queries *)

Earlier(a, b) == a.timestamp < b.timestamp \/ (a.timestamp = b.timestamp /\ a.sequence < b.sequence)

\* What sort_by leaves of a set of messages: all of them, earliest first.
SortedFrom(out, found) ==
    /\ {out[i] : i \in DOMAIN out} = found
    /\ \A i, j \in DOMAIN out : i < j => ~Earlier(out[j], out[i])
Sorted(found) == CHOOSE out \in [1 .. Cardinality(found) -> found] : SortedFrom(out, found)
Stored(ids) == {m \in messages : m.id \in ids}

get_conversation_messages(c) ==
    IF c \in DOMAIN conversations THEN Sorted(Stored(Ids(conversations[c]))) ELSE <<>>

\* BTreeMap::range panics on a span whose end is before its start.
Panicked == <<"panicked">>
get_messages_in_range(from, to) ==
    IF from > to THEN Panicked
    ELSE Sorted(Stored(UNION {Ids(time_index[t]) :
                                  t \in {u \in DOMAIN time_index : from <= u /\ u <= to}}))

-----------------------------------------------------------------------------
(* Properties *)

Conversations(ms) == {conversation_id(m) : m \in ms}
Timestamps(ms) == {m.timestamp : m \in ms}
Conversation(ms, c) == {m \in ms : conversation_id(m) = c}

\* The two indices and the counters say of the messages what the messages say
\* themselves, whatever was stored twice, refused or cleaned up in between: each
\* message is under its conversation and its time once, and nothing else is.
IndicesAgree ==
    /\ conversations = [c \in Conversations(messages) |->
                           {<<m.id, 1>> : m \in Conversation(messages, c)}]
    /\ time_index = [t \in Timestamps(messages) |->
                        {<<m.id, 1>> : m \in {x \in messages : x.timestamp = t}}]
    /\ store_stats.total_messages = Cardinality(messages)
    /\ store_stats.unique_conversations = Cardinality(Conversations(messages))

\* A reader of a conversation and a reader of a span of time see the messages
\* that belong there, each once and earliest first. (A span that ends before it
\* starts must not be asked for: nothing checks it and the store panics.)
QueriesComplete ==
    /\ \A c \in Conversations(messages) :
           SortedFrom(get_conversation_messages(c), Conversation(messages, c))
    /\ \A from, to \in Timestamps(messages) : from <= to =>
           LET between == {m \in messages : from <= m.timestamp /\ m.timestamp <= to}
           IN  /\ SortedFrom(get_messages_in_range(from, to), between)
               /\ Len(get_messages_in_range(from, to)) = Cardinality(between)

WithinLimits(s) ==
    /\ Cardinality(s) <= MaxTotal
    /\ \A m \in s : Cardinality(Conversation(s, conversation_id(m))) <= MaxConversation

AllMessages == UNION {Built(t) : t \in SuppliedTime \cup MillisFrom .. MaxClock}
BeforeCutoff(m, t) == m.timestamp < (t + MillisFrom) \div Millis - MaxMessageAge

\* The store implements a bounded log of messages: full or not, with indices or
\* without, a message is kept unaltered until it is old, and the limits hold.
Log == INSTANCE MessageLog WITH
    LogMessage <- AllMessages, Room <- WithinLimits, Expired <- BeforeCutoff,
    log <- messages, time <- clock - MillisFrom
ImplementsLog == Log!LogSpec

\* Indices, counters and queries agree with the messages (store_message,
\* enforce_capacity_limits, remove_message_completely).
StoreSound == IndicesAgree /\ QueriesComplete
=============================================================================
