------------------------------ MODULE StoreProofs ------------------------------
(***************************************************************************)
(* Proofs about what becomes of messages. MessageStore, for any peers,     *)
(* contents, limits and times: the indices and counters agree with the     *)
(* messages, the queries answer with what was asked for, and the store     *)
(* implements MessageLog. Delivery, for any messages, configurations and   *)
(* networks: receipts and retries.                                         *)
(*                                                                         *)
(* An id is computed from everything else a message has, so it names one   *)
(* message; what the store keeps rests on that.                            *)
(***************************************************************************)
EXTENDS MessageStore, Delivery, TLAPS, FiniteSetTheorems, WellFoundedInduction

-----------------------------------------------------------------------------
(* Sorting *)

LEMMA LeastNat ==
    ASSUME NEW S \in SUBSET Nat, S # {}
    PROVE  \E x \in S : \A y \in S : x <= y
<1> DEFINE R == {q \in Nat \X Nat : q[1] < q[2]}
<1>1. IsWellFoundedOn(R, Nat)
    BY NatLessThanWellFounded, Zenon DEF OpToRel
<1> HIDE DEF R
<1>2. PICK x \in S : \A y \in S : <<y, x>> \notin R
    BY <1>1, WFMin
<1>3. ASSUME NEW y \in S PROVE x <= y
    <2>1. <<y, x>> \in Nat \X Nat /\ <<y, x>> \notin R
        BY <1>2
    <2>2. ~(y < x)
        BY <2>1 DEF R
    <2> QED
        BY <2>2
<1> QED
    BY <1>3

\* A finite set of messages has one that no other is later than.
LEMMA LatestExists ==
    ASSUME NEW S, IsFiniteSet(S), S # {},
           \A m \in S : m.timestamp \in Nat /\ m.sequence \in Nat
    PROVE  \E x \in S : \A y \in S : ~Earlier(x, y)
<1> DEFINE Latest(x, T) == \A y \in T : ~Earlier(x, y)
           Bad(T) == T # {} /\ \A x \in T : ~Latest(x, T)
           B == {n \in Nat : \E T \in SUBSET S : Cardinality(T) = n /\ Bad(T)}
<1>1. SUFFICES ASSUME B # {} PROVE FALSE
    <2>1. Cardinality(S) \in Nat
        BY FS_CardinalityType
    <2> QED
        BY <2>1
<1>2. PICK n \in B : \A k \in B : n <= k
    <2>1. B \in SUBSET Nat
        OBVIOUS
    <2> HIDE DEF B
    <2> QED
        BY <1>1, <2>1, LeastNat
<1>3. PICK T \in SUBSET S : Cardinality(T) = n /\ Bad(T)
    BY <1>2
<1>4. PICK y \in T : TRUE
    BY <1>3
<1>5. IsFiniteSet(T) /\ Cardinality(T \ {y}) = n - 1 /\ n - 1 \in Nat
    <2>1. IsFiniteSet(T)
        BY FS_Subset
    <2>2. Cardinality(T \ {y}) = n - 1
        BY <2>1, <1>3, FS_RemoveElement
    <2>3. IsFiniteSet(T \ {y})
        BY <2>1, FS_RemoveElement
    <2> QED
        BY <2>1, <2>2, <2>3, FS_CardinalityType
<1>6. ~Bad(T \ {y})
    <2>1. n - 1 \notin B
        BY <1>2, <1>5
    <2>2. T \ {y} \in SUBSET S
        OBVIOUS
    <2> HIDE DEF Bad
    <2> QED
        BY <2>1, <2>2, <1>5
<1>7. ASSUME NEW x \in T \ {y}, Latest(x, T \ {y}) PROVE FALSE
    <2>1. \A z \in T : z.timestamp \in Nat /\ z.sequence \in Nat
        OBVIOUS
    <2>2. ~Earlier(y, y)
        BY <2>1 DEF Earlier
    <2>3. CASE ~Earlier(x, y)
        <3>1. Latest(x, T)
            BY <2>3, <1>7
        <3> QED
            BY <3>1, <1>3
    <2>4. CASE Earlier(x, y)
        <3>1. ASSUME NEW z \in T PROVE ~Earlier(y, z)
            <4>1. CASE z = y
                BY <4>1, <2>2
            <4>2. CASE z # y
                <5>1. ~Earlier(x, z)
                    BY <4>2, <1>7
                <5> QED
                    BY <5>1, <2>4, <2>1 DEF Earlier
            <4> QED
                BY <4>1, <4>2
        <3> QED
            BY <3>1, <1>3, <1>4
    <2> QED
        BY <2>3, <2>4
<1>8. CASE T \ {y} = {}
    <2>1. y.timestamp \in Nat /\ y.sequence \in Nat
        OBVIOUS
    <2>2. Latest(y, T)
        BY <1>8, <2>1 DEF Earlier
    <2> QED
        BY <2>2, <1>3, <1>4
<1> QED
    BY <1>6, <1>7, <1>8

\* Every finite set of messages can be sorted: take the latest out, sort the
\* others, and put it last.
LEMMA SortExists ==
    ASSUME NEW S, IsFiniteSet(S),
           \A m \in S : m.timestamp \in Nat /\ m.sequence \in Nat
    PROVE  \E out \in [1 .. Cardinality(S) -> S] : SortedFrom(out, S)
<1> DEFINE Sortable(T) == \E out \in [1 .. Cardinality(T) -> T] : SortedFrom(out, T)
           B == {n \in Nat : \E T \in SUBSET S : Cardinality(T) = n /\ ~Sortable(T)}
<1>1. SUFFICES ASSUME B # {} PROVE FALSE
    <2>1. Cardinality(S) \in Nat
        BY FS_CardinalityType
    <2> QED
        BY <2>1
<1>2. PICK n \in B : \A k \in B : n <= k
    <2>1. B \in SUBSET Nat
        OBVIOUS
    <2> HIDE DEF B
    <2> QED
        BY <1>1, <2>1, LeastNat
<1>3. PICK T \in SUBSET S : Cardinality(T) = n /\ ~Sortable(T)
    BY <1>2
<1>4. IsFiniteSet(T)
    BY FS_Subset
<1>5. CASE T = {}
    <2>1. Cardinality(T) = 0
        BY <1>5, FS_EmptySet
    <2>2. [i \in 1 .. 0 |-> i] \in [1 .. 0 -> T]
        OBVIOUS
    <2>3. SortedFrom([i \in 1 .. 0 |-> i], T)
        BY <1>5 DEF SortedFrom
    <2> QED
        BY <2>1, <2>2, <2>3, <1>3
<1>6. CASE T # {}
    <2>1. PICK x \in T : \A y \in T : ~Earlier(x, y)
        BY <1>4, <1>6, LatestExists
    <2> DEFINE U == T \ {x}
    <2>2. Cardinality(U) = n - 1 /\ n - 1 \in Nat
        <3>1. IsFiniteSet(U) /\ Cardinality(U) = n - 1
            BY <1>3, <1>4, FS_RemoveElement
        <3> QED
            BY <3>1, FS_CardinalityType
    <2>3. Sortable(U)
        <3>1. n - 1 \notin B
            BY <1>2, <2>2
        <3>2. U \in SUBSET S
            OBVIOUS
        <3> HIDE DEF Sortable, U
        <3> QED
            BY <3>1, <3>2, <2>2
    <2>4. PICK out \in [1 .. n - 1 -> U] : SortedFrom(out, U)
        BY <2>3, <2>2
    <2> DEFINE more == [i \in 1 .. n |-> IF i = n THEN x ELSE out[i]]
    <2>5. \A i \in 1 .. n - 1 : more[i] = out[i] /\ out[i] \in U
        BY <2>2
    <2>6. n \in Nat /\ n \in 1 .. n /\ more[n] = x
        BY <2>2
    <2>7. more \in [1 .. n -> T]
        BY <2>5, <2>6
    <2>8. {more[i] : i \in 1 .. n} = T
        <3>1. {out[i] : i \in 1 .. n - 1} = U
            BY <2>4 DEF SortedFrom
        <3>2. ASSUME NEW e \in U PROVE \E i \in 1 .. n : more[i] = e
            BY <3>1, <2>5, <2>6
        <3> QED
            BY <3>2, <2>5, <2>6
    <2>9. ASSUME NEW i \in 1 .. n, NEW j \in 1 .. n, i < j
          PROVE  ~Earlier(more[j], more[i])
        <3>1. i \in 1 .. n - 1
            BY <2>9, <2>6
        <3>2. CASE j = n
            BY <3>1, <3>2, <2>1, <2>5, <2>6
        <3>3. CASE j # n
            <4>1. j \in 1 .. n - 1
                BY <3>3, <2>6
            <4>2. ~Earlier(out[j], out[i])
                BY <4>1, <3>1, <2>4, <2>9 DEF SortedFrom
            <4> QED
                BY <4>1, <4>2, <3>1, <2>5
        <3> QED
            BY <3>2, <3>3
    <2>10. SortedFrom(more, T)
        <3> DOMAIN more = 1 .. n
            OBVIOUS
        <3> HIDE DEF more
        <3> QED
            BY <2>8, <2>9 DEF SortedFrom
    <2> QED
        BY <2>7, <2>10, <1>3
<1> QED
    BY <1>5, <1>6

LEMMA SortedIs ==
    ASSUME NEW S, IsFiniteSet(S),
           \A m \in S : m.timestamp \in Nat /\ m.sequence \in Nat
    PROVE  /\ Sorted(S) \in [1 .. Cardinality(S) -> S]
           /\ SortedFrom(Sorted(S), S)
           /\ Len(Sorted(S)) = Cardinality(S)
<1>1. Sorted(S) \in [1 .. Cardinality(S) -> S] /\ SortedFrom(Sorted(S), S)
    <2> DEFINE P(out) == out \in [1 .. Cardinality(S) -> S] /\ SortedFrom(out, S)
    <2>1. \E out : P(out)
        BY SortExists
    <2>2. P(CHOOSE out : P(out))
        BY <2>1, Zenon
    <2>3. Sorted(S) = CHOOSE out : P(out)
        BY Zenon DEF Sorted
    <2> QED
        BY <2>2, <2>3
<1>2. Cardinality(S) \in Nat
    BY FS_CardinalityType
<1> QED
    BY <1>1, <1>2

-----------------------------------------------------------------------------
(* Ids and indices *)

ConversationIndex(ms) ==
    [c \in Conversations(ms) |-> {<<m.id, 1>> : m \in Conversation(ms, c)}]
TimeIndex(ms) ==
    [t \in Timestamps(ms) |-> {<<m.id, 1>> : m \in {x \in ms : x.timestamp = t}}]

\* A message that can be stored is what its id was computed from, so that the id
\* tells it from all others.
LEMMA MessageIs ==
    ASSUME NEW m \in AllMessages
    PROVE  /\ m = [id |-> compute_id(m), sender |-> m.sender, recipient |-> m.recipient,
                   content |-> m.content, timestamp |-> m.timestamp, sequence |-> m.sequence]
           /\ m.timestamp \in Nat /\ m.sequence \in Nat
<1>1. PICK t \in SuppliedTime \cup MillisFrom .. MaxClock : m \in Built(t)
    BY DEF AllMessages
<1>2. PICK s \in StorePeer, r \in StorePeer \cup {NoRecipient}, c \in Content, n \in Sequence :
          m = from_metadata(s, r, c, n, t)
    BY <1>1 DEF Built
<1>3. Normalized(t) \in Nat
    BY StoreAssumption DEF Normalized
<1>4. m = [id |-> <<s, r, c, Normalized(t), n>>, sender |-> s, recipient |-> r, content |-> c,
           timestamp |-> Normalized(t), sequence |-> n]
    BY <1>2 DEF from_metadata
<1> QED
    BY <1>3, <1>4, StoreAssumption DEF compute_id

LEMMA SameId ==
    ASSUME NEW m \in AllMessages, NEW o \in AllMessages, m.id = o.id
    PROVE  m = o
<1>1. compute_id(m) = compute_id(o)
    BY MessageIs
<1>2. /\ m.sender = o.sender /\ m.recipient = o.recipient /\ m.content = o.content
      /\ m.timestamp = o.timestamp /\ m.sequence = o.sequence
    BY <1>1 DEF compute_id
<1> QED
    BY <1>2, MessageIs

\* A list with one entry for each of some messages is as long as they are many.
LEMMA ListLength ==
    ASSUME NEW S \in SUBSET AllMessages, IsFiniteSet(S)
    PROVE  Cardinality({<<m.id, 1>> : m \in S}) = Cardinality(S)
<1> DEFINE L == {<<m.id, 1>> : m \in S}
           f == [m \in S |-> <<m.id, 1>>]
<1>1. f \in Surjection(S, L)
    BY DEF Surjection
<1>2. f \in Injection(S, L)
    <2>1. \A m, o \in S : m.id = o.id => m = o
        BY SameId
    <2>2. \A m, o \in S : f[m] = f[o] => m.id = o.id
        OBVIOUS
    <2>3. f \in [S -> L]
        OBVIOUS
    <2> HIDE DEF f, L
    <2> QED
        BY <2>1, <2>2, <2>3 DEF Injection, IsInjective
<1> QED
    BY <1>1, <1>2, FS_Surjection

LEMMA ListEmpty ==
    ASSUME NEW S
    PROVE  {<<m.id, 1>> : m \in S} = {} <=> S = {}
<1>1. \A m \in S : <<m.id, 1>> \in {<<x.id, 1>> : x \in S}
    OBVIOUS
<1> QED
    BY <1>1

LEMMA ListIds ==
    ASSUME NEW S
    PROVE  Ids({<<m.id, 1>> : m \in S}) = {m.id : m \in S}
<1>1. ASSUME NEW i PROVE i \in Ids({<<m.id, 1>> : m \in S}) <=> \E m \in S : i = m.id
    <2>1. \A m \in S : <<m.id, 1>> \in {<<x.id, 1>> : x \in S} /\ <<m.id, 1>>[1] = m.id
        OBVIOUS
    <2> QED
        BY <2>1 DEF Ids
<1> QED
    BY <1>1

LEMMA IndexRetains ==
    ASSUME NEW M \in SUBSET AllMessages, NEW gone \in SUBSET M
    PROVE  /\ Without(ConversationIndex(M), ByConversation(gone)) = ConversationIndex(M \ gone)
           /\ Without(TimeIndex(M), ByTime(gone)) = TimeIndex(M \ gone)
<1>1. \A m \in M, o \in gone : m.id = o.id => m = o
    BY SameId
<1>2. ASSUME NEW c \in Conversations(M)
      PROVE  Retained(ConversationIndex(M), ByConversation(gone), c)
                 = {<<m.id, 1>> : m \in Conversation(M \ gone, c)}
    <2>1. \A m \in Conversation(M, c) :
              <<c, m.id>> \in ByConversation(gone) <=> m \in gone
        BY <1>1 DEF Conversation, ByConversation
    <2>2. ConversationIndex(M)[c] = {<<m.id, 1>> : m \in Conversation(M, c)}
        BY DEF ConversationIndex
    <2>3. \A m : m \in Conversation(M \ gone, c) <=> m \in Conversation(M, c) /\ m \notin gone
        BY DEF Conversation
    <2>4. ASSUME NEW e
          PROVE  e \in Retained(ConversationIndex(M), ByConversation(gone), c)
                     <=> \E m \in Conversation(M \ gone, c) : e = <<m.id, 1>>
        BY <2>1, <2>2, <2>3 DEF Retained
    <2> QED
        BY <2>4
<1>3. ASSUME NEW t \in Timestamps(M)
      PROVE  Retained(TimeIndex(M), ByTime(gone), t)
                 = {<<m.id, 1>> : m \in {x \in M \ gone : x.timestamp = t}}
    <2>1. \A m \in {x \in M : x.timestamp = t} :
              <<t, m.id>> \in ByTime(gone) <=> m \in gone
        BY <1>1 DEF ByTime
    <2>2. TimeIndex(M)[t] = {<<m.id, 1>> : m \in {x \in M : x.timestamp = t}}
        BY DEF TimeIndex
    <2> QED
        BY <2>1, <2>2 DEF Retained
<1>4. {c \in Conversations(M) : Retained(ConversationIndex(M), ByConversation(gone), c) # {}}
          = Conversations(M \ gone)
    <2>1. ASSUME NEW c \in Conversations(M)
          PROVE  Retained(ConversationIndex(M), ByConversation(gone), c) # {}
                     <=> Conversation(M \ gone, c) # {}
        BY <1>2, ListEmpty
    <2>2. \A c \in Conversations(M) : Conversation(M \ gone, c) # {} <=> c \in Conversations(M \ gone)
        BY DEF Conversations, Conversation
    <2>3. Conversations(M \ gone) \subseteq Conversations(M)
        BY DEF Conversations
    <2> QED
        BY <2>1, <2>2, <2>3
<1>5. {t \in Timestamps(M) : Retained(TimeIndex(M), ByTime(gone), t) # {}} = Timestamps(M \ gone)
    <2>1. ASSUME NEW t \in Timestamps(M)
          PROVE  Retained(TimeIndex(M), ByTime(gone), t) # {}
                     <=> {x \in M \ gone : x.timestamp = t} # {}
        BY <1>3, ListEmpty
    <2>2. \A t \in Timestamps(M) : {x \in M \ gone : x.timestamp = t} # {} <=> t \in Timestamps(M \ gone)
        BY DEF Timestamps
    <2>3. Timestamps(M \ gone) \subseteq Timestamps(M)
        BY DEF Timestamps
    <2> QED
        BY <2>1, <2>2, <2>3
<1>6. DOMAIN ConversationIndex(M) = Conversations(M) /\ DOMAIN TimeIndex(M) = Timestamps(M)
    BY DEF ConversationIndex, TimeIndex
<1>7. Without(ConversationIndex(M), ByConversation(gone)) = ConversationIndex(M \ gone)
    <2>1. Without(ConversationIndex(M), ByConversation(gone)) =
              [c \in Conversations(M \ gone) |->
                  Retained(ConversationIndex(M), ByConversation(gone), c)]
        BY <1>4, <1>6 DEF Without
    <2>2. Conversations(M \ gone) \subseteq Conversations(M)
        BY DEF Conversations
    <2> QED
        BY <2>1, <2>2, <1>2 DEF ConversationIndex
<1>8. Without(TimeIndex(M), ByTime(gone)) = TimeIndex(M \ gone)
    <2>1. Without(TimeIndex(M), ByTime(gone)) =
              [t \in Timestamps(M \ gone) |-> Retained(TimeIndex(M), ByTime(gone), t)]
        BY <1>5, <1>6 DEF Without
    <2>2. Timestamps(M \ gone) \subseteq Timestamps(M)
        BY DEF Timestamps
    <2> QED
        BY <2>1, <2>2, <1>3 DEF TimeIndex
<1> QED
    BY <1>7, <1>8

LEMMA PushedNew ==
    ASSUME NEW S \in SUBSET AllMessages, NEW m \in AllMessages, m \notin S
    PROVE  Pushed({<<x.id, 1>> : x \in S}, m.id) = {<<x.id, 1>> : x \in S \cup {m}}
<1> DEFINE L == {<<x.id, 1>> : x \in S}
<1>1. \A x \in S : x.id # m.id
    BY SameId
<1>2. {e \in L : e[1] = m.id} = {}
    BY <1>1
<1>3. Cardinality({e \in L : e[1] = m.id}) + 1 = 1
    BY <1>2, FS_EmptySet
<1> HIDE DEF L
<1>4. Pushed(L, m.id) = L \cup {<<m.id, 1>>}
    BY <1>3 DEF Pushed
<1> USE DEF L
<1> QED
    BY <1>4

LEMMA IndexGains ==
    ASSUME NEW M \in SUBSET AllMessages, NEW m \in AllMessages, m \notin M
    PROVE  /\ With(ConversationIndex(M), conversation_id(m), m.id) = ConversationIndex(M \cup {m})
           /\ With(TimeIndex(M), m.timestamp, m.id) = TimeIndex(M \cup {m})
<1> DEFINE N == M \cup {m}
           c == conversation_id(m)
           OfTime(ms, t) == {x \in ms : x.timestamp = t}
<1>1. DOMAIN ConversationIndex(M) = Conversations(M) /\ DOMAIN TimeIndex(M) = Timestamps(M)
    BY DEF ConversationIndex, TimeIndex
<1>2. Conversations(N) = Conversations(M) \cup {c} /\ Timestamps(N) = Timestamps(M) \cup {m.timestamp}
    BY DEF Conversations, Timestamps
<1>3. /\ \A k : k # c => Conversation(N, k) = Conversation(M, k)
      /\ Conversation(N, c) = Conversation(M, c) \cup {m}
      /\ c \notin Conversations(M) => Conversation(M, c) = {}
    BY DEF Conversation, Conversations
<1>4. /\ \A t : t # m.timestamp => OfTime(N, t) = OfTime(M, t)
      /\ OfTime(N, m.timestamp) = OfTime(M, m.timestamp) \cup {m}
      /\ m.timestamp \notin Timestamps(M) => OfTime(M, m.timestamp) = {}
    BY DEF Timestamps
<1>5. (IF c \in Conversations(M) THEN ConversationIndex(M)[c] ELSE {})
          = {<<x.id, 1>> : x \in Conversation(M, c)}
    BY <1>3 DEF ConversationIndex
<1>6. (IF m.timestamp \in Timestamps(M) THEN TimeIndex(M)[m.timestamp] ELSE {})
          = {<<x.id, 1>> : x \in OfTime(M, m.timestamp)}
    BY <1>4 DEF TimeIndex
<1>7. With(ConversationIndex(M), c, m.id) = ConversationIndex(N)
    <2>1. Pushed({<<x.id, 1>> : x \in Conversation(M, c)}, m.id)
              = {<<x.id, 1>> : x \in Conversation(N, c)}
        <3>1. Conversation(M, c) \in SUBSET AllMessages /\ m \notin Conversation(M, c)
            BY DEF Conversation
        <3> QED
            BY <3>1, <1>3, PushedNew
    <2>2. \A k \in Conversations(M) : k # c =>
              ConversationIndex(M)[k] = {<<x.id, 1>> : x \in Conversation(N, k)}
        BY <1>3 DEF ConversationIndex
    <2>3. With(ConversationIndex(M), c, m.id) =
              [k \in Conversations(M) \cup {c} |->
                  IF k # c THEN ConversationIndex(M)[k]
                  ELSE {<<x.id, 1>> : x \in Conversation(N, c)}]
        BY <1>1, <1>5, <2>1 DEF With
    <2>4. ConversationIndex(N) =
              [k \in Conversations(M) \cup {c} |-> {<<x.id, 1>> : x \in Conversation(N, k)}]
        BY <1>2 DEF ConversationIndex
    <2> QED
        BY <2>2, <2>3, <2>4
<1>8. With(TimeIndex(M), m.timestamp, m.id) = TimeIndex(N)
    <2>1. Pushed({<<x.id, 1>> : x \in OfTime(M, m.timestamp)}, m.id)
              = {<<x.id, 1>> : x \in OfTime(N, m.timestamp)}
        <3>1. OfTime(M, m.timestamp) \in SUBSET AllMessages /\ m \notin OfTime(M, m.timestamp)
            OBVIOUS
        <3> HIDE DEF OfTime
        <3> QED
            BY <3>1, <1>4, PushedNew
    <2>2. \A k \in Timestamps(M) : k # m.timestamp =>
              TimeIndex(M)[k] = {<<x.id, 1>> : x \in OfTime(N, k)}
        BY <1>4 DEF TimeIndex
    <2>3. With(TimeIndex(M), m.timestamp, m.id) =
              [k \in Timestamps(M) \cup {m.timestamp} |->
                  IF k # m.timestamp THEN TimeIndex(M)[k]
                  ELSE {<<x.id, 1>> : x \in OfTime(N, m.timestamp)}]
        BY <1>1, <1>6, <2>1 DEF With
    <2>4. TimeIndex(N) =
              [k \in Timestamps(M) \cup {m.timestamp} |-> {<<x.id, 1>> : x \in OfTime(N, k)}]
        BY <1>2 DEF TimeIndex
    <2> HIDE DEF OfTime, N
    <2> QED
        BY <2>2, <2>3, <2>4
<1> QED
    BY <1>7, <1>8

-----------------------------------------------------------------------------
(* The invariant and what preserves it *)

StoreStats == [total_messages : Nat, unique_conversations : Nat,
               deduplication_saves : Nat, integrity_failures : Nat]

\* Indices and counters follow from the messages, and the limits hold.
SoundContents(s) ==
    /\ s.messages \in SUBSET AllMessages /\ IsFiniteSet(s.messages)
    /\ s.conversations = ConversationIndex(s.messages)
    /\ s.time_index = TimeIndex(s.messages)
    /\ s.stats \in StoreStats
    /\ s.stats.total_messages = Cardinality(s.messages)
    /\ s.stats.unique_conversations = Cardinality(Conversations(s.messages))
    /\ WithinLimits(s.messages)

StoreInv == SoundContents(Contents) /\ clock \in MillisFrom .. MaxClock

LEMMA CardinalitySplit ==
    ASSUME NEW A, IsFiniteSet(A), NEW B \in SUBSET A
    PROVE  /\ IsFiniteSet(A \ B) /\ IsFiniteSet(B)
           /\ Cardinality(A) \in Nat /\ Cardinality(B) \in Nat /\ Cardinality(A \ B) \in Nat
           /\ Cardinality(A) = Cardinality(A \ B) + Cardinality(B)
<1>1. IsFiniteSet(B) /\ Cardinality(A) \in Nat /\ Cardinality(B) \in Nat
    BY FS_Subset, FS_CardinalityType
<1>2. /\ IsFiniteSet(A \ B) /\ Cardinality(A \ B) \in Nat
      /\ Cardinality(A \ B) = Cardinality(A) - Cardinality(A \cap B)
    BY FS_Difference, FS_CardinalityType
<1>3. A \cap B = B
    OBVIOUS
<1>4. Cardinality(A \cap B) = Cardinality(B)
    BY <1>3, Zenon
<1> QED
    BY <1>1, <1>2, <1>4

LEMMA StatsUpdate ==
    ASSUME NEW st \in StoreStats, NEW n \in Nat, NEW k \in Nat
    PROVE  /\ Counts(st, n, k) \in StoreStats
           /\ Counts(st, n, k).total_messages = n /\ Counts(st, n, k).unique_conversations = k
    BY DEF StoreStats, Counts

LEMMA ConversationsFinite ==
    ASSUME NEW M, IsFiniteSet(M)
    PROVE  IsFiniteSet(Conversations(M)) /\ Cardinality(Conversations(M)) \in Nat
<1> DEFINE f == [m \in M |-> conversation_id(m)]
<1>1. f \in Surjection(M, Conversations(M))
    BY DEF Surjection, Conversations
<1> QED
    BY <1>1, FS_Surjection, FS_CardinalityType

LEMMA LimitsMonotone ==
    ASSUME NEW M, IsFiniteSet(M), WithinLimits(M), NEW N \in SUBSET M
    PROVE  WithinLimits(N)
<1>1. Cardinality(N) <= MaxTotal
    BY FS_Subset, FS_CardinalityType, StoreAssumption DEF WithinLimits
<1>2. ASSUME NEW m \in N
      PROVE  Cardinality(Conversation(N, conversation_id(m))) <= MaxConversation
    <2>1. Conversation(N, conversation_id(m)) \subseteq Conversation(M, conversation_id(m))
        BY DEF Conversation
    <2>2. IsFiniteSet(Conversation(M, conversation_id(m)))
        BY FS_Subset DEF Conversation
    <2>3. Cardinality(Conversation(M, conversation_id(m))) <= MaxConversation
        BY DEF WithinLimits
    <2> QED
        BY <2>1, <2>2, <2>3, FS_Subset, FS_CardinalityType, StoreAssumption
<1> QED
    BY <1>1, <1>2 DEF WithinLimits

LEMMA ConversationLength ==
    ASSUME NEW s, SoundContents(s), NEW c
    PROVE  InConversation(s, c) = Cardinality(Conversation(s.messages, c))
<1> DEFINE M == s.messages
<1>1. DOMAIN s.conversations = Conversations(M)
    BY DEF SoundContents, ConversationIndex
<1>2. CASE c \in Conversations(M)
    <2>1. Conversation(M, c) \in SUBSET AllMessages /\ IsFiniteSet(Conversation(M, c))
        BY FS_Subset DEF SoundContents, Conversation
    <2>2. s.conversations[c] = {<<m.id, 1>> : m \in Conversation(M, c)}
        BY <1>2 DEF SoundContents, ConversationIndex
    <2> QED
        BY <1>1, <1>2, <2>1, <2>2, ListLength DEF InConversation
<1>3. CASE c \notin Conversations(M)
    <2>1. Conversation(M, c) = {}
        BY <1>3 DEF Conversations, Conversation
    <2> QED
        BY <1>1, <1>3, <2>1, FS_EmptySet DEF InConversation
<1> QED
    BY <1>2, <1>3

LEMMA RemoveSound ==
    ASSUME NEW s, SoundContents(s), NEW gone \in SUBSET s.messages
    PROVE  /\ SoundContents(remove_message_completely(s, gone))
           /\ remove_message_completely(s, gone).messages = s.messages \ gone
<1> DEFINE M == s.messages
           N == M \ gone
           r == remove_message_completely(s, gone)
<1>1. /\ M \in SUBSET AllMessages /\ IsFiniteSet(M) /\ N \in SUBSET M
      /\ s.stats \in StoreStats /\ WithinLimits(M)
    BY DEF SoundContents
<1>2. /\ Without(s.conversations, ByConversation(gone)) = ConversationIndex(N)
      /\ Without(s.time_index, ByTime(gone)) = TimeIndex(N)
    BY IndexRetains DEF SoundContents
<1>3. /\ r.messages = N /\ r.conversations = ConversationIndex(N) /\ r.time_index = TimeIndex(N)
      /\ r.stats = Counts(s.stats, saturating_sub(s.stats.total_messages, Cardinality(gone)),
             saturating_sub(s.stats.unique_conversations,
                            Cardinality(DOMAIN s.conversations \ DOMAIN ConversationIndex(N))))
    BY <1>2 DEF remove_message_completely
<1>4. saturating_sub(s.stats.total_messages, Cardinality(gone)) = Cardinality(N)
    <2>1. s.stats.total_messages = Cardinality(M)
        BY DEF SoundContents
    <2>2. gone \in SUBSET M /\ IsFiniteSet(M)
        BY <1>1
    <2> HIDE DEF M
    <2>3. /\ Cardinality(M) = Cardinality(M \ gone) + Cardinality(gone)
          /\ Cardinality(M \ gone) \in Nat /\ Cardinality(gone) \in Nat
        BY <2>2, CardinalitySplit
    <2> HIDE DEF N
    <2> QED
        BY <2>1, <2>3 DEF saturating_sub, N
<1>5. saturating_sub(s.stats.unique_conversations,
                     Cardinality(DOMAIN s.conversations \ DOMAIN ConversationIndex(N)))
          = Cardinality(Conversations(N))
    <2> DEFINE A == Conversations(M)
               B == Conversations(N)
    <2>1. DOMAIN s.conversations = A /\ DOMAIN ConversationIndex(N) = B
        BY DEF SoundContents, ConversationIndex
    <2>2. B \subseteq A
        BY DEF Conversations
    <2>3. IsFiniteSet(A)
        BY <1>1, ConversationsFinite
    <2>4. s.stats.unique_conversations = Cardinality(A)
        BY DEF SoundContents
    <2> HIDE DEF A, B
    <2>5. B = A \ (A \ B)
        BY <2>2
    <2>6. /\ Cardinality(A) = Cardinality(B) + Cardinality(A \ B)
          /\ Cardinality(B) \in Nat /\ Cardinality(A \ B) \in Nat
        BY <2>3, <2>5, CardinalitySplit
    <2>7. saturating_sub(Cardinality(A), Cardinality(A \ B)) = Cardinality(B)
        BY <2>6 DEF saturating_sub
    <2> QED
        BY <2>1, <2>4, <2>7 DEF B
<1>6. /\ r.stats \in StoreStats /\ r.stats.total_messages = Cardinality(N)
      /\ r.stats.unique_conversations = Cardinality(Conversations(N))
    <2>1. IsFiniteSet(N) /\ Cardinality(N) \in Nat /\ Cardinality(Conversations(N)) \in Nat
        BY <1>1, FS_Subset, FS_CardinalityType, ConversationsFinite
    <2> HIDE DEF r, N, M
    <2>2. r.stats = Counts(s.stats, Cardinality(N), Cardinality(Conversations(N)))
        BY <1>3, <1>4, <1>5, Zenon
    <2>3. PICK st \in StoreStats : st = s.stats
        BY <1>1
    <2>4. PICK n \in Nat, k \in Nat : n = Cardinality(N) /\ k = Cardinality(Conversations(N))
        BY <2>1
    <2>5. r.stats = Counts(st, n, k)
        BY <2>2, <2>3, <2>4, Zenon
    <2>6. /\ Counts(st, n, k) \in StoreStats
          /\ Counts(st, n, k).total_messages = n /\ Counts(st, n, k).unique_conversations = k
        BY StatsUpdate
    <2> QED
        BY <2>4, <2>5, <2>6
<1>7. IsFiniteSet(N) /\ WithinLimits(N) /\ N \in SUBSET AllMessages
    BY <1>1, FS_Subset, LimitsMonotone
<1> HIDE DEF r, N
<1>8. SoundContents(r)
    BY <1>3, <1>6, <1>7 DEF SoundContents
<1> QED
    BY <1>3, <1>8 DEF r, N

LEMMA InsertSound ==
    ASSUME NEW s, SoundContents(s), NEW m \in AllMessages, m \notin s.messages,
           Cardinality(s.messages) < MaxTotal,
           InConversation(s, conversation_id(m)) < MaxConversation
    PROVE  /\ SoundContents(Inserted(s, m))
           /\ Inserted(s, m).messages = s.messages \cup {m}
<1> DEFINE M == s.messages
           N == M \cup {m}
           c == conversation_id(m)
           r == Inserted(s, m)
           new_one == IF c \in DOMAIN s.conversations THEN 0 ELSE 1
<1>1. /\ M \in SUBSET AllMessages /\ IsFiniteSet(M) /\ Cardinality(M) \in Nat
      /\ s.stats \in StoreStats /\ WithinLimits(M) /\ DOMAIN s.conversations = Conversations(M)
      /\ s.stats.total_messages = Cardinality(M)
      /\ s.stats.unique_conversations = Cardinality(Conversations(M))
    BY FS_CardinalityType DEF SoundContents, ConversationIndex
<1>2. /\ r.messages = N /\ r.conversations = ConversationIndex(N) /\ r.time_index = TimeIndex(N)
      /\ r.stats = Counts(s.stats, s.stats.total_messages + 1, s.stats.unique_conversations + new_one)
    BY IndexGains DEF Inserted, SoundContents
<1>3. IsFiniteSet(N) /\ Cardinality(N) = Cardinality(M) + 1
    BY <1>1, FS_AddElement
<1>4. Cardinality(Conversations(N)) = Cardinality(Conversations(M)) + new_one
    <2>1. Conversations(N) = Conversations(M) \cup {c}
        BY DEF Conversations
    <2>2. IsFiniteSet(Conversations(M)) /\ Cardinality(Conversations(M)) \in Nat
        BY <1>1, ConversationsFinite
    <2> DEFINE C == Conversations(M)
    <2>3. C \cup {c} = Conversations(N) /\ IsFiniteSet(C) /\ Cardinality(C) \in Nat
          /\ DOMAIN s.conversations = C
        BY <1>1, <2>1, <2>2
    <2> HIDE DEF C, N, c
    <2>4. Cardinality(C \cup {c}) = IF c \in C THEN Cardinality(C) ELSE Cardinality(C) + 1
        BY <2>3, FS_AddElement
    <2>5. Cardinality(Conversations(N)) = Cardinality(C) + new_one
        BY <2>3, <2>4
    <2> QED
        BY <2>5 DEF C
<1>5. /\ r.stats \in StoreStats /\ r.stats.total_messages = Cardinality(N)
      /\ r.stats.unique_conversations = Cardinality(Conversations(N))
    <2>1. new_one \in Nat /\ Cardinality(Conversations(M)) \in Nat
        BY <1>1, ConversationsFinite
    <2> HIDE DEF new_one, r, N, M
    <2>2. r.stats = Counts(s.stats, Cardinality(N), Cardinality(Conversations(N)))
        BY <1>1, <1>2, <1>3, <1>4, Zenon
    <2>3. Cardinality(N) \in Nat /\ Cardinality(Conversations(N)) \in Nat
        BY <1>3, FS_CardinalityType, ConversationsFinite
    <2>4. s.stats \in StoreStats
        BY <1>1
    <2>5. PICK size, number : size = Cardinality(N) /\ number = Cardinality(Conversations(N))
        OBVIOUS
    <2>6. size \in Nat /\ number \in Nat /\ r.stats = Counts(s.stats, size, number)
        BY <2>2, <2>3, <2>5
    <2>7. PICK st \in StoreStats : st = s.stats
        BY <2>4
    <2>8. /\ Counts(st, size, number) \in StoreStats
          /\ Counts(st, size, number).total_messages = size
          /\ Counts(st, size, number).unique_conversations = number
        BY <2>6, StatsUpdate
    <2> QED
        BY <2>5, <2>6, <2>7, <2>8
<1>6. WithinLimits(N)
    <2>1. Cardinality(N) <= MaxTotal
        BY <1>1, <1>3, StoreAssumption
    <2>2. ASSUME NEW o \in N
          PROVE  Cardinality(Conversation(N, conversation_id(o))) <= MaxConversation
        <3>1. CASE conversation_id(o) = c
            <4>1. Conversation(N, c) = Conversation(M, c) \cup {m} /\ m \notin Conversation(M, c)
                BY DEF Conversation
            <4>2. IsFiniteSet(Conversation(M, c))
                BY <1>1, FS_Subset DEF Conversation
            <4>3. Cardinality(Conversation(N, c)) = Cardinality(Conversation(M, c)) + 1
                BY <4>1, <4>2, FS_AddElement
            <4>4. Cardinality(Conversation(M, c)) < MaxConversation
                BY ConversationLength
            <4>5. Cardinality(Conversation(M, c)) \in Nat
                BY <4>2, FS_CardinalityType
            <4> QED
                BY <4>3, <4>4, <4>5, <3>1, StoreAssumption
        <3>2. CASE conversation_id(o) # c
            <4>1. o \in M
                BY <3>2
            <4>2. Conversation(N, conversation_id(o)) = Conversation(M, conversation_id(o))
                BY <3>2 DEF Conversation
            <4> QED
                BY <4>1, <4>2, <1>1 DEF WithinLimits
        <3> QED
            BY <3>1, <3>2
    <2> QED
        BY <2>1, <2>2 DEF WithinLimits
<1>7. N \in SUBSET AllMessages
    BY <1>1
<1> HIDE DEF r, N
<1>8. SoundContents(r)
    BY <1>2, <1>3, <1>5, <1>6, <1>7 DEF SoundContents
<1> QED
    BY <1>2, <1>8 DEF r, N

LEMMA StoreInitInv == StoreInit => StoreInv
<1> SUFFICES ASSUME StoreInit PROVE StoreInv
    OBVIOUS
<1>1. Conversations({}) = {} /\ Timestamps({}) = {}
    BY DEF Conversations, Timestamps
<1>2. Contents.conversations = ConversationIndex({}) /\ Contents.time_index = TimeIndex({})
    BY <1>1 DEF StoreInit, Contents, ConversationIndex, TimeIndex
<1>3. WithinLimits({})
    BY FS_EmptySet, StoreAssumption DEF WithinLimits
<1>4. /\ Contents.messages = {} /\ Contents.stats \in StoreStats
      /\ Contents.stats.total_messages = 0 /\ Contents.stats.unique_conversations = 0
    BY DEF StoreInit, Contents, StoreStats
<1>5. clock \in MillisFrom .. MaxClock
    BY StoreAssumption DEF StoreInit
<1> QED
    BY <1>1, <1>2, <1>3, <1>4, <1>5, FS_EmptySet DEF StoreInv, SoundContents

\* What enforce_capacity_limits leaves: the messages, or those not yet old.
LEMMA CleanedSound ==
    ASSUME StoreInv
    PROVE  /\ SoundContents(Cleaned)
           /\ Cleaned.messages = IF AtCapacity THEN messages \ Old ELSE messages
<1>1. SoundContents(Contents) /\ Contents.messages = messages
    BY DEF StoreInv, Contents
<1>2. Old \in SUBSET Contents.messages
    BY <1>1 DEF Old
<1> QED
    BY <1>1, <1>2, RemoveSound DEF Cleaned, cleanup_old_messages

\* Room is what the message that comes in finds: fewer messages than the limit
\* before it is added, whether or not some had to go.
LEMMA RoomMade ==
    ASSUME StoreInv, NEW m, enforce_capacity_limits(Cleaned, m)
    PROVE  Cardinality(Cleaned.messages) < MaxTotal
<1>1. /\ IsFiniteSet(messages) /\ store_stats.total_messages = Cardinality(messages)
      /\ Cardinality(messages) <= MaxTotal /\ Cardinality(messages) \in Nat
    BY FS_CardinalityType DEF StoreInv, SoundContents, Contents, WithinLimits
<1>2. CASE ~AtCapacity
    BY <1>1, <1>2, CleanedSound, StoreAssumption DEF AtCapacity
<1>3. CASE AtCapacity
    <2>1. Old # {} /\ Old \in SUBSET messages
        BY <1>3 DEF enforce_capacity_limits, Old
    <2>2. /\ Cardinality(messages) = Cardinality(messages \ Old) + Cardinality(Old)
          /\ Cardinality(messages \ Old) \in Nat /\ Cardinality(Old) \in Nat /\ IsFiniteSet(Old)
        BY <1>1, <2>1, CardinalitySplit
    <2>3. Cardinality(Old) # 0
        BY <2>1, <2>2, FS_EmptySet
    <2>4. Cleaned.messages = messages \ Old
        BY <1>3, CleanedSound
    <2> QED
        BY <1>1, <2>2, <2>3, <2>4, StoreAssumption
<1> QED
    BY <1>2, <1>3

\* What store_message does with a message that can be built: nothing but a
\* counter changes, or old messages go and it may come in.
Takes(m) ==
    /\ m \notin messages
    /\ Put(IF enforce_capacity_limits(Cleaned, m) THEN Inserted(Cleaned, m) ELSE Cleaned)

LEMMA TakesSound ==
    ASSUME StoreInv, NEW m \in AllMessages, Takes(m), UNCHANGED clock
    PROVE  /\ StoreInv'
           /\ IF enforce_capacity_limits(Cleaned, m)
              THEN messages' = Cleaned.messages \cup {m} ELSE messages' = Cleaned.messages
<1>1. SoundContents(Cleaned) /\ m \notin Cleaned.messages
    BY CleanedSound DEF Takes
<1> DEFINE r == IF enforce_capacity_limits(Cleaned, m) THEN Inserted(Cleaned, m) ELSE Cleaned
<1>2. SoundContents(r) /\ r.messages = IF enforce_capacity_limits(Cleaned, m)
                                       THEN Cleaned.messages \cup {m} ELSE Cleaned.messages
    <2>1. CASE enforce_capacity_limits(Cleaned, m)
        <3>1. Cardinality(Cleaned.messages) < MaxTotal
            BY <2>1, RoomMade
        <3>2. InConversation(Cleaned, conversation_id(m)) < MaxConversation
            BY <2>1 DEF enforce_capacity_limits
        <3> QED
            BY <1>1, <2>1, <3>1, <3>2, InsertSound
    <2>2. CASE ~enforce_capacity_limits(Cleaned, m)
        BY <1>1, <2>2
    <2> QED
        BY <2>1, <2>2
<1>3. /\ messages' = r.messages /\ conversations' = r.conversations
      /\ time_index' = r.time_index /\ store_stats' = r.stats
    BY DEF Takes, Put
<1> HIDE DEF r
<1>4. /\ Contents'.messages = r.messages /\ Contents'.conversations = r.conversations
      /\ Contents'.time_index = r.time_index /\ Contents'.stats = r.stats
    BY <1>3 DEF Contents
<1>5. SoundContents(Contents')
    BY <1>2, <1>4 DEF SoundContents
<1> QED
    BY <1>2, <1>3, <1>5 DEF StoreInv, r

\* A message that passes verify_integrity was not tampered with.
LEMMA IntactIsBuilt ==
    ASSUME NEW t, NEW b \in Built(t), NEW m \in Tampered(b), verify_integrity(m)
    PROVE  m = b
<1>1. PICK s, r, n, c : b = from_metadata(s, r, c, n, t)
    BY DEF Built
<1>2. PICK d \in Content : m = [b EXCEPT !.content = d]
    BY DEF Tampered
<1>3. /\ b = [id |-> <<s, r, c, Normalized(t), n>>, sender |-> s, recipient |-> r, content |-> c,
              timestamp |-> Normalized(t), sequence |-> n]
      /\ m = [id |-> <<s, r, c, Normalized(t), n>>, sender |-> s, recipient |-> r, content |-> d,
              timestamp |-> Normalized(t), sequence |-> n]
    BY <1>1, <1>2 DEF from_metadata
<1>4. <<s, r, c, Normalized(t), n>> = <<s, r, d, Normalized(t), n>>
    BY <1>3 DEF verify_integrity, compute_id
<1> QED
    BY <1>3, <1>4

CountsRefusal ==
    /\ UNCHANGED <<messages, conversations, time_index, clock>>
    /\ Counted("integrity_failures") \/ Counted("deduplication_saves")

LEMMA StoreSteps ==
    ASSUME StoreInv, StoreNext
    PROVE  \/ CountsRefusal
           \/ \E m \in AllMessages : Takes(m) /\ UNCHANGED clock
           \/ StoreTick
<1>1. ASSUME NEW m, store_message(m), verify_integrity(m) => m \in AllMessages
      PROVE  CountsRefusal \/ \E o \in AllMessages : Takes(o) /\ UNCHANGED clock
    <2>1. UNCHANGED clock
        BY <1>1 DEF store_message
    <2>2. CASE Counted("integrity_failures") \/ Counted("deduplication_saves")
        BY <2>1, <2>2 DEF CountsRefusal, Counted
    <2>3. CASE verify_integrity(m) /\ Takes(m)
        BY <1>1, <2>1, <2>3
    <2> QED
        BY <1>1, <2>2, <2>3 DEF store_message, Takes
<1>2. ASSUME NEW m \in Built(clock), store_message(m)
      PROVE  m \in AllMessages
    BY <1>2 DEF AllMessages, StoreInv
<1>3. ASSUME NEW t \in SuppliedTime, NEW b \in Built(t), NEW m \in Tampered(b), verify_integrity(m)
      PROVE  m \in AllMessages
    BY <1>3, IntactIsBuilt DEF AllMessages
<1> QED
    BY <1>1, <1>2, <1>3 DEF StoreNext

LEMMA CountingSound ==
    ASSUME StoreInv, CountsRefusal
    PROVE  StoreInv'
<1>1. PICK k \in {"integrity_failures", "deduplication_saves"} : Counted(k)
    BY DEF CountsRefusal
<1>2. store_stats \in StoreStats /\ store_stats' = [store_stats EXCEPT ![k] = @ + 1]
    BY <1>1 DEF StoreInv, SoundContents, Contents, Counted
<1>3. /\ store_stats' \in StoreStats
      /\ store_stats'.total_messages = store_stats.total_messages
      /\ store_stats'.unique_conversations = store_stats.unique_conversations
    BY <1>2 DEF StoreStats
<1>4. /\ Contents'.messages = Contents.messages /\ Contents'.conversations = Contents.conversations
      /\ Contents'.time_index = Contents.time_index /\ clock' = clock
      /\ Contents.stats = store_stats /\ Contents'.stats = store_stats'
    BY DEF Contents, CountsRefusal
<1>5. SoundContents(Contents')
    BY <1>3, <1>4 DEF StoreInv, SoundContents
<1> QED
    BY <1>4, <1>5 DEF StoreInv

LEMMA StoreNextInv == StoreInv /\ [StoreNext]_storeVars => StoreInv'
<1> SUFFICES ASSUME StoreInv, [StoreNext]_storeVars PROVE StoreInv'
    OBVIOUS
<1>1. CASE UNCHANGED storeVars
    BY <1>1 DEF StoreInv, storeVars, Contents
<1>2. CASE CountsRefusal
    BY <1>2, CountingSound
<1>3. ASSUME NEW m \in AllMessages, Takes(m), UNCHANGED clock PROVE StoreInv'
    BY <1>3, TakesSound
<1>4. CASE StoreTick
    <2>1. Contents' = Contents
        BY <1>4 DEF StoreTick, Contents
    <2>2. clock' \in MillisFrom .. MaxClock
        BY <1>4, StoreAssumption DEF StoreTick, StoreInv
    <2> QED
        BY <2>1, <2>2 DEF StoreInv
<1> QED
    BY <1>1, <1>2, <1>3, <1>4, StoreSteps

\* The contents of the store stay sound whatever is stored, refused or expires.
THEOREM StoreInvariance == StoreSpec => []StoreInv
<1> QED
    BY StoreInitInv, StoreNextInv, PTL DEF StoreSpec

LEMMA QueriesAnswer ==
    ASSUME StoreInv
    PROVE  IndicesAgree /\ QueriesComplete
<1>1. /\ messages \in SUBSET AllMessages /\ IsFiniteSet(messages)
      /\ conversations = ConversationIndex(messages) /\ time_index = TimeIndex(messages)
      /\ store_stats.total_messages = Cardinality(messages)
      /\ store_stats.unique_conversations = Cardinality(Conversations(messages))
    BY DEF StoreInv, SoundContents, Contents
<1>2. IndicesAgree
    BY <1>1 DEF IndicesAgree, ConversationIndex, TimeIndex
<1>3. \A m \in messages : m.timestamp \in Nat /\ m.sequence \in Nat
    BY <1>1, MessageIs
<1>4. \A m, o \in messages : m.id = o.id => m = o
    BY <1>1, SameId
<1>5. ASSUME NEW c \in Conversations(messages)
      PROVE  SortedFrom(get_conversation_messages(c), Conversation(messages, c))
    <2>1. Ids(conversations[c]) = {m.id : m \in Conversation(messages, c)}
        <3>1. conversations[c] = {<<m.id, 1>> : m \in Conversation(messages, c)}
            BY <1>1 DEF ConversationIndex
        <3> QED
            BY <3>1, ListIds
    <2>2. Stored(Ids(conversations[c])) = Conversation(messages, c)
        BY <1>4, <2>1 DEF Stored, Conversation
    <2>3. c \in DOMAIN conversations
        BY <1>1 DEF ConversationIndex
    <2>4. IsFiniteSet(Conversation(messages, c))
        BY <1>1, FS_Subset DEF Conversation
    <2>5. \A m \in Conversation(messages, c) : m.timestamp \in Nat /\ m.sequence \in Nat
        BY <1>3 DEF Conversation
    <2> QED
        BY <2>2, <2>3, <2>4, <2>5, SortedIs DEF get_conversation_messages
<1>6. ASSUME NEW from \in Timestamps(messages), NEW to \in Timestamps(messages), from <= to
      PROVE  LET between == {m \in messages : from <= m.timestamp /\ m.timestamp <= to}
             IN  /\ SortedFrom(get_messages_in_range(from, to), between)
                 /\ Len(get_messages_in_range(from, to)) = Cardinality(between)
    <2> DEFINE between == {m \in messages : from <= m.timestamp /\ m.timestamp <= to}
               span == {u \in DOMAIN time_index : from <= u /\ u <= to}
               ids == UNION {Ids(time_index[t]) : t \in span}
    <2>1. \A t \in Timestamps(messages) :
              Ids(time_index[t]) = {m.id : m \in {x \in messages : x.timestamp = t}}
        <3>1. \A t \in Timestamps(messages) :
                  time_index[t] = {<<m.id, 1>> : m \in {x \in messages : x.timestamp = t}}
            BY <1>1 DEF TimeIndex
        <3> QED
            BY <3>1, ListIds
    <2>2. DOMAIN time_index = Timestamps(messages)
        BY <1>1 DEF TimeIndex
    <2>3. ids = {m.id : m \in between}
        <3>1. ASSUME NEW m \in between PROVE m.id \in ids
            <4>1. m.timestamp \in span /\ m.timestamp \in Timestamps(messages)
                BY <2>2 DEF Timestamps
            <4>2. m.id \in Ids(time_index[m.timestamp])
                BY <2>1, <4>1
            <4> QED
                BY <4>1, <4>2
        <3>2. ASSUME NEW i \in ids PROVE \E m \in between : i = m.id
            <4>1. PICK t \in span : i \in Ids(time_index[t])
                OBVIOUS
            <4>2. t \in Timestamps(messages)
                BY <2>2
            <4>3. PICK m \in messages : m.timestamp = t /\ i = m.id
                BY <2>1, <4>1, <4>2
            <4> QED
                BY <4>3
        <3> HIDE DEF ids, between
        <3> QED
            BY <3>1, <3>2
    <2>4. Stored(ids) = between
        <3> HIDE DEF ids
        <3> QED
            BY <1>4, <2>3 DEF Stored
    <2>5. IsFiniteSet(between) /\ \A m \in between : m.timestamp \in Nat /\ m.sequence \in Nat
        BY <1>1, <1>3, FS_Subset
    <2>6. get_messages_in_range(from, to) = Sorted(between)
        <3>1. ~(from > to)
            BY <1>3, <1>6 DEF Timestamps
        <3> QED
            BY <2>4, <3>1, Zenon DEF get_messages_in_range
    <2> HIDE DEF between
    <2>7. SortedFrom(Sorted(between), between) /\ Len(Sorted(between)) = Cardinality(between)
        BY <2>5, SortedIs
    <2>8. /\ SortedFrom(get_messages_in_range(from, to), between)
          /\ Len(get_messages_in_range(from, to)) = Cardinality(between)
        BY <2>6, <2>7
    <2> QED
        BY <2>8 DEF between
<1> QED
    BY <1>2, <1>5, <1>6 DEF QueriesComplete

\* Indices and counters describe the messages and nothing else, and both
\* queries answer with exactly the messages asked for, earliest first, unless the
\* span asked for ends before it starts (store_message, remove_message_completely, get_conversation_messages,
\* get_messages_in_range).
THEOREM StoreIsSound == StoreSpec => []StoreSound
<1>1. StoreInv => StoreSound
    BY QueriesAnswer DEF StoreSound
<1> QED
    BY <1>1, StoreInvariance, PTL

LEMMA StoreInitLog == StoreInit => Log!LogInit
    BY StoreAssumption DEF StoreInit, Log!LogInit

LEMMA OldIsExpired ==
    ASSUME StoreInv, NEW m \in Old
    PROVE  BeforeCutoff(m, clock - MillisFrom)
<1>1. clock \in Nat /\ clock - MillisFrom + MillisFrom = clock
    BY StoreAssumption DEF StoreInv
<1>2. m \in AllMessages
    BY DEF Old, StoreInv, SoundContents, Contents
<1>3. m.timestamp \in Nat
    BY <1>2, MessageIs
<1>4. clock \div Millis \in Nat
    BY <1>1, StoreAssumption
<1> DEFINE seconds == clock \div Millis
<1>5. m.timestamp < IF seconds > MaxMessageAge THEN seconds - MaxMessageAge ELSE 0
    BY DEF Old, Cutoff
<1> HIDE DEF seconds
<1>6. m.timestamp < seconds - MaxMessageAge
    BY <1>3, <1>4, <1>5, StoreAssumption DEF seconds
<1> QED
    BY <1>1, <1>6 DEF BeforeCutoff, seconds

LEMMA StoreNextLog ==
    ASSUME StoreInv, [StoreNext]_storeVars
    PROVE  [Log!Keep \/ Log!Refuse \/ Log!LogTick]_<<messages, clock - MillisFrom>>
<1> DEFINE time == clock - MillisFrom
           expired == {m \in messages : BeforeCutoff(m, time)}
<1>1. CASE UNCHANGED storeVars \/ CountsRefusal
    BY <1>1 DEF storeVars, CountsRefusal
<1>2. ASSUME NEW m \in AllMessages, Takes(m), UNCHANGED clock PROVE Log!Keep \/ Log!Refuse
    <2> DEFINE gone == messages \ Cleaned.messages
    <2>1. gone \in SUBSET expired /\ Cleaned.messages = messages \ gone
        <3>1. Cleaned.messages = (IF AtCapacity THEN messages \ Old ELSE messages)
            BY CleanedSound
        <3>2. \A x \in Old : x \in expired
            BY OldIsExpired DEF Old
        <3> QED
            BY <3>1, <3>2
    <2>2. time' = time
        BY <1>2
    <2>3. WithinLimits(messages')
        BY <1>2, TakesSound DEF StoreInv, SoundContents, Contents
    <2>4. m \in AllMessages \ messages
        BY <1>2 DEF Takes
    <2> HIDE DEF gone, expired
    <2>5. CASE messages' = Cleaned.messages \cup {m}
        <3>1. messages' = (messages \ gone) \cup {m}
            BY <2>1, <2>5
        <3>2. Log!Keep
            BY <3>1, <2>1, <2>2, <2>3, <2>4 DEF Log!Keep, expired
        <3> QED
            BY <3>2
    <2>6. CASE messages' = Cleaned.messages
        <3>1. messages' = messages \ gone
            BY <2>1, <2>6
        <3>2. Log!Refuse
            BY <3>1, <2>1, <2>2 DEF Log!Refuse, expired
        <3> QED
            BY <3>2
    <2> QED
        BY <1>2, <2>5, <2>6, TakesSound
<1>3. CASE StoreTick
    <2>1. Log!LogTick
        BY <1>3, StoreAssumption DEF StoreTick, StoreInv, Log!LogTick
    <2> QED
        BY <2>1
<1> QED
    BY <1>1, <1>2, <1>3, StoreSteps

\* The store is a bounded log: every step of it keeps a message, refuses one or
\* lets time pass as MessageLog allows, for any limits and any messages.
THEOREM StoreImplementsLog == StoreSpec => ImplementsLog
<1>1. StoreInv /\ [StoreNext]_storeVars
          => [Log!Keep \/ Log!Refuse \/ Log!LogTick]_<<messages, clock - MillisFrom>>
    BY StoreNextLog
<1> QED
    BY <1>1, StoreInitLog, StoreInvariance, PTL DEF StoreSpec, ImplementsLog, Log!LogSpec

-----------------------------------------------------------------------------
(* Delivery and receipts *)

LEMMA LesserOf ==
    ASSUME NEW a \in Int, NEW b \in Int
    PROVE  Min({a, b}) = IF a <= b THEN a ELSE b
    BY DEF Min

LEMMA GreaterOf ==
    ASSUME NEW a \in Int, NEW b \in Int
    PROVE  Max({a, b}) = IF a <= b THEN b ELSE a
    BY DEF Max

\* Every delay that is recorded is a number under its cap.
LEMMA DelayBounded ==
    ASSUME config \in Configs, NEW n \in 0 .. config.max_retries
    PROVE  RetryDelay(n) \in 0 .. config.max_retry_delay
<1>1. config.initial_retry_delay \in Nat /\ config.max_retry_delay \in Nat
    BY DeliveryAssumption
<1>2. Power(config.backoff_multiplier, n) \in Nat
    BY PowerAssumption
<1>3. ASSUME NEW a \in Nat, NEW b \in Nat, NEW m \in Nat
      PROVE  Min({a * b, m}) \in 0 .. m
    <2>1. a * b \in Nat
        OBVIOUS
    <2> QED BY <2>1, LesserOf
<1> QED
    BY <1>1, <1>2, <1>3 DEF RetryDelay

Attempt == [at : 0 .. MaxTime, delay : 0 .. config.max_retry_delay]

\* Attempts of the past, each after the delay that was due.
Spaced(h) ==
    /\ \A i \in 1 .. Len(h) : h[i].at <= now /\ h[i].delay = RetryDelay(i - 1)
    /\ \A i \in 1 .. Len(h) - 1 : h[i + 1].at - h[i].at >= RetryDelay(i - 1)

AttemptsOK(u) ==
    Len(tracked[u].attempts) <= Max({1, config.max_retries}) /\ Spaced(tracked[u].attempts)

TrackedIsMap == DOMAIN tracked = Uuid /\ tracked = [u \in Uuid |-> tracked[u]]

\* What a sender has been told, and what it has been told about.
SenderOK ==
    /\ TrackedIsMap
    /\ \A u \in fresh : tracked[u] = NoMessage
    /\ \A u \in Tracked : mapping[u] # NoId
    /\ acked \cap fresh = {} /\ reported \cap fresh = {}
    /\ \A u \in acked : tracked[u].status \in {"None", "Confirmed", "Failed"}
    /\ \A u \in Uuid : tracked[u].status = "Confirmed" => mapping[u] \in shown["ack"]
    /\ \A u \in Uuid : statuses[u] = "Delivered" => mapping[u] \in shown["ack"]
    /\ \A u \in Uuid : statuses[u] = "Read" => mapping[u] \in shown["read"]
    /\ ReportedIsFinal

\* Receipts on the wire were earned, and one that was not sent was not counted.
ReceiptsOK ==
    /\ \A k \in Receipt, id \in MsgId : ReceiptFor(k, id) \in wire => id \in shown[k]
    /\ \A k \in Receipt, id \in MsgId : id \notin sent[k] => issued[k][id] = 0
    /\ NoDuplicateReceipts

DeliveryInv ==
    /\ TypeOK /\ SenderOK /\ ReceiptsOK
    /\ \A u \in Tracked : AttemptsOK(u)

LEMMA DeliveryInitInv == Init => DeliveryInv
<1> SUFFICES ASSUME Init PROVE DeliveryInv
    OBVIOUS
<1>1. TypeOK
    BY DeliveryAssumption DEF Init, TypeOK, Tracked, Receipt
<1>2. SenderOK
    BY DEF Init, SenderOK, TrackedIsMap, ReportedIsFinal, NoMessage, Receipt, Tracked
<1>3. ReceiptsOK
    BY DEF Init, ReceiptsOK, NoDuplicateReceipts
<1>4. Tracked = {}
    BY DEF Init, Tracked
<1> QED BY <1>1, <1>2, <1>3, <1>4 DEF DeliveryInv

LEMMA DeliveryInvSound == DeliveryInv => DeliverySound
<1> SUFFICES ASSUME DeliveryInv PROVE DeliverySound
    OBVIOUS
<1>1. ReceiptsTruthful
    BY DEF DeliveryInv, SenderOK, ReceiptsTruthful
<1>2. AckedNotRetried
    <2> SUFFICES ASSUME NEW u \in acked, MayTransmit(u) PROVE FALSE
        BY DEF AckedNotRetried
    <2>1. tracked[u].status \in {"None", "Confirmed", "Failed"}
        BY DEF DeliveryInv, SenderOK
    <2>2. tracked[u].status \in {"Pending", "Sent"}
        BY DEF MayTransmit, is_ready_for_retry, can_retry
    <2> QED BY <2>1, <2>2
<1>3. BackoffKept
    BY DEF DeliveryInv, AttemptsOK, Spaced, BackoffKept
<1> QED BY <1>1, <1>2, <1>3 DEF DeliveryInv, DeliverySound, SenderOK, ReceiptsOK

LEMMA DelaysStand ==
    ASSUME UNCHANGED config, NEW n
    PROVE  RetryDelay(n)' = RetryDelay(n)
    BY DEF RetryDelay

\* A history that is left alone stays one as time goes on.
LEMMA AttemptsStand ==
    ASSUME NEW u, AttemptsOK(u), tracked[u] \in Message, tracked'[u].attempts = tracked[u].attempts,
           UNCHANGED config, now \in Nat, now' \in Nat, now <= now'
    PROVE  AttemptsOK(u)'
<1>1. \A n : RetryDelay(n)' = RetryDelay(n)
    BY DelaysStand
<1>2. \A i \in 1 .. Len(tracked[u].attempts) : tracked[u].attempts[i].at \in Nat
    <2>1. tracked[u].attempts \in Seq(Attempt)
        BY DEF Message, Attempt
    <2>2. \A a \in Attempt : a.at \in Nat
        BY DEF Attempt
    <2> QED BY <2>1, <2>2
<1>3. \A i \in 1 .. Len(tracked[u].attempts) : tracked[u].attempts[i].at <= now'
    BY <1>2 DEF AttemptsOK, Spaced
<1> QED BY <1>1, <1>3 DEF AttemptsOK, Spaced

\* Steps that leave the recipient alone and send no receipt.
LEMMA NoReceiptSent ==
    ASSUME ReceiptsOK, UNCHANGED recipient,
           \A k \in Receipt, id \in MsgId : ReceiptFor(k, id) \in wire' => ReceiptFor(k, id) \in wire
    PROVE  ReceiptsOK'
    BY DEF ReceiptsOK, recipient, NoDuplicateReceipts

LEMMA TrackOK ==
    ASSUME DeliveryInv, NEW u \in Uuid, NEW id \in MsgId, track_message_with_id(u, id)
    PROVE  DeliveryInv'
<1> USE DEF DeliveryInv
<1> DEFINE m == [status |-> "Pending", attempts |-> <<>>, created_at |-> now]
<1>1. /\ u \in fresh /\ fresh' = fresh \ {u}
      /\ tracked' = [tracked EXCEPT ![u] = m]
      /\ mapping' = [mapping EXCEPT ![u] = id]
      /\ statuses' = [statuses EXCEPT ![u] = "Sending"]
      /\ UNCHANGED recipient /\ UNCHANGED <<config, wire, now, acked, reported>>
    BY DEF track_message_with_id
<1>2. m \in Message /\ m # NoMessage /\ m.status = "Pending" /\ m.attempts = <<>>
    BY DEF Message, NoMessage, TypeOK
<1> HIDE DEF m
<1>3. DOMAIN tracked = Uuid /\ tracked = [w \in Uuid |-> tracked[w]]
    BY DEF SenderOK, TrackedIsMap
<1>4. tracked'[u] = m /\ \A w \in Uuid \ {u} : tracked'[w] = tracked[w]
    BY <1>1, <1>3
<1>5. Message' = Message
    BY <1>1 DEF Message
<1>6. TypeOK'
    <2>1. \A w \in Tracked' : tracked'[w] \in Message
        BY <1>2, <1>4 DEF TypeOK, Tracked
    <2> QED BY <1>1, <1>5, <2>1 DEF TypeOK, recipient
<1>7. SenderOK'
    <2>1. u \notin acked /\ u \notin reported
        BY <1>1 DEF SenderOK
    <2>2. ReportedIsFinal'
        BY <1>1, <1>4, <2>1 DEF SenderOK, ReportedIsFinal, TypeOK
    <2>3. TrackedIsMap'
        BY <1>1, <1>3 DEF TrackedIsMap
    <2>4. \A w \in fresh' : tracked'[w] = NoMessage
        BY <1>1, <1>4 DEF SenderOK, TypeOK
    <2>5. \A w \in acked' : tracked'[w].status \in {"None", "Confirmed", "Failed"}
        BY <1>1, <1>4, <2>1 DEF SenderOK, TypeOK
    <2>6. \A w \in Uuid : tracked'[w].status = "Confirmed" => mapping'[w] \in shown'["ack"]
        BY <1>1, <1>2, <1>4 DEF SenderOK, TypeOK, recipient
    <2>7. /\ \A w \in Uuid : statuses'[w] = "Delivered" => mapping'[w] \in shown'["ack"]
          /\ \A w \in Uuid : statuses'[w] = "Read" => mapping'[w] \in shown'["read"]
        BY <1>1 DEF SenderOK, TypeOK, recipient
    <2>8. acked' \cap fresh' = {} /\ reported' \cap fresh' = {}
        BY <1>1 DEF SenderOK
    <2>9. \A w \in Tracked' : mapping'[w] # NoId
        BY <1>1, <1>4, DeliveryAssumption DEF SenderOK, TypeOK, Tracked, NoId
    <2> QED BY <2>2, <2>3, <2>4, <2>5, <2>6, <2>7, <2>8, <2>9 DEF SenderOK
<1>8. ReceiptsOK'
    BY <1>1, NoReceiptSent
<1>9. ASSUME NEW w \in Tracked' PROVE AttemptsOK(w)'
    <2>1. CASE w = u
        <3>1. tracked'[w].attempts = <<>>
            BY <1>2, <1>4, <2>1
        <3>2. config'.max_retries \in Nat
            BY <1>1, DeliveryAssumption DEF TypeOK
        <3>3. 0 <= Max({1, config'.max_retries})
            BY <3>2, GreaterOf
        <3> QED BY <3>1, <3>3 DEF AttemptsOK, Spaced
    <2>2. CASE w # u
        <3>1. w \in Tracked /\ tracked'[w] = tracked[w]
            BY <1>4, <2>2 DEF Tracked
        <3> QED BY <1>1, <3>1, AttemptsStand DEF TypeOK
    <2> QED BY <2>1, <2>2
<1> QED BY <1>6, <1>7, <1>8, <1>9

\* A message that is tracked gets a status, and perhaps one more attempt.
LEMMA UpdateOK ==
    ASSUME DeliveryInv, NEW u \in Tracked, NEW st \in {"Sent", "Confirmed", "Failed"},
           NEW old \in Seq(Attempt), Updated(u, st, old),
           UNCHANGED recipient, UNCHANGED <<config, now, mapping, fresh, reported>>,
           \A k \in Receipt, id \in MsgId : ReceiptFor(k, id) \in wire' => ReceiptFor(k, id) \in wire,
           wire' \subseteq [type : {"message", "ack", "read"}, id : MsgId],
           st = "Confirmed" => mapping[u] \in shown["ack"],
           \/ statuses' = statuses
           \/ statuses' = [statuses EXCEPT ![u] = "Delivered"] /\ st = "Confirmed",
           \/ acked' = acked /\ (st = "Sent" => u \notin acked)
           \/ acked' = acked \cup {u} /\ st = "Confirmed",
           AttemptsOK(u)'
    PROVE  DeliveryInv'
<1> USE DEF DeliveryInv
<1> DEFINE m == [status |-> st, attempts |-> old, created_at |-> tracked[u].created_at]
<1>1. tracked' = [tracked EXCEPT ![u] = m] /\ u \in Uuid
    BY DEF Updated, Tracked
<1>2. m \in Message /\ m # NoMessage /\ m.status = st
    BY DEF Message, NoMessage, TypeOK, Attempt
<1> HIDE DEF m
<1>3. DOMAIN tracked = Uuid /\ tracked = [w \in Uuid |-> tracked[w]]
    BY DEF SenderOK, TrackedIsMap
<1>4. tracked'[u] = m /\ \A w \in Uuid \ {u} : tracked'[w] = tracked[w]
    BY <1>1, <1>3
<1>5. Message' = Message
    BY DEF Message
<1>6. TypeOK'
    <2>1. \A w \in Tracked' : tracked'[w] \in Message
        BY <1>2, <1>4 DEF TypeOK, Tracked
    <2>2. statuses' \in [Uuid -> {"None", "Sending", "Delivered", "Read"}] /\ acked' \subseteq Uuid
        BY <1>1 DEF TypeOK
    <2> QED BY <1>5, <2>1, <2>2 DEF TypeOK, recipient
<1>7. SenderOK'
    <2>1. u \notin fresh /\ u \notin reported
        BY <1>1 DEF SenderOK, Tracked, ReportedIsFinal
    <2>2. ReportedIsFinal'
        BY <1>4, <2>1 DEF SenderOK, ReportedIsFinal, TypeOK
    <2>3. TrackedIsMap'
        BY <1>1, <1>3 DEF TrackedIsMap
    <2>4. \A w \in fresh' : tracked'[w] = NoMessage
        BY <1>4, <2>1 DEF SenderOK, TypeOK
    <2>5. \A w \in acked' : tracked'[w].status \in {"None", "Confirmed", "Failed"}
        <3>1. ASSUME u \in acked' PROVE st # "Sent"
            BY <3>1
        <3>2. \A w \in acked' \ {u} : w \in acked /\ w \in Uuid
            BY DEF TypeOK
        <3> QED BY <1>2, <1>4, <3>1, <3>2 DEF SenderOK
    <2>6. \A w \in Uuid : tracked'[w].status = "Confirmed" => mapping'[w] \in shown'["ack"]
        BY <1>2, <1>4 DEF SenderOK, TypeOK, recipient
    <2>7. /\ \A w \in Uuid : statuses'[w] = "Delivered" => mapping'[w] \in shown'["ack"]
          /\ \A w \in Uuid : statuses'[w] = "Read" => mapping'[w] \in shown'["read"]
        BY DEF SenderOK, TypeOK, recipient
    <2>8. acked' \cap fresh' = {} /\ reported' \cap fresh' = {}
        BY <2>1 DEF SenderOK
    <2>9. \A w \in Tracked' : mapping'[w] # NoId
        BY <1>4 DEF SenderOK, Tracked
    <2> QED BY <2>2, <2>3, <2>4, <2>5, <2>6, <2>7, <2>8, <2>9 DEF SenderOK
<1>8. ReceiptsOK'
    BY NoReceiptSent
<1>9. ASSUME NEW w \in Tracked' PROVE AttemptsOK(w)'
    <2>1. CASE w # u
        <3>1. w \in Tracked /\ tracked'[w] = tracked[w]
            BY <1>4, <2>1 DEF Tracked
        <3> QED BY <3>1, AttemptsStand DEF TypeOK
    <2> QED BY <2>1
<1> QED BY <1>6, <1>7, <1>8, <1>9

LEMMA LenIsNat ==
    ASSUME NEW S, NEW s \in Seq(S)
    PROVE  Len(s) \in Nat
    OBVIOUS

\* One more attempt, when the delay after the last has passed.
LEMMA OneMoreAttempt ==
    ASSUME NEW S, NEW old \in Seq(S), NEW a \in S, now \in Int,
           a.at = now, a.delay = RetryDelay(Len(old)),
           Len(old) > 0 => now - old[Len(old)].at >= old[Len(old)].delay,
           Spaced(old),
           NEW bs, bs = Append(old, a)
    PROVE  Len(bs) = Len(old) + 1 /\ Spaced(bs)
<1>0. PICK n \in Nat : n = Len(old)
    BY LenIsNat
<1>1. Len(bs) = n + 1 /\ bs[n + 1] = a /\ \A i \in 1 .. n : bs[i] = old[i]
    BY <1>0
<1>2. ASSUME NEW i \in 1 .. n + 1 PROVE bs[i].at <= now /\ bs[i].delay = RetryDelay(i - 1)
    <2>1. CASE i = n + 1
        <3>1. i - 1 = n
            BY <1>0, <2>1
        <3> QED BY <1>0, <1>1, <2>1, <3>1
    <2>2. CASE i # n + 1
        <3>1. i \in 1 .. n
            BY <1>0, <2>2
        <3> QED BY <1>0, <1>1, <3>1 DEF Spaced
    <2> QED BY <2>1, <2>2
<1>3. ASSUME NEW i \in 1 .. n PROVE bs[i + 1].at - bs[i].at >= RetryDelay(i - 1)
    <2>1. CASE i = n
        <3>1. bs[i + 1].at = now /\ bs[i] = old[n]
            BY <1>0, <1>1, <2>1
        <3>2. now - old[n].at >= old[n].delay /\ old[n].delay = RetryDelay(n - 1)
            BY <1>0, <2>1 DEF Spaced
        <3> QED BY <2>1, <3>1, <3>2
    <2>2. CASE i # n
        <3>1. i \in 1 .. n - 1 /\ i + 1 \in 1 .. n
            BY <1>0, <2>2
        <3> QED BY <1>0, <1>1, <3>1 DEF Spaced
    <2> QED BY <2>1, <2>2
<1>4. n + 1 - 1 = n
    BY <1>0
<1> QED BY <1>0, <1>1, <1>2, <1>3, <1>4 DEF Spaced

LEMMA MarkSentOK ==
    ASSUME DeliveryInv, NEW u \in Uuid, mark_sent(u)
    PROVE  DeliveryInv'
<1> PICK old : old = tracked[u].attempts
    OBVIOUS
<1> PICK a : a = [at |-> now, delay |-> RetryDelay(Len(old))]
    OBVIOUS
<1>1. /\ MayTransmit(u) /\ Updated(u, "Sent", Append(old, a))
      /\ wire' = wire \cup {Packet(mapping[u])}
      /\ UNCHANGED recipient /\ UNCHANGED <<config, mapping, statuses, now, fresh, acked, reported>>
    BY DEF mark_sent, next_retry_delay
<1>2. u \in Tracked /\ AttemptsOK(u) /\ tracked[u] \in Message
    BY <1>1 DEF MayTransmit, DeliveryInv, TypeOK
<1>3. old \in Seq(Attempt)
    BY <1>2 DEF Message, Attempt
<1>4. config \in Configs /\ config.max_retries \in Nat /\ now \in 0 .. MaxTime /\ MaxTime \in Nat
    BY DeliveryAssumption DEF DeliveryInv, TypeOK
<1>5. /\ old = <<>> \/ (Len(old) < config.max_retries /\ now - old[Len(old)].at >= old[Len(old)].delay)
      /\ tracked[u].status \in {"Pending", "Sent"}
    BY <1>1 DEF MayTransmit, is_ready_for_retry, can_retry
<1>6. Len(old) \in 0 .. config.max_retries /\ Len(old) + 1 <= Max({1, config.max_retries})
    <2>1. PICK n \in Nat : n = Len(old)
        BY <1>3
    <2>2. n = 0 \/ n < config.max_retries
        BY <1>5, <2>1
    <2>3. Max({1, config.max_retries}) = IF 1 <= config.max_retries THEN config.max_retries ELSE 1
        BY <1>4, GreaterOf
    <2> QED BY <1>4, <2>1, <2>2, <2>3
<1>7. a \in Attempt /\ a.at = now /\ a.delay = RetryDelay(Len(old))
    BY <1>4, <1>6, DelayBounded DEF Attempt
<1>8. Append(old, a) \in Seq(Attempt)
    BY <1>3, <1>7
<1>9. tracked'[u].attempts = Append(old, a)
    BY <1>1 DEF Updated, DeliveryInv, SenderOK, TrackedIsMap
<1>10. AttemptsOK(u)'
    <2>1. PICK S : old \in Seq(S) /\ a \in S
        BY <1>3, <1>7
    <2>2. Spaced(old) /\ now \in Int
        BY <1>2, <1>4 DEF AttemptsOK
    <2>3. Len(old) > 0 => now - old[Len(old)].at >= old[Len(old)].delay
        BY <1>5
    <2>4. PICK bs : bs = Append(old, a)
        OBVIOUS
    <2>5. Len(bs) = Len(old) + 1 /\ Spaced(bs)
        BY <1>7, <2>1, <2>2, <2>3, <2>4, OneMoreAttempt
    <2>6. Spaced(bs)'
        BY <1>1, <2>5 DEF Spaced, RetryDelay
    <2>7. tracked'[u].attempts = bs /\ config' = config
        BY <1>1, <1>9, <2>4
    <2> QED BY <1>6, <2>5, <2>6, <2>7 DEF AttemptsOK
<1>11. u \notin acked
    BY <1>5 DEF DeliveryInv, SenderOK
<1>12. mapping[u] \in MsgId
    BY <1>2 DEF DeliveryInv, SenderOK, TypeOK
<1>13. /\ wire' \subseteq [type : {"message", "ack", "read"}, id : MsgId]
       /\ \A k \in Receipt, id \in MsgId : ReceiptFor(k, id) \in wire' => ReceiptFor(k, id) \in wire
    BY <1>1, <1>12 DEF DeliveryInv, TypeOK, Packet, ReceiptFor, Receipt
<1> QED
    BY <1>1, <1>2, <1>8, <1>10, <1>11, <1>13, UpdateOK

LEMMA AckOK ==
    ASSUME DeliveryInv, NEW id \in MsgId, process_delivery_ack(id)
    PROVE  DeliveryInv'
<1>1. PICK u \in Named(id) \cap Tracked :
          /\ Updated(u, "Confirmed", tracked[u].attempts)
          /\ statuses' = [statuses EXCEPT ![u] = "Delivered"]
          /\ acked' = acked \cup {u}
    BY DEF process_delivery_ack
<1>2. /\ ReceiptFor("ack", id) \in wire
      /\ UNCHANGED recipient /\ UNCHANGED <<config, mapping, wire, now, fresh, reported>>
    BY DEF process_delivery_ack
<1>3. mapping[u] \in shown["ack"]
    BY <1>1, <1>2 DEF DeliveryInv, ReceiptsOK, Receipt, Named
<1>4. tracked[u] \in Message /\ AttemptsOK(u) /\ now \in Nat
    BY <1>1 DEF DeliveryInv, TypeOK
<1>5. tracked[u].attempts \in Seq(Attempt)
    BY <1>4 DEF Message, Attempt
<1>6. tracked'[u].attempts = tracked[u].attempts
    BY <1>1 DEF Updated, DeliveryInv, SenderOK, TrackedIsMap, Tracked
<1>7. AttemptsOK(u)'
    BY <1>2, <1>4, <1>6, AttemptsStand
<1>8. wire' \subseteq [type : {"message", "ack", "read"}, id : MsgId]
    BY <1>2 DEF DeliveryInv, TypeOK
<1> QED
    BY <1>1, <1>2, <1>3, <1>5, <1>7, <1>8, UpdateOK

LEMMA FailOK ==
    ASSUME DeliveryInv, NEW u \in Uuid, mark_failed(u)
    PROVE  DeliveryInv'
<1>1. /\ u \in Tracked /\ Updated(u, "Failed", tracked[u].attempts)
      /\ UNCHANGED recipient /\ UNCHANGED <<config, mapping, statuses, wire, now, fresh, acked, reported>>
    BY DEF mark_failed
<1>4. tracked[u] \in Message /\ AttemptsOK(u) /\ now \in Nat
    BY <1>1 DEF DeliveryInv, TypeOK
<1>5. tracked[u].attempts \in Seq(Attempt)
    BY <1>4 DEF Message, Attempt
<1>6. tracked'[u].attempts = tracked[u].attempts
    BY <1>1 DEF Updated, DeliveryInv, SenderOK, TrackedIsMap
<1>7. AttemptsOK(u)'
    BY <1>1, <1>4, <1>6, AttemptsStand
<1>8. wire' \subseteq [type : {"message", "ack", "read"}, id : MsgId]
    BY <1>1 DEF DeliveryInv, TypeOK
<1> QED
    BY <1>1, <1>5, <1>7, <1>8, UpdateOK

\* Entries are dropped from the tracker, and perhaps from the maps around it.
LEMMA RemoveOK ==
    ASSUME DeliveryInv, NEW gone \in SUBSET Tracked, Remove(gone),
           UNCHANGED recipient, UNCHANGED <<config, wire, now, fresh, acked>>,
           \/ UNCHANGED <<mapping, statuses, reported>>
           \/ /\ mapping' = [u \in Uuid |-> IF u \in gone THEN NoId ELSE mapping[u]]
              /\ statuses' = [u \in Uuid |-> IF u \in gone THEN "None" ELSE statuses[u]]
              /\ reported' = reported \cup gone
    PROVE  DeliveryInv'
<1> USE DEF DeliveryInv
<1>1. tracked' = [u \in Uuid |-> IF u \in gone THEN NoMessage ELSE tracked[u]]
    BY DEF Remove
<1>2. Tracked' = Tracked \ gone /\ \A w \in Tracked' : tracked'[w] = tracked[w]
    BY <1>1 DEF Tracked
<1>3. gone \subseteq Uuid /\ gone \cap fresh = {}
    BY DEF Tracked, SenderOK
<1>4. Message' = Message
    BY DEF Message
<1>5. NoMessage.status = "None"
    BY DEF NoMessage
<1>6. TypeOK'
    <2>1. \A w \in Tracked' : tracked'[w] \in Message
        BY <1>2 DEF TypeOK
    <2>2. /\ mapping' \in [Uuid -> MsgId \cup {NoId}]
          /\ statuses' \in [Uuid -> {"None", "Sending", "Delivered", "Read"}]
          /\ reported' \subseteq Uuid
        BY <1>3 DEF TypeOK
    <2> QED BY <1>4, <2>1, <2>2 DEF TypeOK, recipient
<1>7. SenderOK'
    <2>1. ReportedIsFinal'
        BY <1>1, <1>3 DEF SenderOK, ReportedIsFinal, TypeOK
    <2>2. TrackedIsMap'
        BY <1>1 DEF TrackedIsMap
    <2>3. \A w \in fresh' : tracked'[w] = NoMessage
        BY <1>1 DEF SenderOK, TypeOK
    <2>4. \A w \in acked' : tracked'[w].status \in {"None", "Confirmed", "Failed"}
        BY <1>1, <1>5 DEF SenderOK, TypeOK
    <2>5. \A w \in Tracked' : mapping'[w] # NoId
        BY <1>2 DEF SenderOK, Tracked
    <2>6. \A w \in Uuid : tracked'[w].status = "Confirmed" => mapping'[w] \in shown'["ack"]
        BY <1>1, <1>5 DEF SenderOK, recipient
    <2>7. /\ \A w \in Uuid : statuses'[w] = "Delivered" => mapping'[w] \in shown'["ack"]
          /\ \A w \in Uuid : statuses'[w] = "Read" => mapping'[w] \in shown'["read"]
        BY DEF SenderOK, TypeOK, recipient
    <2>8. acked' \cap fresh' = {} /\ reported' \cap fresh' = {}
        BY <1>3 DEF SenderOK
    <2> QED BY <2>1, <2>2, <2>3, <2>4, <2>5, <2>6, <2>7, <2>8 DEF SenderOK
<1>8. ReceiptsOK'
    BY NoReceiptSent
<1>9. ASSUME NEW w \in Tracked' PROVE AttemptsOK(w)'
    BY <1>2, AttemptsStand DEF TypeOK
<1> QED BY <1>6, <1>7, <1>8, <1>9

\* The recipient receives or displays and the sender does not move.
LEMMA AcknowledgeOK ==
    ASSUME DeliveryInv, NEW k \in Receipt, NEW id \in MsgId, Acknowledge(k, id),
           shown' = [shown EXCEPT ![k] = @ \cup {id}],
           UNCHANGED sender, UNCHANGED <<enabled, now>>
    PROVE  DeliveryInv'
<1> USE DEF DeliveryInv
<1>1. /\ shown' \in [Receipt -> SUBSET MsgId] /\ id \in shown'[k]
      /\ \A j \in Receipt : shown[j] \subseteq shown'[j]
    BY DEF TypeOK
<1>2. Tracked' = Tracked /\ Message' = Message
    BY DEF Tracked, Message, sender
<1>3. CASE ~should_send(k, id)
    <2>1. UNCHANGED <<sent, issued, wire>>
        BY <1>3 DEF Acknowledge
    <2>2. TypeOK'
        BY <1>1, <1>2, <2>1 DEF TypeOK, sender
    <2>3. ReceiptsOK'
        BY <1>1, <2>1 DEF ReceiptsOK, NoDuplicateReceipts
    <2> QED BY <2>2, <2>3, <1>1, <1>2 DEF SenderOK, sender, TrackedIsMap, ReportedIsFinal, AttemptsOK, Spaced, RetryDelay, Receipt
<1>4. CASE should_send(k, id)
    <2>1. /\ sent' = [sent EXCEPT ![k] = @ \cup {id}]
          /\ issued' = [issued EXCEPT ![k] = [issued[k] EXCEPT ![id] = Min({issued[k][id] + 1, 2})]]
          /\ wire' = wire \cup {ReceiptFor(k, id)}
          /\ id \notin sent[k]
        BY <1>4 DEF Acknowledge, should_send
    <2>2. issued[k][id] = 0
        BY <2>1 DEF ReceiptsOK
    <2>3. Min({issued[k][id] + 1, 2}) = 1
        BY <2>2, LesserOf
    <2>4. issued' = [issued EXCEPT ![k] = [issued[k] EXCEPT ![id] = 1]]
        BY <2>1, <2>3
    <2>5. /\ issued' \in [Receipt -> [MsgId -> 0 .. 2]]
          /\ issued'[k][id] = 1
          /\ \A j \in Receipt, m \in MsgId : j # k \/ m # id => issued'[j][m] = issued[j][m]
        BY <2>4 DEF TypeOK
    <2>6. /\ sent' \in [Receipt -> SUBSET MsgId] /\ id \in sent'[k]
          /\ \A j \in Receipt : sent[j] \subseteq sent'[j]
        BY <2>1 DEF TypeOK
    <2>7. wire' \subseteq [type : {"message", "ack", "read"}, id : MsgId]
        BY <2>1 DEF TypeOK, ReceiptFor, Receipt
    <2>8. TypeOK'
        BY <1>1, <1>2, <2>5, <2>6, <2>7 DEF TypeOK, sender
    <2>9. ReceiptsOK'
        <3>1. \A j \in Receipt, m \in MsgId : ReceiptFor(j, m) \in wire' => m \in shown'[j]
            BY <1>1, <2>1 DEF ReceiptsOK, ReceiptFor
        <3>2. \A j \in Receipt, m \in MsgId : m \notin sent'[j] => issued'[j][m] = 0
            BY <2>5, <2>6 DEF ReceiptsOK
        <3>3. \A j \in Receipt, m \in MsgId : issued'[j][m] <= 1
            BY <2>5 DEF ReceiptsOK, NoDuplicateReceipts
        <3> QED BY <3>1, <3>2, <3>3 DEF ReceiptsOK, NoDuplicateReceipts, ReceiptFor
    <2> QED BY <2>8, <2>9, <1>1, <1>2 DEF SenderOK, sender, TrackedIsMap, ReportedIsFinal, AttemptsOK, Spaced, RetryDelay, Receipt
<1> QED BY <1>3, <1>4

LEMMA ReadOK ==
    ASSUME DeliveryInv, NEW id \in MsgId, process_read_receipt(id)
    PROVE  DeliveryInv'
<1> USE DEF DeliveryInv
<1>1. PICK u \in Named(id) : statuses' = [statuses EXCEPT ![u] = "Read"]
    BY DEF process_read_receipt
<1>2. /\ ReceiptFor("read", id) \in wire
      /\ UNCHANGED recipient /\ UNCHANGED <<config, tracked, mapping, wire, now, fresh, acked, reported>>
    BY DEF process_read_receipt
<1>3. u \in Uuid /\ mapping[u] = id /\ id # NoId /\ id \in shown["read"]
    BY <1>1, <1>2, DeliveryAssumption DEF Named, NoId, ReceiptsOK, Receipt
<1>4. u \notin reported
    BY <1>3 DEF SenderOK, ReportedIsFinal
<1>5. Tracked' = Tracked /\ Message' = Message
    BY <1>2 DEF Tracked, Message
<1>6. TypeOK'
    BY <1>1, <1>2, <1>3, <1>5 DEF TypeOK, recipient
<1>7. SenderOK'
    <2>1. ReportedIsFinal'
        BY <1>1, <1>2, <1>4 DEF SenderOK, ReportedIsFinal, TypeOK
    <2>2. /\ \A w \in Uuid : statuses'[w] = "Delivered" => mapping'[w] \in shown'["ack"]
          /\ \A w \in Uuid : statuses'[w] = "Read" => mapping'[w] \in shown'["read"]
        BY <1>1, <1>2, <1>3 DEF SenderOK, TypeOK, recipient
    <2> QED BY <1>2, <1>5, <2>1, <2>2 DEF SenderOK, TrackedIsMap, recipient
<1>8. ReceiptsOK'
    BY <1>2, NoReceiptSent
<1>9. ASSUME NEW w \in Tracked' PROVE AttemptsOK(w)'
    BY <1>2, <1>5, AttemptsStand DEF TypeOK
<1> QED BY <1>6, <1>7, <1>8, <1>9

\* A receipt that is forgotten starts to count anew.
LEMMA ForgetOK ==
    ASSUME DeliveryInv, cleanup_old_receipts
    PROVE  DeliveryInv'
<1> USE DEF DeliveryInv
<1>1. PICK a \in Kept(sent["ack"]), r \in Kept(sent["read"]) :
          sent' = [k \in Receipt |-> IF k = "ack" THEN a ELSE r]
    BY DEF cleanup_old_receipts
<1>2. a \subseteq sent["ack"] /\ r \subseteq sent["read"]
    BY DEF Kept
<1>3. /\ issued' = [k \in Receipt |-> [id \in MsgId |->
              IF id \in sent[k] \ sent'[k] THEN 0 ELSE issued[k][id]]]
      /\ UNCHANGED sender /\ UNCHANGED <<enabled, wire, now, shown>>
    BY DEF cleanup_old_receipts
<1>4. sent' \in [Receipt -> SUBSET MsgId]
    BY <1>1, <1>2 DEF TypeOK, Receipt
<1>5. issued' \in [Receipt -> [MsgId -> 0 .. 2]]
    BY <1>3 DEF TypeOK
<1>6. \A k \in Receipt, id \in MsgId :
          issued'[k][id] = (IF id \in sent[k] \ sent'[k] THEN 0 ELSE issued[k][id])
    BY <1>3
<1>7. ReceiptsOK'
    <2>1. \A k \in Receipt, id \in MsgId : id \notin sent'[k] => issued'[k][id] = 0
        BY <1>6 DEF ReceiptsOK
    <2>2. \A k \in Receipt, id \in MsgId : issued'[k][id] <= 1
        BY <1>6 DEF ReceiptsOK, NoDuplicateReceipts
    <2> QED BY <1>3, <2>1, <2>2 DEF ReceiptsOK, NoDuplicateReceipts
<1>8. TypeOK'
    BY <1>3, <1>4, <1>5 DEF TypeOK, sender, Tracked, Message
<1>9. SenderOK'
    BY <1>3 DEF SenderOK, sender, TrackedIsMap, ReportedIsFinal, Tracked
<1>10. \A u \in Tracked' : AttemptsOK(u)'
    BY <1>3 DEF sender, Tracked, AttemptsOK, Spaced, RetryDelay
<1> QED BY <1>7, <1>8, <1>9, <1>10

LEMMA TickOK ==
    ASSUME DeliveryInv, Tick
    PROVE  DeliveryInv'
<1> USE DEF DeliveryInv
<1>1. /\ now \in 0 .. MaxTime /\ now' \in 0 .. MaxTime /\ now <= now'
      /\ UNCHANGED sender /\ UNCHANGED recipient /\ UNCHANGED wire
    BY DeliveryAssumption DEF Tick, TypeOK
<1>2. TypeOK'
    BY <1>1 DEF TypeOK, sender, recipient, Tracked, Message
<1>3. SenderOK'
    BY <1>1 DEF SenderOK, sender, recipient, TrackedIsMap, ReportedIsFinal, Tracked
<1>4. ReceiptsOK'
    BY <1>1, NoReceiptSent
<1>5. ASSUME NEW w \in Tracked' PROVE AttemptsOK(w)'
    BY <1>1, AttemptsStand DEF sender, Tracked, TypeOK
<1> QED BY <1>2, <1>3, <1>4, <1>5

\* The settings are all that changes.
LEMMA StandsOK ==
    ASSUME DeliveryInv, UNCHANGED sender, UNCHANGED <<wire, now, sent, shown, issued>>,
           enabled' \in [Receipt -> BOOLEAN]
    PROVE  DeliveryInv'
<1> USE DEF DeliveryInv
<1>1. TypeOK'
    BY DEF TypeOK, sender, Tracked, Message
<1>2. SenderOK'
    BY DEF SenderOK, sender, TrackedIsMap, ReportedIsFinal, Tracked
<1>3. ReceiptsOK'
    BY DEF ReceiptsOK, NoDuplicateReceipts
<1>4. \A u \in Tracked' : AttemptsOK(u)'
    BY DEF sender, Tracked, AttemptsOK, Spaced, RetryDelay
<1> QED BY <1>1, <1>2, <1>3, <1>4

LEMMA DeliveryStep == DeliveryInv /\ [Next]_vars => DeliveryInv'
<1> SUFFICES ASSUME DeliveryInv, [Next]_vars PROVE DeliveryInv'
    OBVIOUS
<1>1. ASSUME NEW u \in Uuid, cancel_tracking(u) PROVE DeliveryInv'
    BY <1>1, RemoveOK DEF cancel_tracking
<1>2. CASE cleanup_by_age
    BY <1>2, RemoveOK DEF cleanup_by_age
<1>3. CASE cleanup_by_count
    BY <1>3, RemoveOK DEF cleanup_by_count
<1>4. CASE cleanup
    <2> DEFINE gone == Completed \cup Expired
    <2>1. gone \subseteq Tracked
        BY DEF Completed, Expired, Exhausted
    <2>2. /\ Remove(gone) /\ UNCHANGED recipient /\ UNCHANGED <<config, wire, now, fresh, acked>>
          /\ mapping' = [u \in Uuid |-> IF u \in gone THEN NoId ELSE mapping[u]]
          /\ statuses' = [u \in Uuid |-> IF u \in gone THEN "None" ELSE statuses[u]]
          /\ reported' = reported \cup gone
        BY <1>4 DEF cleanup, Forgotten
    <2> HIDE DEF gone
    <2> QED BY <2>1, <2>2, RemoveOK
<1>5. ASSUME NEW id \in MsgId, Receive(id) PROVE DeliveryInv'
    BY <1>5, AcknowledgeOK DEF Receive, Receipt
<1>6. ASSUME NEW id \in MsgId, Display(id) PROVE DeliveryInv'
    BY <1>6, AcknowledgeOK DEF Display, Receipt
<1>7. CASE configure_receipts
    <2>1. /\ UNCHANGED sender /\ UNCHANGED <<wire, now, sent, shown, issued>>
          /\ enabled' \in [Receipt -> BOOLEAN]
        BY <1>7, DeliveryAssumption DEF configure_receipts, Receipt
    <2> QED BY <2>1, StandsOK
<1>8. CASE UNCHANGED vars
    <2>1. /\ UNCHANGED sender /\ UNCHANGED <<wire, now, sent, shown, issued>>
          /\ enabled' = enabled
        BY <1>8 DEF vars, sender, recipient
    <2> QED BY <2>1, StandsOK DEF DeliveryInv, TypeOK
<1> QED
    BY <1>1, <1>2, <1>3, <1>4, <1>5, <1>6, <1>7, <1>8, TrackOK, MarkSentOK, FailOK, AckOK, ReadOK,
       ForgetOK, TickOK DEF Next

\* Whatever the network loses, repeats and reorders, and whenever either end cleans
\* up: what the sender shows of a message is true of the recipient, what a clean-up
\* reported stays gone, what was acknowledged is not sent again, no receipt is sent
\* twice, and attempts keep their number and their distance
\* (EnhancedDeliveryTracker, ReceiptManager).
THEOREM DeliveryIsSound == Spec => []DeliverySound
    BY DeliveryInitInv, DeliveryStep, DeliveryInvSound, PTL DEF Spec
=============================================================================
