---------------------------- MODULE Fragmentation ----------------------------
(***************************************************************************)
(* MessageFragmenter and MessageReassembler (bitchat-core,                 *)
(* protocol/fragmentation.rs): senders split messages into numbered        *)
(* fragments; the receiver keeps a bounded number of assemblies, one per   *)
(* sender and fragment id, and evicts by the order in lru_order.           *)
(*                                                                         *)
(* The transport may lose, repeat and reorder fragments: every fragment    *)
(* sent so far may be received any number of times, or never.              *)
(***************************************************************************)
EXTENDS Integers, Sequences, FiniteSets, SequencesExt

CONSTANTS
    Sender,
    Id,              \* fragment ids: random, so two messages may share one
    Message,         \* messages, [data, type]
    FragmentSize,    \* max_fragment_size less the header
    MaxFragments,    \* MAX_FRAGMENTS_PER_MESSAGE
    MaxAssemblies,   \* MAX_FRAGMENT_ASSEMBLIES
    Timeout,         \* FRAGMENT_TIMEOUT_MS
    MaxTime, MaxOrder  \* bounds: the clock; the length of lru_order

ASSUME SizeAssumption ==
    /\ {FragmentSize, MaxFragments, MaxAssemblies} \subseteq Nat \ {0}
    /\ {Timeout, MaxTime, MaxOrder} \subseteq Nat
    /\ Message \subseteq [data : Seq(Nat), type : Nat]

VARIABLES
    sent,        \* the messages fragmented under each key
    incomplete,  \* incomplete_messages: the assembly of each key, or None
    lru_order,
    now,         \* the receiver's clock
    returned     \* the last message add_fragment returned, with its key, in a set

vars == <<sent, incomplete, lru_order, now, returned>>

Key == Sender \X Id
None == [total |-> 0]
Index == 0..(MaxFragments - 1)
Live == {k \in Key : incomplete[k] # None}

Init ==
    /\ sent = [k \in Key |-> {}]
    /\ incomplete = [k \in Key |-> None]
    /\ lru_order = <<>>
    /\ now = 0
    /\ returned = {}

-----------------------------------------------------------------------------
(* MessageFragmenter *)

TotalFragments(m) == (Len(m.data) + FragmentSize - 1) \div FragmentSize

\* The data of fragment i, counted from zero.
Chunk(m, i) ==
    SubSeq(m.data, i * FragmentSize + 1,
           IF (i + 1) * FragmentSize < Len(m.data) THEN (i + 1) * FragmentSize ELSE Len(m.data))

FragmentsOf(k, m) ==
    {[key |-> k, index |-> i, total |-> TotalFragments(m), type |-> m.type,
      data |-> Chunk(m, i)] : i \in 0..(TotalFragments(m) - 1)}

Wire == UNION {UNION {FragmentsOf(k, m) : m \in sent[k]} : k \in Key}

fragment_message(k, m) ==
    /\ m.data # <<>>
    /\ TotalFragments(m) <= MaxFragments
    /\ sent' = [sent EXCEPT ![k] = @ \cup {m}]
    /\ UNCHANGED <<incomplete, lru_order, now, returned>>

-----------------------------------------------------------------------------
(* MessageReassembler *)

\* Defect: fragments are told apart by their id alone.
BugAssemblyKey(f) == <<CHOOSE s \in Sender : TRUE, f.key[2]>>

AssemblyKey(f) == f.key

NewAssembly(f) ==
    [total |-> f.total, type |-> f.type, have |-> {}, data |-> [i \in Index |-> <<>>],
     first |-> now]

\* The first fragment received at an index stays.
WithFragment(a, f) ==
    IF f.index \in a.have THEN a
    ELSE [a EXCEPT !.have = @ \cup {f.index}, !.data[f.index] = f.data]

is_complete(a) == Cardinality(a.have) = a.total

Reassembled(a) ==
    [data |-> FlattenSeq([i \in 1..a.total |-> a.data[i - 1]]), type |-> a.type]

is_expired(a) == now - a.first > Timeout

\* Defect: one entry is evicted, whether or not it still names an assembly.
BugEvictions == IF Cardinality(Live) < MaxAssemblies \/ lru_order = <<>> THEN 0 ELSE 1

\* How many entries enforce_assembly_limit takes from the front of lru_order:
\* as many as it takes to make room, or all of them.
Evictions ==
    LET enough == {n \in 0..Len(lru_order) :
                      Cardinality(Live \ ToSet(SubSeq(lru_order, 1, n))) < MaxAssemblies}
    IN  IF enough = {} THEN Len(lru_order) ELSE Min(enough)

\* What follows once the assembly of a fragment is found or made: a mismatch
\* is an error that changes nothing more, a complete assembly is returned and
\* dropped. Its entry in lru_order stays.
Assemble(f, k, kept, a) ==
    LET b == WithFragment(a, f)
    IN  \/ /\ a.total # f.total \/ a.type # f.type
           /\ incomplete' = kept
           /\ returned' = {}
        \/ /\ a.total = f.total /\ a.type = f.type
           /\ ~ is_complete(b)
           /\ incomplete' = [kept EXCEPT ![k] = b]
           /\ returned' = {}
        \/ /\ a.total = f.total /\ a.type = f.type
           /\ is_complete(b)
           /\ incomplete' = [kept EXCEPT ![k] = None]
           /\ returned' = {[key |-> f.key, message |-> Reassembled(b)]}

add_fragment(f) ==
    LET k == AssemblyKey(f)
        n == IF k \in Live THEN 0 ELSE Evictions
        out == ToSet(SubSeq(lru_order, 1, n))
        kept == [q \in Key |-> IF q \in out THEN None ELSE incomplete[q]]
        rest == SubSeq(lru_order, n + 1, Len(lru_order))
    IN  /\ f.total # 1
        /\ Len(lru_order) < MaxOrder
        /\ lru_order' = Append(RemoveFirst(IF k \in Live THEN rest ELSE Append(rest, k), k), k)
        /\ Assemble(f, k, kept, IF k \in Live THEN incomplete[k] ELSE NewAssembly(f))
        /\ UNCHANGED <<sent, now>>

add_single_fragment(f) ==
    /\ f.total = 1
    /\ returned' =
           {[key |-> f.key, message |-> [data |-> f.data, type |-> f.type]]}
    /\ UNCHANGED <<sent, incomplete, lru_order, now>>

cleanup_expired ==
    /\ incomplete' = [k \in Key |->
           IF k \in Live /\ is_expired(incomplete[k]) THEN None ELSE incomplete[k]]
    /\ UNCHANGED <<sent, lru_order, now, returned>>

clear ==
    /\ incomplete' = [k \in Key |-> None]
    /\ lru_order' = <<>>
    /\ UNCHANGED <<sent, now, returned>>

Tick ==
    /\ now < MaxTime
    /\ now' = now + 1
    /\ UNCHANGED <<sent, incomplete, lru_order, returned>>

Next ==
    \/ \E k \in Key, m \in Message : fragment_message(k, m)
    \/ \E f \in Wire : add_fragment(f) \/ add_single_fragment(f)
    \/ cleanup_expired
    \/ clear
    \/ Tick

Spec == Init /\ [][Next]_vars

-----------------------------------------------------------------------------
(* Properties *)

Assembly ==
    [total : 2..MaxFragments, type : {m.type : m \in Message},
     have : SUBSET Index, data : [Index -> Seq(Nat)], first : Nat]

\* Type correctness; an assembly holds fragments of its total and lacks one.
TypeOK ==
    /\ sent \in [Key -> SUBSET {m \in Message : TotalFragments(m) \in 1..MaxFragments}]
    /\ incomplete \in [Key -> Assembly \cup {None}]
    /\ \A k \in Live : /\ incomplete[k].have \subseteq 0..(incomplete[k].total - 1)
                       /\ Cardinality(incomplete[k].have) < incomplete[k].total
    /\ lru_order \in Seq(Key)
    /\ now \in Nat

\* What add_fragment returns for a sender and an id under which one message was
\* fragmented is that message, byte for byte and with its type, whatever was
\* lost, repeated, reordered, evicted, expired or sent by others.
Faithful ==
    \A d \in returned : \A m \in sent[d.key] : sent[d.key] = {m} => d.message = m

\* There are never more assemblies than the limit, although lru_order keeps
\* entries of assemblies that were completed or have expired.
AssembliesBounded == Cardinality(Live) <= MaxAssemblies

\* The reassembler's tables are well formed and within their limit
\* (MessageReassembler::add_fragment, enforce_assembly_limit).
AssembliesSound == TypeOK /\ AssembliesBounded
=============================================================================
