----------------------------- MODULE PacketProofs -----------------------------
(***************************************************************************)
(* Proofs about what becomes of packets on their way: fragments and their  *)
(* reassembly (Fragmentation), the network of the simulator                *)
(* (SimulatedNetwork), and the tables that devices bring into step with    *)
(* each other (SessionSync), for any senders, messages, peers, devices,    *)
(* sizes and delays. The facts about sequences and loops they rest on are  *)
(* those of CodecProofs.                                                   *)
(*                                                                         *)
(* lru_order may name an assembly twice and may name assemblies that are   *)
(* gone; what the limit needs is only that it names every live one.        *)
(***************************************************************************)
EXTENDS Fragmentation, SimulatedNetwork, SessionSync, CodecProofs

\* Every assembly has an entry in lru_order, so that eviction can find it.
LiveTracked == Live \subseteq ToSet(lru_order)

IInv == TypeOK /\ LiveTracked /\ AssembliesBounded

-----------------------------------------------------------------------------
(* Sequences and their elements *)

LEMMA InToSet ==
    ASSUME NEW S, NEW s \in Seq(S), NEW i \in 1..Len(s)
    PROVE  s[i] \in ToSet(s) /\ s[i] \in S
    BY DEF ToSet

LEMMA OfToSet ==
    ASSUME NEW S, NEW s \in Seq(S), NEW e \in ToSet(s)
    PROVE  \E i \in 1..Len(s) : s[i] = e
    BY DEF ToSet

LEMMA ToSetFinite ==
    ASSUME NEW S, NEW s \in Seq(S)
    PROVE  IsFiniteSet(ToSet(s))
<1> DEFINE f == [i \in 1..Len(s) |-> s[i]]
<1>1. f \in Surjection(1..Len(s), ToSet(s))
    BY DEF Surjection, ToSet
<1>2. IsFiniteSet(1..Len(s))
    BY FS_Interval
<1> QED
    BY <1>1, <1>2, FS_Surjection

\* The entries of a sequence are those of a prefix and those of the rest.
LEMMA ToSetSplit ==
    ASSUME NEW S, NEW s \in Seq(S), NEW n \in 0..Len(s)
    PROVE  ToSet(s) \subseteq ToSet(SubSeq(s, 1, n)) \cup ToSet(SubSeq(s, n + 1, Len(s)))
<1> DEFINE a == SubSeq(s, 1, n)
           b == SubSeq(s, n + 1, Len(s))
<1>1. Len(a) = n /\ \A i \in 1..n : a[i] = s[i]
    BY SubSeqOK
<1>2. Len(b) = Len(s) - n /\ \A i \in 1..(Len(s) - n) : b[i] = s[n + i]
    BY SubSeqOK
<1>3. a \in Seq(S) /\ b \in Seq(S)
    BY SubSeqOK
<1> HIDE DEF a, b
<1>4. SUFFICES ASSUME NEW i \in 1..Len(s)
               PROVE  s[i] \in ToSet(a) \cup ToSet(b)
    BY DEF ToSet, a, b
<1>5. CASE i <= n
    BY <1>1, <1>3, <1>5 DEF ToSet
<1>6. CASE i > n
    <2>1. i - n \in 1..(Len(s) - n) /\ b[i - n] = s[i]
        BY <1>2, <1>6
    <2> QED
        BY <2>1, <1>2, <1>3 DEF ToSet
<1> QED
    BY <1>5, <1>6

LEMMA ToSetAppend ==
    ASSUME NEW S, NEW s \in Seq(S), NEW e \in S
    PROVE  Append(s, e) \in Seq(S) /\ ToSet(Append(s, e)) = ToSet(s) \cup {e}
<1>1. Append(s, e) \in Seq(S) /\ Len(Append(s, e)) = Len(s) + 1
    OBVIOUS
<1>2. \A i \in 1..Len(s) : Append(s, e)[i] = s[i]
    OBVIOUS
<1>3. Append(s, e)[Len(s) + 1] = e
    OBVIOUS
<1> DEFINE t == Append(s, e)
<1> HIDE DEF t
<1>4. ToSet(t) \subseteq ToSet(s) \cup {e}
    BY <1>1, <1>2, <1>3 DEF ToSet, t
<1>5. ToSet(s) \cup {e} \subseteq ToSet(t)
    BY <1>1, <1>2, <1>3 DEF ToSet, t
<1> QED
    BY <1>1, <1>4, <1>5 DEF t

\* Removing one occurrence of e keeps every other element.
LEMMA ToSetRemoveFirst ==
    ASSUME NEW S, NEW s \in Seq(S), NEW e
    PROVE  /\ RemoveFirst(s, e) \in Seq(S)
           /\ ToSet(s) \subseteq ToSet(RemoveFirst(s, e)) \cup {e}
           /\ ToSet(RemoveFirst(s, e)) \subseteq ToSet(s)
<1>1. CASE ~ \E i \in 1..Len(s) : s[i] = e
    BY <1>1, Zenon DEF RemoveFirst
<1>2. CASE \E i \in 1..Len(s) : s[i] = e
    <2> DEFINE J == {i \in 1..Len(s) : s[i] = e}
    <2>1. J \in SUBSET Nat /\ J # {}
        BY <1>2
    <2>2. PICK p \in 1..Len(s) : p = Min(J) /\ s[p] = e
        BY <2>1, MinNat
    <2>3. RemoveFirst(s, e) = SubSeq(s, 1, p - 1) \o SubSeq(s, p + 1, Len(s))
        BY <1>2, <2>1, <2>2, Zenon DEF RemoveFirst, RemoveAt, SelectInSeq
    <2> HIDE DEF J
    <2>4. PICK a : a = SubSeq(s, 1, p - 1)
        OBVIOUS
    <2>5. PICK b : b = SubSeq(s, p + 1, Len(s))
        OBVIOUS
    <2>6. a \in Seq(S) /\ Len(a) = p - 1 /\ \A i \in 1..(p - 1) : a[i] = s[i]
        BY <2>4, SubSeqOK
    <2>7. b \in Seq(S) /\ Len(b) = Len(s) - p /\ \A i \in 1..(Len(s) - p) : b[i] = s[p + i]
        BY <2>5, SubSeqOK
    <2>8. PICK c : c = a \o b
        OBVIOUS
    <2>9. /\ c \in Seq(S) /\ Len(c) = Len(s) - 1
          /\ \A i \in 1..(p - 1) : c[i] = a[i]
          /\ \A i \in 1..(Len(s) - p) : c[p - 1 + i] = b[i]
        BY <2>6, <2>7, <2>8
    <2>10. ASSUME NEW x \in ToSet(s)
           PROVE  x \in ToSet(c) \cup {e}
        <3>1. PICK i \in 1..Len(s) : s[i] = x
            BY OfToSet
        <3>2. CASE i < p
            <4>1. i \in 1..Len(c) /\ c[i] = x
                BY <3>1, <3>2, <2>6, <2>9
            <4> QED
                BY <4>1, <2>9, InToSet
        <3>3. CASE i = p
            BY <3>1, <3>3, <2>2
        <3>4. CASE i > p
            <4>1. PICK j \in 1..(Len(s) - p) : p + j = i
                BY <3>4
            <4>2. c[p - 1 + j] = b[j] /\ b[j] = s[p + j]
                BY <2>7, <2>9
            <4>3. p - 1 + j \in 1..Len(c)
                BY <2>9
            <4>4. c[p - 1 + j] = x
                BY <4>1, <4>2, <3>1
            <4> QED
                BY <4>3, <4>4, <2>9, InToSet
        <3> QED
            BY <3>2, <3>3, <3>4
    <2>11. ASSUME NEW x \in ToSet(c)
           PROVE  x \in ToSet(s)
        <3>1. PICK i \in 1..Len(c) : c[i] = x
            BY OfToSet, <2>9
        <3>2. CASE i <= p - 1
            <4>1. i \in 1..Len(s) /\ s[i] = x
                BY <3>1, <3>2, <2>6, <2>9
            <4> QED
                BY <4>1, InToSet
        <3>3. CASE i > p - 1
            <4>1. PICK j \in 1..(Len(s) - p) : p - 1 + j = i
                <5>1. i - (p - 1) \in 1..(Len(s) - p) /\ p - 1 + (i - (p - 1)) = i
                    BY <3>3, <2>9
                <5> QED
                    BY <5>1
            <4>2. p + j \in 1..Len(s) /\ s[p + j] = x
                BY <4>1, <3>1, <2>7, <2>9
            <4> QED
                BY <4>2, InToSet
        <3> QED
            BY <3>2, <3>3
    <2> QED
        BY <2>3, <2>4, <2>5, <2>8, <2>9, <2>10, <2>11
<1> QED
    BY <1>1, <1>2

-----------------------------------------------------------------------------
(* Fragmenting and joining *)

LEMMA SubSeqJoin ==
    ASSUME NEW S, NEW s \in Seq(S), NEW a \in 0..Len(s), NEW b \in a..Len(s)
    PROVE  SubSeq(s, 1, a) \o SubSeq(s, a + 1, b) = SubSeq(s, 1, b)
    OBVIOUS

LEMMA DivCeil ==
    ASSUME NEW l \in Nat \ {0}, NEW d \in Nat \ {0}, NEW n, n = (l + d - 1) \div d
    PROVE  n \in Nat \ {0} /\ n * d >= l /\ (n - 1) * d < l
<1>1. PICK x : x = l + d - 1
    OBVIOUS
<1>2. x \in Nat /\ x >= d /\ n = x \div d
    BY <1>1
<1>3. n \in Nat /\ n >= 1
    BY <1>2, SMTT(30)
<1>4. n * d <= x /\ x < n * d + d
    BY <1>2, SMTT(30)
<1>5. (n - 1) * d = n * d - d
    BY <1>3, SMTT(30)
<1>6. PICK y : y = n * d
    OBVIOUS
<1>7. y \in Nat
    BY <1>3, <1>6, MulMonotone
<1> QED
    BY <1>1, <1>3, <1>4, <1>5, <1>6, <1>7

\* Joining the fragments of a message, in order, gives the message back.
LEMMA ChunksJoin ==
    ASSUME NEW m \in Message, TotalFragments(m) \in 1..MaxFragments
    PROVE  FlattenSeq([i \in 1..TotalFragments(m) |-> Chunk(m, i - 1)]) = m.data
<1>1. PICK s : s = m.data
    OBVIOUS
<1>2. PICK l : l = Len(s)
    OBVIOUS
<1>3. PICK n : n = TotalFragments(m)
    OBVIOUS
<1>4. PICK F : F = FragmentSize
    OBVIOUS
<1>5. s \in Seq(Nat) /\ l \in Nat /\ F \in Nat \ {0} /\ n \in Nat \ {0}
    BY <1>1, <1>2, <1>3, <1>4, SizeAssumption
<1>6. n = (l + F - 1) \div F
    BY <1>1, <1>2, <1>3, <1>4 DEF TotalFragments
<1>7. l # 0
    <2>1. ASSUME l = 0 PROVE FALSE
        <3>1. n = (F - 1) \div F
            BY <2>1, <1>5, <1>6
        <3>2. (F - 1) \div F = 0
            BY <1>5, SMTT(30)
        <3> QED
            BY <3>1, <3>2, <1>5
    <2> QED
        BY <2>1
<1>8. n * F >= l /\ (n - 1) * F < l
    BY <1>5, <1>6, <1>7, DivCeil
<1> DEFINE end(i) == IF i * F < l THEN i * F ELSE l
           g == [i \in 1..n |-> SubSeq(s, 1, end(i))]
           seqs == [i \in 1..n |-> Chunk(m, i - 1)]
<1>9. ASSUME NEW i \in 1..n
      PROVE  /\ Chunk(m, i - 1) = SubSeq(s, (i - 1) * F + 1, end(i))
             /\ (i - 1) * F \in 0..l /\ end(i) \in ((i - 1) * F)..l
             /\ i # 1 => end(i - 1) = (i - 1) * F
    <2>1. PICK lo : lo = (i - 1) * F
        OBVIOUS
    <2>2. PICK hi : hi = i * F
        OBVIOUS
    <2>3. lo \in Nat /\ lo <= (n - 1) * F
        BY <2>1, <1>5, MulMonotone
    <2>4. hi \in Nat /\ lo <= hi
        BY <2>1, <2>2, <1>5, MulMonotone
    <2>5. (n - 1) * F \in Nat
        BY <1>5, MulMonotone
    <2>6. lo < l
        BY <2>3, <2>5, <1>5, <1>8
    <2>7. end(i) = IF hi < l THEN hi ELSE l
        BY <2>2
    <2>8. Chunk(m, i - 1) = SubSeq(s, lo + 1, IF hi < l THEN hi ELSE l)
        <3>1. (i - 1) + 1 = i
            OBVIOUS
        <3> QED
            BY <3>1, <2>1, <2>2, <1>1, <1>2, <1>4 DEF Chunk
    <2>9. end(i - 1) = lo
        BY <2>1, <2>6
    <2> QED
        BY <2>1, <2>3, <2>4, <2>6, <2>7, <2>8, <2>9, <1>5
<1>10. Len(seqs) = n
    BY <1>5
<1>11. ASSUME NEW i \in 1..n
       PROVE  g[i] = IF i = 1 THEN seqs[i] ELSE g[i - 1] \o seqs[i]
    <2>1. g[i] = SubSeq(s, 1, end(i)) /\ seqs[i] = SubSeq(s, (i - 1) * F + 1, end(i))
        BY <1>9
    <2> HIDE DEF seqs
    <2>2. CASE i = 1
        <3>1. (i - 1) * F + 1 = 1
            BY <2>2, <1>5
        <3> QED
            BY <2>1, <2>2, <3>1
    <2>3. CASE i # 1
        <3>1. i - 1 \in 1..n
            BY <2>3, <1>5
        <3>2. g[i - 1] = SubSeq(s, 1, (i - 1) * F)
            BY <3>1, <2>3, <1>9
        <3>3. PICK a : a = (i - 1) * F
            OBVIOUS
        <3>4. PICK b : b = end(i)
            OBVIOUS
        <3>5. a \in 0..Len(s) /\ b \in a..Len(s)
            BY <3>3, <3>4, <1>2, <1>9
        <3>6. SubSeq(s, 1, a) \o SubSeq(s, a + 1, b) = SubSeq(s, 1, b)
            BY <3>5, <1>5, SubSeqJoin
        <3> QED
            <4>1. g[i] = SubSeq(s, 1, b) /\ seqs[i] = SubSeq(s, a + 1, b) /\ g[i - 1] = SubSeq(s, 1, a)
                BY <3>2, <3>3, <3>4, <2>1, Zenon
            <4> HIDE DEF g
            <4> QED
                BY <4>1, <3>6, <2>3, Zenon
    <2> QED
        BY <2>2, <2>3
<1>12. g[n] = s
    <2>1. n \in 1..n /\ end(n) = l
        BY <1>5, <1>8
    <2>2. g[n] = SubSeq(s, 1, l)
        BY <2>1
    <2> QED
        BY <2>2, <1>2, <1>5
<1> HIDE DEF g, seqs
<1>13. FlattenSeq(seqs) = g[Len(seqs)]
    BY <1>5, <1>10, <1>11, FlattenBy
<1> QED
    BY <1>1, <1>3, <1>10, <1>12, <1>13 DEF seqs

-----------------------------------------------------------------------------
(* The invariant *)

LEMMA WireType ==
    ASSUME TypeOK, NEW f \in Wire
    PROVE  /\ f.key \in Key /\ f.total \in 1..MaxFragments
           /\ f.index \in 0..(f.total - 1)
           /\ f.type \in {m.type : m \in Message} /\ f.data \in Seq(Nat)
<1>0. PICK k \in Key : \E m \in sent[k] : f \in FragmentsOf(k, m)
    BY DEF Wire
<1>1. PICK m \in sent[k] : f \in FragmentsOf(k, m)
    BY <1>0
<1>2. PICK i \in 0..(TotalFragments(m) - 1) :
          f = [key |-> k, index |-> i, total |-> TotalFragments(m), type |-> m.type,
               data |-> Chunk(m, i)]
    BY <1>1 DEF FragmentsOf
<1>3. m \in Message /\ TotalFragments(m) \in 1..MaxFragments
    BY <1>1 DEF TypeOK
<1>4. m.data \in Seq(Nat)
    BY <1>3, SizeAssumption
<1>5. Chunk(m, i) \in Seq(Nat)
    <2>1. PICK lo : lo = i * FragmentSize
        OBVIOUS
    <2>2. PICK hi : hi = (i + 1) * FragmentSize
        OBVIOUS
    <2>3. i \in Nat /\ FragmentSize \in Nat
        BY <1>3, SizeAssumption
    <2>4. lo \in Nat /\ hi \in Nat
        BY <2>1, <2>2, <2>3
    <2>5. SubSeq(m.data, lo + 1, IF hi < Len(m.data) THEN hi ELSE Len(m.data)) \in Seq(Nat)
        BY <1>4, <2>4, SubSeqOK
    <2> QED
        BY <2>1, <2>2, <2>5 DEF Chunk
<1> QED
    BY <1>2, <1>3, <1>5

LEMMA LiveFinite ==
    ASSUME TypeOK, LiveTracked
    PROVE  IsFiniteSet(Live)
<1>1. IsFiniteSet(ToSet(lru_order))
    BY ToSetFinite DEF TypeOK
<1> QED
    BY <1>1, FS_Subset DEF LiveTracked

\* enforce_assembly_limit makes room: it never runs out of entries first.
LEMMA EvictionsMakeRoom ==
    ASSUME TypeOK, LiveTracked
    PROVE  /\ Evictions \in 0..Len(lru_order)
           /\ Cardinality(Live \ ToSet(SubSeq(lru_order, 1, Evictions))) < MaxAssemblies
<1> DEFINE enough == {n \in 0..Len(lru_order) :
                        Cardinality(Live \ ToSet(SubSeq(lru_order, 1, n))) < MaxAssemblies}
<1>1. SubSeq(lru_order, 1, Len(lru_order)) = lru_order /\ Len(lru_order) \in Nat
    BY DEF TypeOK
<1>2. Live \ ToSet(lru_order) = {}
    BY DEF LiveTracked
<1>3. Cardinality({}) = 0 /\ 0 < MaxAssemblies
    BY FS_EmptySet, SizeAssumption
<1>4. Len(lru_order) \in enough
    <2>1. Len(lru_order) \in 0..Len(lru_order)
        BY <1>1
    <2>2. Cardinality(Live \ ToSet(SubSeq(lru_order, 1, Len(lru_order)))) < MaxAssemblies
        BY <1>1, <1>2, <1>3, Zenon
    <2> QED
        BY <2>1, <2>2, Zenon
<1>5. enough \in SUBSET Nat
    <2>1. 0..Len(lru_order) \subseteq Nat
        BY <1>1
    <2>2. enough \subseteq 0..Len(lru_order)
        BY Zenon
    <2> QED
        BY <2>1, <2>2, Zenon
<1>6. Evictions = Min(enough)
    BY <1>4, Zenon DEF Evictions
<1> HIDE DEF enough
<1>7. Evictions \in enough
    BY <1>4, <1>5, <1>6, MinNat
<1> QED
    BY <1>7 DEF enough

LEMMA NewIsAssembly ==
    ASSUME TypeOK, NEW f \in Wire, f.total # 1
    PROVE  NewAssembly(f) \in Assembly
<1>1. f.total \in 2..MaxFragments /\ f.type \in {m.type : m \in Message}
    BY WireType, SizeAssumption
<1> QED
    BY <1>1 DEF NewAssembly, Assembly, TypeOK

LEMMA AssemblyType ==
    ASSUME TypeOK, NEW f \in Wire, f.total # 1,
           NEW a \in Assembly \cup {NewAssembly(f)},
           a.have \subseteq 0..(a.total - 1),
           a.total = f.total, a.type = f.type
    PROVE  /\ WithFragment(a, f) \in Assembly
           /\ WithFragment(a, f).have \subseteq 0..(a.total - 1)
           /\ WithFragment(a, f).total = a.total
           /\ ~ is_complete(WithFragment(a, f)) => Cardinality(WithFragment(a, f).have) < a.total
<1>1. /\ f.total \in 2..MaxFragments /\ f.index \in 0..(f.total - 1)
      /\ f.type \in {m.type : m \in Message} /\ f.data \in Seq(Nat)
    BY WireType, SizeAssumption
<1>2. NewAssembly(f) \in Assembly
    BY NewIsAssembly
<1>3. a \in Assembly
    BY <1>2
<1>4. f.index \in Index
    BY <1>1, SizeAssumption DEF Index
<1>5. PICK b : b = WithFragment(a, f)
    OBVIOUS
<1>6. b \in Assembly /\ b.total = a.total /\ b.have = a.have \cup {f.index}
    <2>1. CASE f.index \in a.have
        BY <2>1, <1>3, <1>5 DEF WithFragment
    <2>2. CASE f.index \notin a.have
        <3>1. b = [total |-> a.total, type |-> a.type, have |-> a.have \cup {f.index},
                   data |-> [a.data EXCEPT ![f.index] = f.data], first |-> a.first]
            BY <2>2, <1>3, <1>5 DEF WithFragment, Assembly
        <3>2. [a.data EXCEPT ![f.index] = f.data] \in [Index -> Seq(Nat)]
            BY <1>1, <1>3, <1>4 DEF Assembly
        <3> QED
            BY <3>1, <3>2, <1>3, <1>4 DEF Assembly
    <2> QED
        BY <2>1, <2>2
<1>7. b.have \subseteq 0..(a.total - 1)
    BY <1>1, <1>6
<1>8. a.total \in Nat /\ a.total >= 2
    BY <1>1
<1>9. Cardinality(b.have) \in Nat /\ Cardinality(b.have) <= a.total
    <2>1. IsFiniteSet(0..(a.total - 1)) /\ Cardinality(0..(a.total - 1)) = a.total
        <3>1. 0 \in Int /\ a.total - 1 \in Int /\ (a.total - 1) - 0 + 1 = a.total /\ ~(0 > a.total - 1)
            BY <1>8
        <3> QED
            BY <3>1, FS_Interval
    <2>2. IsFiniteSet(b.have) /\ Cardinality(b.have) <= a.total
        BY <2>1, <1>7, FS_Subset
    <2> QED
        BY <2>2, FS_CardinalityType
<1>10. ~ is_complete(b) => Cardinality(b.have) < a.total
    BY <1>6, <1>8, <1>9 DEF is_complete
<1> QED
    BY <1>5, <1>6, <1>7, <1>10

\* The pushes and the removal around a fragment of k keep every other entry.
LEMMA Reordered ==
    ASSUME NEW S, NEW s \in Seq(S), NEW k \in S
    PROVE  /\ Append(RemoveFirst(s, k), k) \in Seq(S)
           /\ ToSet(s) \cup {k} \subseteq ToSet(Append(RemoveFirst(s, k), k))
<1>1. PICK less : less = RemoveFirst(s, k)
    OBVIOUS
<1>2. less \in Seq(S) /\ ToSet(s) \subseteq ToSet(less) \cup {k}
    BY <1>1, ToSetRemoveFirst
<1>3. Append(less, k) \in Seq(S) /\ ToSet(Append(less, k)) = ToSet(less) \cup {k}
    BY <1>2, ToSetAppend
<1> QED
    BY <1>1, <1>2, <1>3, Zenon

\* What enforce_assembly_limit leaves when a fragment of k arrives.
LEMMA RoomFor ==
    ASSUME IInv, NEW k \in Key, NEW n, n = IF k \in Live THEN 0 ELSE Evictions,
           NEW left, left = Live \ ToSet(SubSeq(lru_order, 1, n))
    PROVE  /\ n \in 0..Len(lru_order)
           /\ SubSeq(lru_order, n + 1, Len(lru_order)) \in Seq(Key)
           /\ left \subseteq ToSet(SubSeq(lru_order, n + 1, Len(lru_order)))
           /\ Cardinality(left \cup {k}) <= MaxAssemblies
           /\ IsFiniteSet(left \cup {k})
<1>1. lru_order \in Seq(Key) /\ Len(lru_order) \in Nat /\ MaxAssemblies \in Nat
    BY SizeAssumption DEF IInv, TypeOK
<1>2. n \in 0..Len(lru_order)
    BY <1>1, EvictionsMakeRoom DEF IInv
<1>3. IsFiniteSet(Live)
    BY LiveFinite DEF IInv
<1>4. IsFiniteSet(left) /\ Cardinality(left) \in Nat
    BY <1>3, FS_Difference, FS_CardinalityType
<1>5. /\ SubSeq(lru_order, n + 1, Len(lru_order)) \in Seq(Key)
      /\ left \subseteq ToSet(SubSeq(lru_order, n + 1, Len(lru_order)))
    <2>1. SubSeq(lru_order, n + 1, Len(lru_order)) \in Seq(Key)
        BY <1>1, <1>2, SubSeqOK
    <2>2. ToSet(lru_order) \subseteq ToSet(SubSeq(lru_order, 1, n))
                                \cup ToSet(SubSeq(lru_order, n + 1, Len(lru_order)))
        BY <1>1, <1>2, ToSetSplit
    <2> QED
        BY <2>1, <2>2, Zenon DEF IInv, LiveTracked
<1>6. CASE k \in Live
    <2>1. n = 0
        BY <1>6
    <2>2. SubSeq(lru_order, 1, 0) = << >>
        BY <1>1
    <2>3. ToSet(<< >>) = {}
        BY DEF ToSet
    <2>4. left \cup {k} = Live
        BY <2>1, <2>2, <2>3, <1>6
    <2> QED
        BY <2>4, <1>2, <1>3, <1>5 DEF IInv, AssembliesBounded
<1>7. CASE k \notin Live
    <2>1. n = Evictions /\ k \notin left
        BY <1>7
    <2>2. Cardinality(left) < MaxAssemblies
        BY <2>1, EvictionsMakeRoom DEF IInv
    <2>3. IsFiniteSet(left \cup {k}) /\ Cardinality(left \cup {k}) = Cardinality(left) + 1
        BY <2>1, <1>4, FS_AddElement
    <2> QED
        BY <2>2, <2>3, <1>1, <1>2, <1>4, <1>5
<1> QED
    BY <1>6, <1>7

LEMMA AddFragment ==
    ASSUME IInv, NEW f \in Wire, add_fragment(f)
    PROVE  IInv'
<1>1. PICK k : k = f.key
    OBVIOUS
<1>2. PICK n : n = IF k \in Live THEN 0 ELSE Evictions
    OBVIOUS
<1>3. PICK out : out = ToSet(SubSeq(lru_order, 1, n))
    OBVIOUS
<1>4. PICK kept : kept = [q \in Key |-> IF q \in out THEN None ELSE incomplete[q]]
    OBVIOUS
<1>5. PICK rest : rest = SubSeq(lru_order, n + 1, Len(lru_order))
    OBVIOUS
<1>6. PICK order :
          order = Append(RemoveFirst(IF k \in Live THEN rest ELSE Append(rest, k), k), k)
    OBVIOUS
<1>7. PICK a : a = IF k \in Live THEN incomplete[k] ELSE NewAssembly(f)
    OBVIOUS
<1>8. PICK left : left = Live \ out
    OBVIOUS
<1>9. /\ f.total # 1 /\ lru_order' = order
      /\ Assemble(f, k, kept, a)
      /\ UNCHANGED <<sent, now>>
    BY <1>1, <1>2, <1>3, <1>4, <1>5, <1>6, <1>7 DEF add_fragment, AssemblyKey
<1>10. k \in Key
    BY <1>1, WireType DEF IInv
<1>11. /\ order \in Seq(Key) /\ left \cup {k} \subseteq ToSet(order)
       /\ Cardinality(left \cup {k}) <= MaxAssemblies
       /\ IsFiniteSet(left \cup {k})
    <2>1. left = Live \ ToSet(SubSeq(lru_order, 1, n))
        BY <1>3, <1>8
    <2>2. /\ rest \in Seq(Key) /\ left \subseteq ToSet(rest)
          /\ Cardinality(left \cup {k}) <= MaxAssemblies
          /\ IsFiniteSet(left \cup {k})
        BY <2>1, <1>2, <1>5, <1>10, RoomFor, Zenon
    <2>3. PICK pushed : pushed = IF k \in Live THEN rest ELSE Append(rest, k)
        OBVIOUS
    <2>4. Append(rest, k) \in Seq(Key) /\ ToSet(Append(rest, k)) = ToSet(rest) \cup {k}
        BY <2>2, <1>10, ToSetAppend
    <2>5. pushed \in Seq(Key) /\ left \subseteq ToSet(pushed)
        BY <2>2, <2>3, <2>4, Zenon
    <2>6. order = Append(RemoveFirst(pushed, k), k)
        BY <2>3, <1>6
    <2>7. order \in Seq(Key) /\ ToSet(pushed) \cup {k} \subseteq ToSet(order)
        BY <2>5, <2>6, <1>10, Reordered, Zenon
    <2> QED
        BY <2>2, <2>5, <2>7
<1>12. TypeOK
    BY DEF IInv
<1>13. /\ a \in Assembly \cup {NewAssembly(f)} /\ a.have \subseteq 0..(a.total - 1)
       /\ k \notin Live => a.total = f.total /\ a.type = f.type
    <2>1. CASE k \in Live
        BY <2>1, <1>7, <1>12 DEF TypeOK, Live
    <2>2. CASE k \notin Live
        BY <2>2, <1>7 DEF NewAssembly
    <2> QED
        BY <2>1, <2>2
<1>14. PICK b : b = WithFragment(a, f)
    OBVIOUS
<1>15. a.total = f.total /\ a.type = f.type =>
          /\ b \in Assembly /\ b.have \subseteq 0..(b.total - 1)
          /\ ~ is_complete(b) => Cardinality(b.have) < b.total
    BY <1>9, <1>12, <1>13, <1>14, AssemblyType
<1>16. /\ kept \in [Key -> Assembly \cup {None}]
       /\ \A q \in Key : kept[q] # None => /\ q \in left
                                          /\ kept[q].have \subseteq 0..(kept[q].total - 1)
                                          /\ Cardinality(kept[q].have) < kept[q].total
    BY <1>4, <1>8, <1>12 DEF TypeOK, Live
<1>17. PICK inc : inc = incomplete'
    OBVIOUS
<1>18. /\ inc \in [Key -> Assembly \cup {None}]
       /\ \A q \in Key : inc[q] # None => /\ q \in left \cup {k}
                                         /\ inc[q].have \subseteq 0..(inc[q].total - 1)
                                         /\ Cardinality(inc[q].have) < inc[q].total
    <2>1. \/ inc = kept
          \/ /\ a.total = f.total /\ a.type = f.type /\ ~ is_complete(b)
             /\ inc = [kept EXCEPT ![k] = b]
          \/ inc = [kept EXCEPT ![k] = None]
        BY <1>9, <1>14, <1>17 DEF Assemble
    <2>2. CASE inc = kept
        BY <2>2, <1>16
    <2>3. CASE /\ a.total = f.total /\ a.type = f.type /\ ~ is_complete(b)
               /\ inc = [kept EXCEPT ![k] = b]
        BY <2>3, <1>10, <1>15, <1>16
    <2>4. CASE inc = [kept EXCEPT ![k] = None]
        BY <2>4, <1>10, <1>16
    <2> QED
        BY <2>1, <2>2, <2>3, <2>4
<1>19. PICK live : live = {q \in Key : inc[q] # None}
    OBVIOUS
<1>20. live = Live' /\ live \subseteq left \cup {k}
    BY <1>17, <1>18, <1>19 DEF Live
<1>21. TypeOK'
    BY <1>9, <1>11, <1>12, <1>17, <1>18 DEF TypeOK, Live
<1>22. LiveTracked'
    BY <1>9, <1>11, <1>20 DEF LiveTracked
<1>23. AssembliesBounded'
    <2>1. Cardinality(live) <= Cardinality(left \cup {k}) /\ IsFiniteSet(live)
        BY <1>11, <1>20, FS_Subset
    <2>2. Cardinality(live) \in Nat /\ Cardinality(left \cup {k}) \in Nat /\ MaxAssemblies \in Nat
        BY <2>1, <1>11, FS_CardinalityType, SizeAssumption
    <2> QED
        BY <2>1, <2>2, <1>11, <1>20 DEF AssembliesBounded
<1> QED
    BY <1>21, <1>22, <1>23 DEF IInv

\* A step that only drops assemblies and leaves lru_order alone.
LEMMA DropAssemblies ==
    ASSUME IInv, UNCHANGED lru_order,
           incomplete' \in [Key -> Assembly \cup {None}],
           \A q \in Key : incomplete'[q] \in {incomplete[q], None},
           sent' \in [Key -> SUBSET {m \in Message : TotalFragments(m) \in 1..MaxFragments}],
           now' \in Nat
    PROVE  IInv'
<1>1. PICK inc : inc = incomplete'
    OBVIOUS
<1>2. PICK live : live = {q \in Key : inc[q] # None}
    OBVIOUS
<1>3. live = Live' /\ live \subseteq Live
    BY <1>1, <1>2 DEF Live
<1>4. \A q \in live : inc[q] = incomplete[q] /\ q \in Live
    BY <1>1, <1>2, <1>3
<1>5. TypeOK'
    <2>1. \A q \in live : /\ inc[q].have \subseteq 0..(inc[q].total - 1)
                          /\ Cardinality(inc[q].have) < inc[q].total
        BY <1>4 DEF IInv, TypeOK
    <2> QED
        BY <2>1, <1>1, <1>3 DEF IInv, TypeOK
<1>6. LiveTracked'
    BY <1>3 DEF IInv, LiveTracked
<1>7. AssembliesBounded'
    <2>1. IsFiniteSet(Live)
        BY LiveFinite DEF IInv
    <2>2. Cardinality(live) <= Cardinality(Live) /\ IsFiniteSet(live)
        BY <2>1, <1>3, FS_Subset
    <2>3. Cardinality(live) \in Nat /\ Cardinality(Live) \in Nat /\ MaxAssemblies \in Nat
        BY <2>1, <2>2, FS_CardinalityType, SizeAssumption
    <2> QED
        BY <2>2, <2>3, <1>3 DEF IInv, AssembliesBounded
<1> QED
    BY <1>5, <1>6, <1>7 DEF IInv

-----------------------------------------------------------------------------
(* The theorems *)

LEMMA InitEstablishes == Init => IInv
<1> SUFFICES ASSUME Init PROVE IInv
    OBVIOUS
<1>1. Live = {}
    BY DEF Init, Live
<1>2. lru_order \in Seq(Key) /\ now \in Nat
    BY DEF Init
<1>3. TypeOK
    BY <1>1, <1>2 DEF Init, TypeOK
<1>4. LiveTracked
    BY <1>1 DEF LiveTracked
<1>5. AssembliesBounded
    BY <1>1, FS_EmptySet, SizeAssumption DEF AssembliesBounded
<1> QED
    BY <1>3, <1>4, <1>5 DEF IInv

LEMMA StepPreserves == IInv /\ [Next]_vars => IInv'
<1> SUFFICES ASSUME IInv, [Next]_vars PROVE IInv'
    OBVIOUS
<1>0. TypeOK
    BY DEF IInv
<1>1. ASSUME NEW k \in Key, NEW m \in Message, fragment_message(k, m)
      PROVE  IInv'
    <2>1. TotalFragments(m) \in 1..MaxFragments
        <3>1. m.data \in Seq(Nat) /\ m.data # << >>
            BY <1>1, SizeAssumption DEF fragment_message
        <3>2. Len(m.data) \in Nat \ {0} /\ FragmentSize \in Nat \ {0} /\ MaxFragments \in Nat
            BY <3>1, SizeAssumption
        <3>3. PICK x : x = Len(m.data) + FragmentSize - 1
            OBVIOUS
        <3>4. x \in Nat /\ x >= FragmentSize
            BY <3>2, <3>3
        <3>5. x \div FragmentSize \in Nat /\ x \div FragmentSize >= 1
            BY <3>2, <3>4, SMTT(30)
        <3>6. TotalFragments(m) = x \div FragmentSize
            BY <3>3 DEF TotalFragments
        <3> QED
            BY <3>2, <3>5, <3>6, <1>1 DEF fragment_message
    <2>2. /\ sent' \in [Key -> SUBSET {x \in Message : TotalFragments(x) \in 1..MaxFragments}]
          /\ UNCHANGED <<incomplete, lru_order, now>>
        BY <2>1, <1>0, <1>1 DEF fragment_message, TypeOK
    <2> QED
        BY <2>2, <1>0, DropAssemblies DEF TypeOK
<1>2. ASSUME NEW f \in Wire, add_fragment(f)
      PROVE  IInv'
    BY <1>2, AddFragment
<1>3. ASSUME NEW f \in Wire, add_single_fragment(f)
      PROVE  IInv'
    BY <1>0, <1>3, DropAssemblies DEF add_single_fragment, TypeOK
<1>4. ASSUME cleanup_expired
      PROVE  IInv'
    BY <1>0, <1>4, DropAssemblies DEF cleanup_expired, TypeOK
<1>5. ASSUME clear
      PROVE  IInv'
    <2>1. Live' = {}
        BY <1>5 DEF clear, Live
    <2>2. TypeOK'
        BY <1>0, <1>5, <2>1 DEF clear, TypeOK
    <2>3. LiveTracked'
        BY <2>1 DEF LiveTracked
    <2>4. AssembliesBounded'
        BY <2>1, FS_EmptySet, SizeAssumption DEF AssembliesBounded
    <2> QED
        BY <2>2, <2>3, <2>4 DEF IInv
<1>6. ASSUME Tick
      PROVE  IInv'
    BY <1>0, <1>6, DropAssemblies DEF Tick, TypeOK
<1>7. ASSUME UNCHANGED vars
      PROVE  IInv'
    BY <1>0, <1>7, DropAssemblies DEF vars, TypeOK
<1> QED
    BY <1>1, <1>2, <1>3, <1>4, <1>5, <1>6, <1>7 DEF Next

\* The inductive invariant holds throughout.
THEOREM Invariance == Spec => []IInv
<1> QED
    BY InitEstablishes, StepPreserves, PTL DEF Spec

\* Assemblies are well formed and never left behind complete, whatever arrives.
THEOREM TypeCorrect == Spec => []TypeOK
<1>1. IInv => TypeOK
    BY DEF IInv
<1> QED
    BY <1>1, Invariance, PTL

\* However many senders, messages and repetitions, the receiver never holds
\* more assemblies than MAX_FRAGMENT_ASSEMBLIES.
THEOREM LimitHolds == Spec => []AssembliesBounded
<1>1. IInv => AssembliesBounded
    BY DEF IInv
<1> QED
    BY <1>1, Invariance, PTL

-----------------------------------------------------------------------------
(* What is returned is what was sent *)

\* The assembly a of a key holds fragments of the one message m sent under it.
HoldsFragmentsOf(a, m) ==
    /\ a.total = TotalFragments(m) /\ a.type = m.type
    /\ \A i \in a.have : a.data[i] = Chunk(m, i)

Genuine ==
    \A k \in Key : incomplete[k] # None =>
        /\ sent[k] # {}
        /\ \A m \in Message : sent[k] = {m} => HoldsFragmentsOf(incomplete[k], m)

ReturnedKnown == \A d \in returned : d.key \in Key /\ sent[d.key] # {}

FInv == IInv /\ Genuine /\ ReturnedKnown /\ Faithful

\* A fragment of a key under which one message was sent is one of that message.
LEMMA WireGenuine ==
    ASSUME TypeOK, NEW f \in Wire
    PROVE  /\ f.key \in Key /\ sent[f.key] # {}
           /\ \A m \in Message : sent[f.key] = {m} =>
                 f.total = TotalFragments(m) /\ f.type = m.type /\ f.data = Chunk(m, f.index)
<1>1. PICK k \in Key : \E m \in sent[k] : f \in FragmentsOf(k, m)
    BY DEF Wire
<1>2. PICK m \in sent[k] : f \in FragmentsOf(k, m)
    BY <1>1
<1>3. PICK i \in 0..(TotalFragments(m) - 1) :
          f = [key |-> k, index |-> i, total |-> TotalFragments(m), type |-> m.type,
               data |-> Chunk(m, i)]
    BY <1>2 DEF FragmentsOf
<1>4. f.key = k /\ f.index = i /\ f.total = TotalFragments(m) /\ f.type = m.type
      /\ f.data = Chunk(m, i)
    BY <1>3
<1> QED
    BY <1>2, <1>4

\* A complete assembly of fragments of m joins to m.
LEMMA CompleteJoins ==
    ASSUME NEW m \in Message, TotalFragments(m) \in 1..MaxFragments,
           NEW b \in Assembly, b.have \subseteq 0..(b.total - 1),
           is_complete(b), HoldsFragmentsOf(b, m)
    PROVE  Reassembled(b) = m
<1>1. PICK n : n = TotalFragments(m)
    OBVIOUS
<1>2. n \in Nat /\ b.total = n /\ n >= 1
    BY <1>1, SizeAssumption DEF HoldsFragmentsOf
<1>3. b.have = 0..(n - 1)
    <2>1. IsFiniteSet(0..(n - 1)) /\ Cardinality(0..(n - 1)) = n
        <3>1. 0 \in Int /\ n - 1 \in Int
            BY <1>2
        <3>2. PICK k : k = n - 1
            OBVIOUS
        <3>3. IsFiniteSet(0..k) /\ Cardinality(0..k) = IF 0 > k THEN 0 ELSE k - 0 + 1
            BY <3>1, <3>2, FS_Interval
        <3> QED
            BY <1>2, <3>1, <3>2, <3>3
    <2>2. b.have \in SUBSET (0..(n - 1)) /\ Cardinality(b.have) = n
        BY <1>2 DEF is_complete
    <2> QED
        BY <2>1, <2>2, FS_Subset
<1>4. \A i \in 1..n : b.data[i - 1] = Chunk(m, i - 1)
    <2>1. ASSUME NEW i \in 1..n PROVE b.data[i - 1] = Chunk(m, i - 1)
        <3>1. i - 1 \in b.have
            BY <1>2, <1>3
        <3> QED
            BY <3>1 DEF HoldsFragmentsOf
    <2> QED
        BY <2>1
<1>5. [i \in 1..n |-> b.data[i - 1]] = [i \in 1..n |-> Chunk(m, i - 1)]
    BY <1>4, Zenon
<1>6. FlattenSeq([i \in 1..n |-> Chunk(m, i - 1)]) = m.data
    BY <1>1, ChunksJoin
<1>7. FlattenSeq([i \in 1..n |-> b.data[i - 1]]) = m.data
    BY <1>5, <1>6, Zenon
<1>8. b.type = m.type
    BY DEF HoldsFragmentsOf
<1>9. Reassembled(b) = [data |-> m.data, type |-> m.type]
    BY <1>2, <1>7, <1>8, Zenon DEF Reassembled
<1>10. m \in [data : Seq(Nat), type : Nat]
    BY SizeAssumption
<1>11. m = [data |-> m.data, type |-> m.type]
    BY <1>10
<1> QED
    BY <1>9, <1>11

LEMMA AddFragmentGenuine ==
    ASSUME FInv, NEW f \in Wire, add_fragment(f)
    PROVE  Genuine' /\ ReturnedKnown' /\ Faithful'
<1>0. TypeOK /\ IInv /\ Genuine
    BY DEF FInv, IInv
<1>1. PICK k : k = f.key
    OBVIOUS
<1>2. PICK out : out = ToSet(SubSeq(lru_order, 1, IF k \in Live THEN 0 ELSE Evictions))
    OBVIOUS
<1>3. PICK kept : kept = [q \in Key |-> IF q \in out THEN None ELSE incomplete[q]]
    OBVIOUS
<1>4. PICK a : a = IF k \in Live THEN incomplete[k] ELSE NewAssembly(f)
    OBVIOUS
<1>5. f.total # 1 /\ Assemble(f, k, kept, a) /\ UNCHANGED sent
    BY <1>1, <1>2, <1>3, <1>4 DEF add_fragment, AssemblyKey
<1>6. PICK b : b = WithFragment(a, f)
    OBVIOUS
<1>7. /\ k \in Key /\ sent[k] # {}
      /\ \A m \in Message : sent[k] = {m} =>
            f.total = TotalFragments(m) /\ f.type = m.type /\ f.data = Chunk(m, f.index)
    BY <1>0, <1>1, WireGenuine
<1>8. /\ a \in Assembly \cup {NewAssembly(f)} /\ a.have \subseteq 0..(a.total - 1)
      /\ \A m \in Message : sent[k] = {m} =>
            \A i \in a.have : a.data[i] = Chunk(m, i)
    <2>1. CASE k \in Live
        BY <2>1, <1>0, <1>4, <1>7 DEF TypeOK, Live, Genuine, HoldsFragmentsOf
    <2>2. CASE k \notin Live
        BY <2>2, <1>4 DEF NewAssembly
    <2> QED
        BY <2>1, <2>2
<1>9. ASSUME a.total = f.total, a.type = f.type
      PROVE  /\ b \in Assembly /\ b.have \subseteq 0..(b.total - 1)
             /\ \A m \in Message : sent[k] = {m} => HoldsFragmentsOf(b, m)
    <2>1. b \in Assembly /\ b.have \subseteq 0..(b.total - 1) /\ b.total = a.total
        BY <1>0, <1>5, <1>6, <1>8, <1>9, AssemblyType
    <2>2. ASSUME NEW m \in Message, sent[k] = {m}
          PROVE  HoldsFragmentsOf(b, m)
        <3>1. CASE f.index \in a.have
            BY <3>1, <2>2, <1>6, <1>7, <1>8, <1>9 DEF WithFragment, HoldsFragmentsOf
        <3>2. CASE f.index \notin a.have
            <4>1. a \in Assembly /\ f.index \in Index
                <5>1. f.index \in b.have
                    <6>1. a \in [total : 2..MaxFragments, type : {x.type : x \in Message},
                                 have : SUBSET Index, data : [Index -> Seq(Nat)], first : Nat]
                        BY <1>0, <1>5, <1>8, NewIsAssembly DEF Assembly
                    <6> QED
                        BY <6>1, <3>2, <1>6 DEF WithFragment
                <5> QED
                    BY <5>1, <2>1, <1>0, <1>5, <1>8, NewIsAssembly DEF Assembly
            <4>2. /\ b.type = a.type /\ b.have = a.have \cup {f.index}
                  /\ b.data = [a.data EXCEPT ![f.index] = f.data]
                BY <4>1, <3>2, <1>6 DEF WithFragment, Assembly
            <4>3. a.data \in [Index -> Seq(Nat)] /\ a.have \subseteq Index
                BY <4>1 DEF Assembly
            <4> QED
                BY <4>1, <4>2, <4>3, <2>1, <2>2, <1>7, <1>8, <1>9 DEF HoldsFragmentsOf
        <3> QED
            BY <3>1, <3>2
    <2> QED
        BY <2>1, <2>2
<1>10. \A q \in Key : kept[q] # None => kept[q] = incomplete[q]
    BY <1>3
<1>11. Genuine'
    <2>1. \/ incomplete' = kept
          \/ /\ a.total = f.total /\ a.type = f.type
             /\ incomplete' = [kept EXCEPT ![k] = b]
          \/ incomplete' = [kept EXCEPT ![k] = None]
        BY <1>5, <1>6 DEF Assemble
    <2>2. CASE incomplete' = kept
        BY <2>2, <1>0, <1>5, <1>10 DEF Genuine
    <2>3. CASE /\ a.total = f.total /\ a.type = f.type
               /\ incomplete' = [kept EXCEPT ![k] = b]
        <3>1. \A q \in Key : incomplete'[q] = IF q = k THEN b ELSE kept[q]
            BY <2>3, <1>3
        <3> QED
            BY <3>1, <2>3, <1>0, <1>5, <1>7, <1>9, <1>10 DEF Genuine
    <2>4. CASE incomplete' = [kept EXCEPT ![k] = None]
        <3>1. \A q \in Key : incomplete'[q] = IF q = k THEN None ELSE kept[q]
            BY <2>4, <1>3
        <3> QED
            BY <3>1, <1>0, <1>5, <1>10 DEF Genuine
    <2> QED
        BY <2>1, <2>2, <2>3, <2>4
<1>12. \/ returned' = {}
       \/ /\ a.total = f.total /\ a.type = f.type /\ is_complete(b)
          /\ returned' = {[key |-> k, message |-> Reassembled(b)]}
    BY <1>1, <1>5, <1>6 DEF Assemble
<1>13. ReturnedKnown'
    BY <1>5, <1>7, <1>12 DEF ReturnedKnown
<1>14. Faithful'
    <2>1. CASE returned' = {}
        BY <2>1 DEF Faithful
    <2>2. CASE /\ a.total = f.total /\ a.type = f.type /\ is_complete(b)
               /\ returned' = {[key |-> k, message |-> Reassembled(b)]}
        <3>1. ASSUME NEW m \in sent[k], sent[k] = {m}
              PROVE  Reassembled(b) = m
            <4>1. m \in Message /\ TotalFragments(m) \in 1..MaxFragments
                BY <1>0, <1>7 DEF TypeOK
            <4> QED
                BY <4>1, <3>1, <2>2, <1>9, CompleteJoins
        <3> QED
            BY <3>1, <2>2, <1>5 DEF Faithful
    <2> QED
        BY <2>1, <2>2, <1>12
<1> QED
    BY <1>11, <1>13, <1>14

LEMMA FInitEstablishes == Init => FInv
    BY InitEstablishes DEF Init, FInv, Genuine, ReturnedKnown, Faithful

LEMMA FStepPreserves == FInv /\ [Next]_vars => FInv'
<1> SUFFICES ASSUME FInv, [Next]_vars PROVE Genuine' /\ ReturnedKnown' /\ Faithful'
    BY StepPreserves DEF FInv
<1>0. TypeOK /\ Genuine /\ ReturnedKnown /\ Faithful
    BY DEF FInv, IInv
<1>1. ASSUME NEW k \in Key, NEW m \in Message, fragment_message(k, m)
      PROVE  Genuine' /\ ReturnedKnown' /\ Faithful'
    <2>1. /\ sent' = [sent EXCEPT ![k] = sent[k] \cup {m}]
          /\ UNCHANGED <<incomplete, returned>>
        BY <1>1 DEF fragment_message
    <2>2. \A q \in Key : /\ sent[q] \subseteq sent'[q]
                         /\ \A x : (sent[q] # {} /\ sent'[q] = {x}) => sent[q] = {x}
        BY <2>1, <1>0 DEF TypeOK
    <2>3. Genuine'
        BY <2>1, <2>2, <1>0 DEF Genuine
    <2>4. ReturnedKnown'
        BY <2>1, <2>2, <1>0 DEF ReturnedKnown
    <2>5. Faithful'
        BY <2>1, <2>2, <1>0 DEF ReturnedKnown, Faithful
    <2> QED
        BY <2>3, <2>4, <2>5
<1>2. ASSUME NEW f \in Wire, add_fragment(f)
      PROVE  Genuine' /\ ReturnedKnown' /\ Faithful'
    BY <1>2, AddFragmentGenuine
<1>3. ASSUME NEW f \in Wire, add_single_fragment(f)
      PROVE  Genuine' /\ ReturnedKnown' /\ Faithful'
    <2>1. /\ f.total = 1 /\ UNCHANGED <<sent, incomplete>>
          /\ returned' = {[key |-> f.key, message |-> [data |-> f.data, type |-> f.type]]}
        BY <1>3 DEF add_single_fragment
    <2>2. f.key \in Key /\ sent[f.key] # {}
        BY <1>0, WireGenuine
    <2>3. ASSUME NEW m \in sent[f.key], sent[f.key] = {m}
          PROVE  [data |-> f.data, type |-> f.type] = m
        <3>1. m \in Message /\ TotalFragments(m) \in 1..MaxFragments
            BY <1>0, <2>2 DEF TypeOK
        <3>2. /\ f.type = m.type /\ f.data = Chunk(m, f.index) /\ TotalFragments(m) = 1
              /\ f.index = 0
            BY <1>0, <2>1, <2>3, <3>1, WireGenuine, WireType
        <3>3. PICK c : c = Chunk(m, 0)
            OBVIOUS
        <3>4. PICK one : one = [i \in 1..1 |-> Chunk(m, i - 1)]
            OBVIOUS
        <3>5. FlattenSeq(one) = m.data
            BY <3>1, <3>2, <3>4, ChunksJoin
        <3>6. Len(one) = 1 /\ one[1] = c
            BY <3>3, <3>4
        <3>7. FlattenSeq(one) = one[Len(one)]
            <4>1. Len(one) \in Nat \ {0} /\ \A i \in 1..Len(one) : i = 1
                BY <3>6
            <4>2. \A i \in 1..Len(one) :
                      one[i] = IF i = 1 THEN one[i] ELSE one[i - 1] \o one[i]
                BY <4>1, Zenon
            <4> QED
                BY <4>1, <4>2, FlattenBy, Zenon
        <3>8. f.data = m.data
            BY <3>2, <3>3, <3>5, <3>6, <3>7
        <3>9. m \in [data : Seq(Nat), type : Nat]
            BY <3>1, SizeAssumption
        <3> QED
            BY <3>2, <3>8, <3>9
    <2>4. Genuine'
        BY <2>1, <1>0 DEF Genuine
    <2>5. ReturnedKnown'
        BY <2>1, <2>2 DEF ReturnedKnown
    <2>6. Faithful'
        BY <2>1, <2>3 DEF Faithful
    <2> QED
        BY <2>4, <2>5, <2>6
<1>4. ASSUME UNCHANGED <<sent, returned>>,
             \A q \in Key : incomplete'[q] \in {incomplete[q], None}
      PROVE  Genuine' /\ ReturnedKnown' /\ Faithful'
    BY <1>0, <1>4 DEF Genuine, ReturnedKnown, Faithful
<1>5. ASSUME cleanup_expired \/ clear \/ Tick \/ UNCHANGED vars
      PROVE  UNCHANGED <<sent, returned>> /\ \A q \in Key : incomplete'[q] \in {incomplete[q], None}
    BY <1>5 DEF cleanup_expired, clear, Tick, vars
<1> QED
    BY <1>1, <1>2, <1>3, <1>4, <1>5 DEF Next

\* Whatever the transport loses, repeats or reorders, and whatever is evicted or
\* expires, a message returned for a sender and an id used once is the message
\* that was fragmented.
THEOREM FaithfulHolds == Spec => []Faithful
<1>1. FInv => Faithful
    BY DEF FInv
<1> QED
    BY <1>1, FInitEstablishes, FStepPreserves, PTL DEF Spec

\* Assemblies stay well formed and within the limit of enforce_assembly_limit.
THEOREM AssembliesAreSound == Spec => []AssembliesSound
BY TypeCorrect, LimitHolds, PTL DEF AssembliesSound

-----------------------------------------------------------------------------
(* The network of the simulator *)

LEMMA RetainRuns ==
    ASSUME NEW S, NEW s \in Seq(S), NEW kept
    PROVE  \E f : /\ f[0] = <<>>
                  /\ \A i \in 1 .. Len(s) :
                        f[i] = IF i \in kept THEN Append(f[i - 1], s[i]) ELSE f[i - 1]
                  /\ Retain(s, kept) = f[Len(s)]
<1> DEFINE Is(f) == f = [i \in 0 .. Len(s) |-> IF i = 0 THEN <<>>
                             ELSE IF i \in kept THEN Append(f[i - 1], s[i]) ELSE f[i - 1]]
           turn == [i \in 1 .. Len(s) |-> [t \in Seq(S) |-> IF i \in kept THEN Append(t, s[i]) ELSE t]]
<1>1. turn \in [1 .. Len(s) -> [Seq(S) -> Seq(S)]]
    <2>1. ASSUME NEW i \in 1 .. Len(s), NEW t \in Seq(S) PROVE Append(t, s[i]) \in Seq(S)
        OBVIOUS
    <2> QED
        BY <2>1
<1>2. Len(s) \in Nat /\ <<>> \in Seq(S)
    OBVIOUS
<1>3. PICK g \in [0 .. Len(s) -> Seq(S)] :
          g[0] = <<>> /\ \A i \in 1 .. Len(s) : g[i] = turn[i][g[i - 1]]
    <2>1. IsLoop(Len(s), Seq(S), <<>>, turn)
        BY <1>1, <1>2 DEF IsLoop
    <2> HIDE DEF turn
    <2>2. \E g : IsRun(g, Len(s), Seq(S), <<>>, turn)
        BY <2>1, LoopRuns
    <2> QED
        BY <2>2 DEF IsRun
<1>4. ASSUME NEW i \in 1 .. Len(s)
      PROVE  g[i] = IF i \in kept THEN Append(g[i - 1], s[i]) ELSE g[i - 1]
    <2>1. i - 1 \in 0 .. Len(s) /\ g[i - 1] \in Seq(S)
        BY <1>2
    <2>2. g[i] = turn[i][g[i - 1]]
        BY <1>3
    <2> QED
        BY <2>1, <2>2
<1> HIDE DEF turn
<1>5. Is(g)
    <2>1. g = [i \in 0 .. Len(s) |-> g[i]]
        OBVIOUS
    <2>2. ASSUME NEW i \in 0 .. Len(s)
          PROVE  g[i] = IF i = 0 THEN <<>>
                        ELSE IF i \in kept THEN Append(g[i - 1], s[i]) ELSE g[i - 1]
        <3>1. CASE i = 0
            BY <3>1, <1>3
        <3>2. CASE i # 0
            <4>1. i \in 1 .. Len(s)
                BY <1>2, <3>2
            <4> QED
                BY <4>1, <3>2, <1>4
        <3> QED
            BY <3>1, <3>2
    <2> QED
        BY <2>1, <2>2
<1> DEFINE f == CHOOSE h : Is(h)
<1>6. Is(f)
    BY <1>5
<1>7. Retain(s, kept) = f[Len(s)]
    BY DEF Retain
<1> HIDE DEF f
<1>8. f[0] = <<>>
    BY <1>2, <1>6
<1>9. ASSUME NEW i \in 1 .. Len(s)
      PROVE  f[i] = IF i \in kept THEN Append(f[i - 1], s[i]) ELSE f[i - 1]
    <2>1. i \in 0 .. Len(s) /\ i # 0
        BY <1>2
    <2> QED
        BY <1>6, <2>1
<1> QED
    BY <1>7, <1>8, <1>9

\* The elements of out are elements of s at indices in I, each index used once.
Picked(out, s, I, m) ==
    /\ m \in [1 .. Len(out) -> I]
    /\ \A j, k \in 1 .. Len(out) : m[j] = m[k] => j = k
    /\ \A j \in 1 .. Len(out) : out[j] = s[m[j]]

LEMMA RetainPicks ==
    ASSUME NEW S, NEW s \in Seq(S), NEW kept \in SUBSET DOMAIN s
    PROVE  Retain(s, kept) \in Seq(S) /\ \E m : Picked(Retain(s, kept), s, kept, m)
<1>1. PICK f : /\ f[0] = <<>>
               /\ \A i \in 1 .. Len(s) :
                      f[i] = IF i \in kept THEN Append(f[i - 1], s[i]) ELSE f[i - 1]
               /\ Retain(s, kept) = f[Len(s)]
    BY RetainRuns
<1> DEFINE Good == {i \in 0 .. Len(s) :
                       f[i] \in Seq(S) /\ \E m : Picked(f[i], s, kept \cap (1 .. i), m)}
<1>2. Len(s) \in Nat /\ DOMAIN s = 1 .. Len(s)
    OBVIOUS
<1>3. 0 \in Good
    <2>1. f[0] \in Seq(S) /\ Len(f[0]) = 0
        BY <1>1
    <2>2. Picked(f[0], s, kept \cap (1 .. 0), [i \in 1 .. 0 |-> i])
        BY <2>1 DEF Picked
    <2>3. 0 \in 0 .. Len(s)
        BY <1>2
    <2> QED
        BY <2>1, <2>2, <2>3
<1>4. ASSUME NEW i \in 1 .. Len(s), i - 1 \in Good PROVE i \in Good
    <2>1. i \in 0 .. Len(s) /\ s[i] \in S
        BY <1>2
    <2>2. PICK m : f[i - 1] \in Seq(S) /\ Picked(f[i - 1], s, kept \cap (1 .. i - 1), m)
        BY <1>4
    <2>3. PICK t : t = f[i - 1]
        OBVIOUS
    <2>4. t \in Seq(S) /\ Len(t) \in Nat /\ m \in [1 .. Len(t) -> kept \cap (1 .. i - 1)]
        BY <2>2, <2>3 DEF Picked
    <2>5. CASE i \notin kept
        <3>1. f[i] = t
            BY <1>1, <2>3, <2>5
        <3>2. m \in [1 .. Len(t) -> kept \cap (1 .. i)]
            <4>1. kept \cap (1 .. i - 1) \subseteq kept \cap (1 .. i)
                BY <1>2
            <4> QED
                BY <2>4, <4>1
        <3>3. Picked(t, s, kept \cap (1 .. i), m)
            BY <3>2, <2>2, <2>3 DEF Picked
        <3> QED
            BY <2>1, <2>4, <3>1, <3>3
    <2>6. CASE i \in kept
        <3> DEFINE u == Append(t, s[i])
                   h == [j \in 1 .. Len(t) + 1 |-> IF j = Len(t) + 1 THEN i ELSE m[j]]
        <3>1. f[i] = u
            BY <1>1, <2>3, <2>6
        <3>2. u \in Seq(S) /\ Len(u) = Len(t) + 1
            BY <2>1, <2>4
        <3>3. \A j \in 1 .. Len(t) : u[j] = t[j]
            BY <2>1, <2>4
        <3>4. u[Len(t) + 1] = s[i]
            BY <2>1, <2>4
        <3> HIDE DEF u
        <3>5. \A j \in 1 .. Len(t) : m[j] \in kept /\ m[j] \in 1 .. i - 1
            BY <2>4
        <3>6. h \in [1 .. Len(u) -> kept \cap (1 .. i)]
            BY <3>2, <3>5, <2>4, <2>6, <1>2
        <3>7. \A j, k \in 1 .. Len(u) : h[j] = h[k] => j = k
            BY <3>2, <3>5, <2>2, <2>3, <2>4, <1>2 DEF Picked
        <3>8. ASSUME NEW j \in 1 .. Len(u) PROVE u[j] = s[h[j]]
            <4>1. CASE j = Len(t) + 1
                BY <4>1, <3>4, <3>2
            <4>2. CASE j # Len(t) + 1
                <5>1. j \in 1 .. Len(t)
                    BY <4>2, <3>2, <2>4
                <5> QED
                    BY <5>1, <4>2, <3>2, <3>3, <2>2, <2>3 DEF Picked
            <4> QED
                BY <4>1, <4>2
        <3> HIDE DEF h
        <3>9. Picked(u, s, kept \cap (1 .. i), h)
            BY <3>6, <3>7, <3>8 DEF Picked
        <3> QED
            BY <3>1, <3>2, <3>9, <2>1
    <2> QED
        BY <2>5, <2>6
<1>5. Len(s) \in Good
    <2> HIDE DEF Good
    <2>1. Good \in SUBSET (0 .. Len(s))
        BY DEF Good
    <2>2. Good = 0 .. Len(s)
        BY <1>2, <1>3, <1>4, <2>1, Upwards
    <2> QED
        BY <2>2, <1>2
<1>6. kept \cap (1 .. Len(s)) = kept
    BY <1>2
<1> QED
    BY <1>1, <1>5, <1>6

LEMMA RemoveAtIs ==
    ASSUME NEW S, NEW s \in Seq(S), NEW i \in 1 .. Len(s)
    PROVE  /\ RemoveAt(s, i) \in Seq(S)
           /\ Len(RemoveAt(s, i)) = Len(s) - 1
           /\ \A j \in 1 .. Len(s) - 1 : RemoveAt(s, i)[j] = IF j < i THEN s[j] ELSE s[j + 1]
<1> DEFINE l == SubSeq(s, 1, i - 1)
           r == SubSeq(s, i + 1, Len(s))
<1>1. l \in Seq(S) /\ Len(l) = i - 1 /\ \A j \in 1 .. i - 1 : l[j] = s[j]
    OBVIOUS
<1>2. r \in Seq(S) /\ Len(r) = Len(s) - i /\ \A j \in 1 .. Len(s) - i : r[j] = s[i + j]
    OBVIOUS
<1>3. RemoveAt(s, i) = l \o r
    BY DEF RemoveAt
<1> HIDE DEF l, r
<1>4. l \o r \in Seq(S) /\ Len(l \o r) = Len(s) - 1
    <2>1. l \o r \in Seq(S)
        BY <1>1, <1>2, ConcatProperties
    <2>2. Len(l \o r) = Len(l) + Len(r)
        BY <1>1, <1>2, ConcatProperties
    <2>3. Len(s) \in Nat /\ i \in Nat
        OBVIOUS
    <2> QED
        BY <1>1, <1>2, <2>1, <2>2, <2>3
<1>5. ASSUME NEW j \in 1 .. Len(s) - 1 PROVE (l \o r)[j] = IF j < i THEN s[j] ELSE s[j + 1]
    <2>1. CASE j < i
        <3>1. j \in 1 .. i - 1
            BY <2>1
        <3>2. (l \o r)[j] = l[j]
            BY <3>1, <1>1, <1>2
        <3> QED
            BY <2>1, <3>1, <3>2, <1>1
    <2>2. CASE ~(j < i)
        <3>1. j - (i - 1) \in 1 .. Len(s) - i /\ i + (j - (i - 1)) = j + 1
            BY <2>2
        <3>2. (l \o r)[j] = r[j - (i - 1)]
            <4>1. PICK k : k = j - (i - 1)
                OBVIOUS
            <4>2. Len(r) \in Nat /\ k \in 1 .. Len(r) /\ Len(l) + k = j
                BY <3>1, <4>1, <1>1, <1>2
            <4>3. (l \o r)[Len(l) + k] = r[k]
                BY <4>2, <1>1, <1>2, Joined
            <4> QED
                BY <4>1, <4>2, <4>3
        <3>3. r[j - (i - 1)] = s[i + (j - (i - 1))]
            BY <3>1, <1>2
        <3> QED
            BY <2>2, <3>1, <3>2, <3>3
    <2> QED
        BY <2>1, <2>2
<1> QED
    BY <1>3, <1>4, <1>5

LEMMA RemoveRuns ==
    ASSUME NEW S, NEW s \in Seq(S), NEW due
    PROVE  \E f : /\ f[0] = s
                  /\ \A n \in 1 .. Len(s) :
                        f[n] = IF Len(s) + 1 - n \in due
                               THEN RemoveAt(f[n - 1], Len(s) + 1 - n) ELSE f[n - 1]
                  /\ RemoveDelivered(s, due) = f[Len(s)]
<1> DEFINE I(n) == Len(s) + 1 - n
           Is(f) == f = [n \in 0 .. Len(s) |-> IF n = 0 THEN s
                             ELSE IF I(n) \in due THEN RemoveAt(f[n - 1], I(n)) ELSE f[n - 1]]
           turn == [n \in 1 .. Len(s) |-> [t \in Seq(S) |->
                       IF I(n) \in due /\ I(n) <= Len(t) THEN RemoveAt(t, I(n)) ELSE t]]
<1>1. Len(s) \in Nat /\ \A n \in 1 .. Len(s) : I(n) \in 1 .. Len(s)
    OBVIOUS
<1>2. turn \in [1 .. Len(s) -> [Seq(S) -> Seq(S)]]
    <2>1. ASSUME NEW n \in 1 .. Len(s), NEW t \in Seq(S), I(n) <= Len(t)
          PROVE  RemoveAt(t, I(n)) \in Seq(S)
        <3>1. I(n) \in 1 .. Len(t)
            BY <1>1, <2>1
        <3> QED
            BY <3>1, RemoveAtIs
    <2> QED
        BY <2>1
<1>3. PICK g \in [0 .. Len(s) -> Seq(S)] :
          g[0] = s /\ \A n \in 1 .. Len(s) : g[n] = turn[n][g[n - 1]]
    <2>1. IsLoop(Len(s), Seq(S), s, turn)
        BY <1>1, <1>2 DEF IsLoop
    <2> HIDE DEF turn
    <2>2. \E g : IsRun(g, Len(s), Seq(S), s, turn)
        BY <2>1, LoopRuns
    <2> QED
        BY <2>2 DEF IsRun
<1>4. ASSUME NEW n \in 1 .. Len(s)
      PROVE  /\ n - 1 \in 0 .. Len(s) /\ g[n - 1] \in Seq(S)
             /\ g[n] = IF I(n) \in due /\ I(n) <= Len(g[n - 1]) THEN RemoveAt(g[n - 1], I(n)) ELSE g[n - 1]
    <2>1. n - 1 \in 0 .. Len(s)
        BY <1>1
    <2>2. g[n - 1] \in Seq(S)
        BY <2>1
    <2>3. g[n] = turn[n][g[n - 1]]
        BY <1>3
    <2>4. turn[n] = [t \in Seq(S) |-> IF I(n) \in due /\ I(n) <= Len(t) THEN RemoveAt(t, I(n)) ELSE t]
        OBVIOUS
    <2> HIDE DEF turn
    <2> QED
        BY <2>1, <2>3, <2>4, <2>2
<1> HIDE DEF turn
<1> DEFINE Good == {n \in 0 .. Len(s) : Len(g[n]) >= Len(s) - n}
<1>5. Good = 0 .. Len(s)
    <2>1. 0 \in Good
        BY <1>1, <1>3
    <2>2. ASSUME NEW n \in 1 .. Len(s), n - 1 \in Good PROVE n \in Good
        <3>1. Len(g[n - 1]) >= I(n) /\ Len(g[n - 1]) \in Nat
            BY <2>2, <1>1, <1>4
        <3>2. Len(g[n]) >= Len(g[n - 1]) - 1 /\ Len(g[n]) \in Nat
            <4>1. CASE I(n) \in due
                <5>1. I(n) \in 1 .. Len(g[n - 1])
                    BY <3>1, <1>1
                <5>2. Len(RemoveAt(g[n - 1], I(n))) = Len(g[n - 1]) - 1
                    BY <5>1, <1>4, RemoveAtIs
                <5> QED
                    BY <3>1, <4>1, <5>1, <5>2, <1>4
            <4>2. CASE I(n) \notin due
                BY <3>1, <4>2, <1>4
            <4> QED
                BY <4>1, <4>2
        <3>3. n \in 0 .. Len(s)
            BY <1>1
        <3> QED
            BY <3>1, <3>2, <3>3, <1>1
    <2>3. Good \in SUBSET (0 .. Len(s))
        OBVIOUS
    <2> HIDE DEF Good
    <2> QED
        BY <1>1, <2>1, <2>2, <2>3, Upwards
<1>6. ASSUME NEW n \in 1 .. Len(s)
      PROVE  g[n] = IF I(n) \in due THEN RemoveAt(g[n - 1], I(n)) ELSE g[n - 1]
    <2>1. n - 1 \in Good
        BY <1>4, <1>5
    <2>2. I(n) <= Len(g[n - 1])
        BY <2>1, <1>1, <1>4
    <2> QED
        BY <2>2, <1>4
<1>7. Is(g)
    <2>1. g = [n \in 0 .. Len(s) |-> g[n]]
        OBVIOUS
    <2>2. ASSUME NEW n \in 0 .. Len(s)
          PROVE  g[n] = IF n = 0 THEN s
                        ELSE IF I(n) \in due THEN RemoveAt(g[n - 1], I(n)) ELSE g[n - 1]
        <3>1. CASE n = 0
            BY <3>1, <1>3
        <3>2. CASE n # 0
            <4>1. n \in 1 .. Len(s)
                BY <1>1, <3>2
            <4> QED
                BY <4>1, <3>2, <1>6
        <3> QED
            BY <3>1, <3>2
    <2> QED
        BY <2>1, <2>2
<1> DEFINE f == CHOOSE h : Is(h)
<1>8. Is(f)
    BY <1>7
<1>9. RemoveDelivered(s, due) = f[Len(s)]
    BY DEF RemoveDelivered
<1> HIDE DEF f
<1>10. f[0] = s
    BY <1>1, <1>8
<1>11. ASSUME NEW n \in 1 .. Len(s)
       PROVE  f[n] = IF I(n) \in due THEN RemoveAt(f[n - 1], I(n)) ELSE f[n - 1]
    <2>1. n \in 0 .. Len(s) /\ n # 0
        BY <1>1
    <2> QED
        BY <1>8, <2>1
<1> QED
    BY <1>9, <1>10, <1>11

LEMMA RemovePicks ==
    ASSUME NEW S, NEW s \in Seq(S), NEW due \in SUBSET DOMAIN s
    PROVE  /\ RemoveDelivered(s, due) \in Seq(S)
           /\ \E m : Picked(RemoveDelivered(s, due), s, DOMAIN s \ due, m)
<1> DEFINE I(n) == Len(s) + 1 - n
           Left(n) == {i \in 1 .. Len(s) : i <= Len(s) - n \/ i \notin due}
           Fine(t, n, m) == /\ t \in Seq(S) /\ Picked(t, s, Left(n), m)
                            /\ Len(t) >= Len(s) - n
                            /\ \A j \in 1 .. Len(s) - n : m[j] = j
<1>1. PICK f : /\ f[0] = s
               /\ \A n \in 1 .. Len(s) :
                      f[n] = IF I(n) \in due THEN RemoveAt(f[n - 1], I(n)) ELSE f[n - 1]
               /\ RemoveDelivered(s, due) = f[Len(s)]
    BY RemoveRuns
<1> DEFINE Good == {n \in 0 .. Len(s) : \E m : Fine(f[n], n, m)}
<1>2. Len(s) \in Nat /\ DOMAIN s = 1 .. Len(s) /\ \A n \in 1 .. Len(s) : I(n) \in 1 .. Len(s)
    OBVIOUS
<1>3. 0 \in Good
    <2> DEFINE m == [i \in 1 .. Len(s) |-> i]
    <2>1. m \in [1 .. Len(s) -> Left(0)]
        BY <1>2
    <2>2. Picked(s, s, Left(0), m)
        BY <2>1 DEF Picked
    <2>3. Fine(s, 0, m)
        BY <2>2, <1>2
    <2>4. 0 \in 0 .. Len(s)
        BY <1>2
    <2> QED
        BY <1>1, <2>3, <2>4
<1>4. ASSUME NEW n \in 1 .. Len(s), n - 1 \in Good PROVE n \in Good
    <2>1. PICK t, m : t = f[n - 1] /\ Fine(t, n - 1, m)
        BY <1>4
    <2>2. /\ t \in Seq(S) /\ Len(t) \in Nat /\ m \in [1 .. Len(t) -> Left(n - 1)]
          /\ Len(t) >= I(n) /\ \A j \in 1 .. I(n) : m[j] = j
        BY <2>1, <1>2 DEF Picked
    <2>3. /\ \A j, k \in 1 .. Len(t) : m[j] = m[k] => j = k
          /\ \A j \in 1 .. Len(t) : t[j] = s[m[j]]
        BY <2>1 DEF Picked
    <2>4. n \in 0 .. Len(s) /\ I(n) \in 1 .. Len(t) /\ I(n) - 1 = Len(s) - n /\ I(n) \in 1 .. Len(s)
        BY <1>2, <2>2
    <2>5. CASE I(n) \notin due
        <3>1. f[n] = t
            BY <1>1, <2>1, <2>5
        <3>2. Left(n - 1) \subseteq Left(n)
            BY <1>2, <2>5
        <3>3. m \in [1 .. Len(t) -> Left(n)]
            BY <2>2, <3>2
        <3>4. Picked(t, s, Left(n), m)
            BY <2>3, <3>3 DEF Picked
        <3>5. Fine(t, n, m)
            BY <3>4, <2>2, <2>4
        <3> QED
            BY <3>1, <3>5, <2>4
    <2>6. CASE I(n) \in due
        <3>1. PICK u : u = RemoveAt(t, I(n))
            OBVIOUS
        <3>2. f[n] = u
            BY <1>1, <2>1, <2>6, <3>1
        <3>3. /\ u \in Seq(S) /\ Len(u) = Len(t) - 1
              /\ \A j \in 1 .. Len(t) - 1 : u[j] = IF j < I(n) THEN t[j] ELSE t[j + 1]
            BY <2>2, <2>4, <3>1, RemoveAtIs
        <3> DEFINE at(j) == IF j < I(n) THEN j ELSE j + 1
                   h == [j \in 1 .. Len(u) |-> m[at(j)]]
        <3>4. \A j \in 1 .. Len(u) : at(j) \in 1 .. Len(t) /\ at(j) # I(n)
            BY <2>2, <2>4, <3>3
        <3>5. \A j, k \in 1 .. Len(u) : at(j) = at(k) => j = k
            BY <2>2, <2>4, <3>3
        <3>6. \A j \in 1 .. Len(u) : h[j] = m[at(j)] /\ u[j] = t[at(j)]
            BY <3>3
        <3>7. \A j \in 1 .. I(n) - 1 : j \in 1 .. Len(u) /\ at(j) = j
            BY <2>2, <2>4, <3>3
        <3>8. m[I(n)] = I(n)
            BY <2>2, <2>4
        <3> HIDE DEF at
        <3>9. h \in [1 .. Len(u) -> Left(n)]
            <4>1. ASSUME NEW j \in 1 .. Len(u) PROVE m[at(j)] \in Left(n)
                <5>1. m[at(j)] \in Left(n - 1) /\ m[at(j)] # I(n)
                    BY <2>2, <2>3, <2>4, <3>4, <3>8
                <5> QED
                    BY <5>1, <1>2
            <4> QED
                BY <4>1
        <3>10. \A j, k \in 1 .. Len(u) : h[j] = h[k] => j = k
            BY <2>3, <3>4, <3>5, <3>6
        <3>11. \A j \in 1 .. Len(u) : u[j] = s[h[j]]
            BY <2>3, <3>4, <3>6
        <3>12. \A j \in 1 .. I(n) - 1 : h[j] = j
            <4>1. ASSUME NEW j \in 1 .. I(n) - 1 PROVE h[j] = j
                <5>1. j \in 1 .. I(n)
                    BY <2>4
                <5> QED
                    BY <5>1, <3>6, <3>7, <2>2
            <4> QED
                BY <4>1
        <3> HIDE DEF h
        <3>13. Picked(u, s, Left(n), h)
            BY <3>9, <3>10, <3>11 DEF Picked
        <3>14. Len(u) >= Len(s) - n
            BY <2>2, <2>4, <3>3
        <3>15. Fine(u, n, h)
            BY <2>4, <3>3, <3>12, <3>13, <3>14
        <3> QED
            BY <3>2, <3>15, <2>4
    <2> QED
        BY <2>5, <2>6
<1>5. Len(s) \in Good
    <2> HIDE DEF Good
    <2>1. Good \in SUBSET (0 .. Len(s))
        BY DEF Good
    <2>2. Good = 0 .. Len(s)
        BY <1>2, <1>3, <1>4, <2>1, Upwards
    <2> QED
        BY <2>2, <1>2
<1>6. Left(Len(s)) = DOMAIN s \ due
    BY <1>2
<1>7. PICK m : Fine(f[Len(s)], Len(s), m)
    BY <1>5
<1> HIDE DEF Left
<1> QED
    BY <1>1, <1>6, <1>7

SimPacket == [from : SimPeer, to : SimPeer, seq : Nat, due : Nat]
SimArrival == [seq : Nat, from : SimPeer]

\* No two elements of q have the same sequence number, and all are below n.
Numbered(q, n) ==
    /\ \A i \in DOMAIN q : q[i].seq < n
    /\ \A i, j \in DOMAIN q : q[i].seq = q[j].seq => i = j
Disjoint(q, a) == \A i \in DOMAIN a, j \in DOMAIN q : q[j].seq # a[i].seq

\* QueuePurged of a queue.
Ghostless(q, r) == \A i \in DOMAIN q : q[i].seq >= r[q[i].to] /\ q[i].seq >= r[q[i].from]

NetInv ==
    /\ outgoing \in Seq(SimPacket) /\ pending_packets \in Seq(SimPacket)
    /\ arrived \in [SimPeer -> Seq(SimArrival)] /\ removed_at \in [SimPeer -> Nat]
    /\ next_sequence \in Nat /\ net_time \in Nat /\ net_profile \in DOMAIN Profile
    /\ Numbered(pending_packets, next_sequence)
    /\ \A p \in SimPeer : /\ Numbered(arrived[p], next_sequence)
                          /\ Disjoint(pending_packets, arrived[p])
                          /\ removed_at[p] <= next_sequence
    /\ Ghostless(pending_packets, removed_at)

\* A queue of what was at the indices in I.
Cut(out, q, I) ==
    /\ q \in Seq(SimPacket) /\ out \in Seq(SimPacket) /\ I \in SUBSET DOMAIN q
    /\ \E m : Picked(out, q, I, m)

LEMMA FewerPending ==
    ASSUME NEW q, NEW n, NEW I, NEW out, Numbered(q, n), Cut(out, q, I)
    PROVE  /\ Numbered(out, n)
           /\ \A j \in DOMAIN out : \E i \in I : out[j] = q[i]
           /\ \A a : Disjoint(q, a) => Disjoint(out, a)
           /\ \A r : Ghostless(q, r) => Ghostless(out, r)
<1>0. PICK m : Picked(out, q, I, m)
    BY DEF Cut
<1>1. DOMAIN out = 1 .. Len(out) /\ \A j \in DOMAIN out : m[j] \in I /\ m[j] \in DOMAIN q /\ out[j] = q[m[j]]
    BY <1>0 DEF Cut, Picked
<1>2. Numbered(out, n)
    <2>1. \A j, k \in DOMAIN out : m[j] = m[k] => j = k
        BY <1>0, <1>1 DEF Picked
    <2> QED
        BY <1>1, <2>1 DEF Numbered
<1>3. \A a : Disjoint(q, a) => Disjoint(out, a)
    BY <1>1 DEF Disjoint
<1>4. \A r : Ghostless(q, r) => Ghostless(out, r)
    BY <1>1 DEF Ghostless
<1> QED
    BY <1>1, <1>2, <1>3, <1>4

\* A peer's arrivals a, and b, some of the packets v on their way, to be added to them.
Joins(a, v, n, I, b) ==
    /\ a \in Seq(SimArrival) /\ v \in Seq(SimArrival) /\ b \in Seq(SimArrival)
    /\ n \in Nat /\ Numbered(a, n) /\ Numbered(v, n) /\ Disjoint(v, a)
    /\ I \in SUBSET DOMAIN v /\ \E m : Picked(b, v, I, m)

LEMMA MoreArrivals ==
    ASSUME NEW a, NEW v, NEW n, NEW I, NEW b, Joins(a, v, n, I, b)
    PROVE  /\ a \o b \in Seq(SimArrival)
           /\ Numbered(a \o b, n)
           /\ \A k \in DOMAIN (a \o b) : \/ \E i \in DOMAIN a : (a \o b)[k] = a[i]
                                        \/ \E i \in I : (a \o b)[k] = v[i]
<1> USE DEF Joins
<1>0. PICK m : Picked(b, v, I, m)
    OBVIOUS
<1>1. DOMAIN b = 1 .. Len(b) /\ \A j \in DOMAIN b : m[j] \in I /\ m[j] \in DOMAIN v /\ b[j] = v[m[j]]
    BY <1>0 DEF Picked
<1>2. \A j, k \in DOMAIN b : m[j] = m[k] => j = k
    BY <1>0, <1>1 DEF Picked
<1>3. PICK c : c = a \o b
    OBVIOUS
<1>4. c \in Seq(SimArrival)
    BY <1>3, ConcatProperties
<1>5. Len(c) = Len(a) + Len(b) /\ Len(a) \in Nat /\ Len(b) \in Nat /\ DOMAIN c = 1 .. Len(c) /\ DOMAIN a = 1 .. Len(a)
    BY <1>3, <1>4, ConcatProperties
<1>6. \A k \in 1 .. Len(a) : c[k] = a[k]
    BY <1>3, <1>5
<1>7. \A k \in DOMAIN c : k > Len(a) => k - Len(a) \in DOMAIN b /\ c[k] = b[k - Len(a)]
    BY <1>1, <1>3, <1>5
<1>8. ASSUME NEW k \in DOMAIN c
      PROVE  \/ k <= Len(a) /\ k \in DOMAIN a /\ c[k] = a[k]
             \/ k > Len(a) /\ m[k - Len(a)] \in I /\ k - Len(a) \in DOMAIN b /\ c[k] = v[m[k - Len(a)]]
    BY <1>1, <1>5, <1>6, <1>7
<1>9. ASSUME NEW k \in DOMAIN c PROVE c[k].seq < n
    BY <1>8 DEF Numbered
<1>10. ASSUME NEW k \in DOMAIN c, NEW l \in DOMAIN c, c[k].seq = c[l].seq PROVE k = l
    <2>1. k \in Nat /\ l \in Nat
        BY <1>5
    <2>2. CASE k <= Len(a) /\ l <= Len(a)
        <3>1. k \in DOMAIN a /\ c[k] = a[k]
            BY <2>1, <2>2, <1>5, <1>6
        <3>2. l \in DOMAIN a /\ c[l] = a[l]
            BY <2>1, <2>2, <1>5, <1>6
        <3> QED
            BY <3>1, <3>2, <1>10 DEF Numbered
    <2>3. CASE k <= Len(a) /\ l > Len(a)
        BY <2>3, <1>5, <1>8, <1>10 DEF Disjoint
    <2>4. CASE k > Len(a) /\ l <= Len(a)
        BY <2>4, <1>5, <1>8, <1>10 DEF Disjoint
    <2>5. CASE k > Len(a) /\ l > Len(a)
        <3>1. PICK x, y : x = k - Len(a) /\ y = l - Len(a)
            OBVIOUS
        <3>2. m[x] \in I /\ x \in DOMAIN b /\ c[k] = v[m[x]]
            BY <2>1, <2>5, <3>1, <1>5, <1>8
        <3>3. m[y] \in I /\ y \in DOMAIN b /\ c[l] = v[m[y]]
            BY <2>1, <2>5, <3>1, <1>5, <1>8
        <3>4. m[x] = m[y]
            BY <3>2, <3>3, <1>10 DEF Numbered
        <3>5. x = y
            BY <1>2, <1>5, <3>2, <3>3, <3>4
        <3> QED
            BY <3>1, <3>5, <2>1, <1>5
    <2> QED
        BY <2>1, <2>2, <2>3, <2>4, <2>5, <1>5
<1>11. Numbered(c, n)
    BY <1>9, <1>10 DEF Numbered
<1>12. ASSUME NEW k \in DOMAIN c
       PROVE (\E i \in DOMAIN a : c[k] = a[i]) \/ (\E i \in I : c[k] = v[i])
    BY <1>8
<1> QED
    BY <1>3, <1>4, <1>11, <1>12

LEMMA NetInvSound == NetInv => SimNetSound
<1> SUFFICES ASSUME NetInv PROVE SimNetSound
    OBVIOUS
<1>1. ArrivesOnce
    BY DEF NetInv, ArrivesOnce, Numbered, Disjoint
<1>2. QueuePurged
    BY DEF NetInv, QueuePurged, Ghostless
<1> QED
    BY <1>1, <1>2 DEF SimNetSound

LEMMA NetInitInv == NetInit => NetInv
<1> SUFFICES ASSUME NetInit PROVE NetInv
    OBVIOUS
<1>1. /\ outgoing \in Seq(SimPacket) /\ pending_packets \in Seq(SimPacket)
      /\ arrived \in [SimPeer -> Seq(SimArrival)] /\ removed_at \in [SimPeer -> Nat]
      /\ next_sequence \in Nat /\ net_time \in Nat /\ net_profile \in DOMAIN Profile
    BY DEF NetInit
<1>2. DOMAIN pending_packets = {} /\ \A p \in SimPeer : DOMAIN arrived[p] = {} /\ removed_at[p] <= next_sequence
    BY DEF NetInit
<1> QED
    BY <1>1, <1>2 DEF NetInv, Numbered, Disjoint, Ghostless

\* Some packets on their way are taken away, nothing else that counts changes.
LEMMA SomeTaken ==
    ASSUME NetInv, NEW kept \in SUBSET DOMAIN pending_packets,
           pending_packets' = Retain(pending_packets, kept)
    PROVE  /\ pending_packets' \in Seq(SimPacket)
           /\ Numbered(pending_packets', next_sequence)
           /\ \A j \in DOMAIN pending_packets' : \E i \in kept : pending_packets'[j] = pending_packets[i]
           /\ \A p \in SimPeer : Disjoint(pending_packets', arrived[p])
           /\ Ghostless(pending_packets', removed_at)
<1>1. PICK q, n, out : q = pending_packets /\ n = next_sequence /\ out = Retain(pending_packets, kept)
    OBVIOUS
<1>2. q \in Seq(SimPacket) /\ n \in Nat /\ Numbered(q, n)
    BY <1>1 DEF NetInv
<1>3. PICK I : I = kept
    OBVIOUS
<1>4. I \in SUBSET DOMAIN q /\ out = Retain(q, I)
    BY <1>1, <1>3
<1>5. out \in Seq(SimPacket) /\ \E m : Picked(out, q, I, m)
    BY <1>2, <1>4, RetainPicks
<1>6. Cut(out, q, I)
    BY <1>2, <1>4, <1>5 DEF Cut
<1>7. /\ Numbered(out, n)
      /\ \A j \in DOMAIN out : \E i \in I : out[j] = q[i]
      /\ \A a : Disjoint(q, a) => Disjoint(out, a)
      /\ \A r : Ghostless(q, r) => Ghostless(out, r)
    BY <1>2, <1>6, FewerPending
<1>8. \A p \in SimPeer : Disjoint(q, arrived[p])
    BY <1>1 DEF NetInv
<1>9. Ghostless(q, removed_at)
    BY <1>1 DEF NetInv
<1> QED
    BY <1>1, <1>3, <1>5, <1>7, <1>8, <1>9

\* A pkt with a new number joins the queue.
LEMMA OneMorePending ==
    ASSUME NEW q \in Seq(SimPacket), NEW n \in Nat, NEW l \in Nat, Numbered(q, l),
           NEW k \in SimPacket, n <= k.seq, k.seq < l, \A i \in DOMAIN q : q[i].seq # k.seq
    PROVE  /\ Append(q, k) \in Seq(SimPacket)
           /\ Numbered(Append(q, k), l)
           /\ \A j \in DOMAIN Append(q, k) : Append(q, k)[j] = k \/ \E i \in DOMAIN q : Append(q, k)[j] = q[i]
<1>1. PICK u : u = Append(q, k)
    OBVIOUS
<1>2. u \in Seq(SimPacket)
    BY <1>1
<1>3. /\ Len(u) = Len(q) + 1 /\ Len(q) \in Nat /\ DOMAIN u = 1 .. Len(u) /\ DOMAIN q = 1 .. Len(q)
      /\ u[Len(q) + 1] = k
    BY <1>1, <1>2
<1>4. \A j \in 1 .. Len(q) : u[j] = q[j]
    BY <1>1
<1>5. ASSUME NEW j \in DOMAIN u PROVE j = Len(q) + 1 \/ j \in DOMAIN q
    BY <1>3
<1>6. Numbered(u, l)
    BY <1>3, <1>4, <1>5 DEF Numbered
<1>7. \A j \in DOMAIN u : u[j] = k \/ \E i \in DOMAIN q : u[j] = q[i]
    BY <1>3, <1>4, <1>5
<1> QED
    BY <1>1, <1>2, <1>6, <1>7

LEMMA RemovePeerInv ==
    ASSUME NetInv, NEW p \in SimPeer, remove_peer(p)
    PROVE  NetInv'
<1>1. PICK kept : kept = PendingAt(LAMBDA k : k.to # p /\ k.from # p)
    OBVIOUS
<1>2. /\ kept \in SUBSET DOMAIN pending_packets
      /\ \A i \in kept : pending_packets[i].to # p /\ pending_packets[i].from # p
    BY <1>1 DEF PendingAt
<1>3. pending_packets' = Retain(pending_packets, kept)
    BY <1>1 DEF remove_peer
<1>4. /\ pending_packets' \in Seq(SimPacket)
      /\ Numbered(pending_packets', next_sequence)
      /\ \A j \in DOMAIN pending_packets' : \E i \in kept : pending_packets'[j] = pending_packets[i]
      /\ \A o \in SimPeer : Disjoint(pending_packets', arrived[o])
      /\ Ghostless(pending_packets', removed_at)
    BY <1>2, <1>3, SomeTaken
<1>5. /\ UNCHANGED <<outgoing, arrived, next_sequence, net_time, net_profile>>
      /\ removed_at' = [removed_at EXCEPT ![p] = next_sequence]
    BY DEF remove_peer
<1>6. removed_at' \in [SimPeer -> Nat] /\ \A o \in SimPeer : removed_at'[o] <= next_sequence
    BY <1>5 DEF NetInv
<1>7. Ghostless(pending_packets', removed_at')
    <2>1. ASSUME NEW j \in DOMAIN pending_packets'
          PROVE  /\ pending_packets'[j].seq >= removed_at'[pending_packets'[j].to]
                 /\ pending_packets'[j].seq >= removed_at'[pending_packets'[j].from]
        <3>1. PICK i \in kept : pending_packets'[j] = pending_packets[i]
            BY <1>4
        <3>2. /\ pending_packets[i].to # p /\ pending_packets[i].from # p
              /\ pending_packets[i].to \in SimPeer /\ pending_packets[i].from \in SimPeer
            <4>1. pending_packets[i] \in SimPacket
                BY <1>2 DEF NetInv
            <4> QED
                BY <4>1, <1>2 DEF SimPacket
        <3>3. /\ removed_at'[pending_packets[i].to] = removed_at[pending_packets[i].to]
              /\ removed_at'[pending_packets[i].from] = removed_at[pending_packets[i].from]
            BY <3>2, <1>5 DEF NetInv
        <3> QED
            BY <3>1, <3>3, <1>4 DEF Ghostless
    <2> QED
        BY <2>1 DEF Ghostless
<1> QED
    BY <1>4, <1>5, <1>6, <1>7 DEF NetInv

LEMMA PartitionInv ==
    ASSUME NetInv, NEW p \in SimPeer, NEW o \in SimPeer, partition_peers(p, o)
    PROVE  NetInv'
<1>1. PICK kept : kept = PendingAt(LAMBDA k : {k.from, k.to} # {p, o})
    OBVIOUS
<1>2. kept \in SUBSET DOMAIN pending_packets
    BY <1>1 DEF PendingAt
<1>3. pending_packets' = Retain(pending_packets, kept)
    BY <1>1 DEF partition_peers
<1>4. /\ pending_packets' \in Seq(SimPacket)
      /\ Numbered(pending_packets', next_sequence)
      /\ \A e \in SimPeer : Disjoint(pending_packets', arrived[e])
      /\ Ghostless(pending_packets', removed_at)
    BY <1>2, <1>3, SomeTaken
<1>5. UNCHANGED <<outgoing, arrived, removed_at, next_sequence, net_time, net_profile>>
    BY DEF partition_peers
<1> QED
    BY <1>4, <1>5 DEF NetInv

LEMMA RoutePacketInv ==
    ASSUME NetInv, NEW pkt \in SimPacket, pkt.seq = next_sequence,
           NEW latency \in Nat, NEW twice, RoutePacket(pkt, latency, twice),
           UNCHANGED <<arrived, removed_at, net_time, net_profile>>, outgoing' \in Seq(SimPacket)
    PROVE  NetInv'
<1>1. PICK q, n : q = pending_packets /\ n = next_sequence
    OBVIOUS
<1>2. q \in Seq(SimPacket) /\ n \in Nat /\ Numbered(q, n) /\ pkt.seq = n /\ net_time \in Nat
    BY <1>1 DEF NetInv
<1>3. PICK copy, late : /\ copy = [pkt EXCEPT !.seq = pkt.seq + 1]
                        /\ late = [pkt EXCEPT !.due = net_time + latency]
    OBVIOUS
<1>4. /\ copy \in SimPacket /\ copy.seq = n + 1 /\ copy.to = pkt.to /\ copy.from = pkt.from
      /\ late \in SimPacket /\ late.seq = n /\ late.to = pkt.to /\ late.from = pkt.from
    <2>1. pkt.from \in SimPeer /\ pkt.to \in SimPeer /\ pkt.due \in Nat
        BY DEF SimPacket
    <2>2. /\ copy = [from |-> pkt.from, to |-> pkt.to, seq |-> n + 1, due |-> pkt.due]
          /\ late = [from |-> pkt.from, to |-> pkt.to, seq |-> n, due |-> net_time + latency]
        BY <1>2, <1>3 DEF SimPacket
    <2>3. n + 1 \in Nat /\ net_time + latency \in Nat
        BY <1>2
    <2> QED
        BY <1>2, <2>1, <2>2, <2>3 DEF SimPacket
<1>5. PICK first, l : /\ first = IF twice THEN Append(q, copy) ELSE q
                      /\ l = n + IF twice THEN 2 ELSE 1
    OBVIOUS
<1>6. pending_packets' = Append(first, late) /\ next_sequence' = l
    BY <1>1, <1>2, <1>3, <1>5 DEF RoutePacket
<1>7. l \in Nat /\ n < l
    BY <1>2, <1>5
<1>8. \A i \in DOMAIN q : q[i].seq \in Nat
    <2>1. \A i \in DOMAIN q : q[i] \in SimPacket
        BY <1>2
    <2> QED
        BY <2>1 DEF SimPacket
<1>9. Numbered(q, l)
    BY <1>2, <1>7, <1>8 DEF Numbered
<1>10. \A i \in DOMAIN q : q[i].seq # n /\ q[i].seq # n + 1
    BY <1>2, <1>8 DEF Numbered
<1>11. /\ first \in Seq(SimPacket) /\ Numbered(first, l)
       /\ \A j \in DOMAIN first : first[j] = copy \/ \E i \in DOMAIN q : first[j] = q[i]
    <2>1. CASE twice
        <3>1. first = Append(q, copy) /\ n <= copy.seq /\ copy.seq < l
            BY <2>1, <1>2, <1>4, <1>5
        <3>2. \A i \in DOMAIN q : q[i].seq # copy.seq
            BY <1>4, <1>10
        <3> QED
            BY <3>1, <3>2, <1>2, <1>4, <1>7, <1>9, OneMorePending
    <2>2. CASE ~twice
        BY <2>2, <1>2, <1>5, <1>9
    <2> QED
        BY <2>1, <2>2
<1>12. /\ Append(first, late) \in Seq(SimPacket) /\ Numbered(Append(first, late), l)
       /\ \A j \in DOMAIN Append(first, late) :
              Append(first, late)[j] = late \/ \E i \in DOMAIN first : Append(first, late)[j] = first[i]
    <2>1. n <= late.seq /\ late.seq < l
        BY <1>2, <1>4, <1>7
    <2>2. \A i \in DOMAIN first : first[i].seq # late.seq
        <3>1. n + 1 # n
            BY <1>2
        <3> QED
            BY <3>1, <1>4, <1>10, <1>11
    <2> QED
        BY <2>1, <2>2, <1>2, <1>4, <1>7, <1>11, OneMorePending
<1>13. PICK out : out = Append(first, late)
    OBVIOUS
<1>14. \A j \in DOMAIN out : out[j] \in {copy, late} \/ \E i \in DOMAIN q : out[j] = q[i]
    BY <1>11, <1>12, <1>13
<1>15. ASSUME NEW p \in SimPeer PROVE Numbered(arrived[p], l) /\ Disjoint(out, arrived[p]) /\ removed_at[p] <= l
    <2>1. PICK a : a = arrived[p]
        OBVIOUS
    <2>2. a \in Seq(SimArrival) /\ Numbered(a, n) /\ Disjoint(q, a) /\ removed_at[p] <= n /\ removed_at[p] \in Nat
        BY <1>1, <2>1 DEF NetInv
    <2>3. \A i \in DOMAIN a : a[i].seq \in Nat
        <3>1. \A i \in DOMAIN a : a[i] \in SimArrival
            BY <2>2
        <3> QED
            BY <3>1 DEF SimArrival
    <2>4. Numbered(a, l)
        BY <2>2, <2>3, <1>2, <1>7 DEF Numbered
    <2>5. \A i \in DOMAIN a : a[i].seq # n /\ a[i].seq # n + 1
        BY <2>2, <2>3, <1>2 DEF Numbered
    <2>6. Disjoint(out, a)
        BY <2>2, <2>5, <1>4, <1>14 DEF Disjoint
    <2> QED
        BY <2>1, <2>2, <2>4, <2>6, <1>2, <1>7
<1>16. Ghostless(out, removed_at)
    <2>1. Ghostless(q, removed_at)
        BY <1>1 DEF NetInv
    <2>2. \A p \in SimPeer : removed_at[p] <= n /\ removed_at[p] \in Nat
        BY <1>1 DEF NetInv
    <2>3. pkt.to \in SimPeer /\ pkt.from \in SimPeer
        BY DEF SimPacket
    <2>4. \A k \in {copy, late} : k.seq >= removed_at[k.to] /\ k.seq >= removed_at[k.from]
        BY <2>2, <2>3, <1>2, <1>4
    <2> QED
        BY <2>1, <2>4, <1>14 DEF Ghostless
<1> QED
    BY <1>6, <1>7, <1>12, <1>13, <1>15, <1>16 DEF NetInv

LEMMA DropPacketInv ==
    ASSUME NetInv, NEW pkt, pkt.seq = next_sequence, Drop(pkt),
           UNCHANGED <<arrived, removed_at, net_time, net_profile>>, outgoing' \in Seq(SimPacket)
    PROVE  NetInv'
<1>1. next_sequence \in Nat /\ next_sequence' = next_sequence + 1 /\ UNCHANGED pending_packets
    BY DEF NetInv, Drop
<1>2. \A i \in DOMAIN pending_packets : pending_packets[i].seq \in Nat
    <2>1. \A i \in DOMAIN pending_packets : pending_packets[i] \in SimPacket
        BY DEF NetInv
    <2> QED
        BY <2>1 DEF SimPacket
<1>3. Numbered(pending_packets, next_sequence')
    BY <1>1, <1>2 DEF NetInv, Numbered
<1>4. ASSUME NEW p \in SimPeer PROVE Numbered(arrived[p], next_sequence') /\ removed_at[p] <= next_sequence'
    <2>1. \A i \in DOMAIN arrived[p] : arrived[p][i].seq \in Nat
        <3>1. arrived[p] \in Seq(SimArrival)
            BY DEF NetInv
        <3>2. \A i \in DOMAIN arrived[p] : arrived[p][i] \in SimArrival
            BY <3>1
        <3> QED
            BY <3>2 DEF SimArrival
    <2>2. Numbered(arrived[p], next_sequence')
        BY <2>1, <1>1 DEF NetInv, Numbered
    <2>3. removed_at[p] <= next_sequence'
        BY <1>1 DEF NetInv
    <2> QED
        BY <2>2, <2>3
<1> QED
    BY <1>1, <1>3, <1>4 DEF NetInv

LEMMA TakeOutgoingInv ==
    ASSUME NetInv, TakeOutgoing
    PROVE  NetInv'
<1>1. outgoing' \in Seq(SimPacket) /\ Head(outgoing) \in SimPacket
    BY DEF NetInv, TakeOutgoing
<1>2. PICK pkt : pkt = [Head(outgoing) EXCEPT !.seq = next_sequence]
    OBVIOUS
<1>3. pkt \in SimPacket /\ pkt.seq = next_sequence
    BY <1>1, <1>2 DEF SimPacket, NetInv
<1>4. UNCHANGED <<arrived, removed_at, net_time, net_profile>>
    BY DEF TakeOutgoing
<1>5. CASE Drop(pkt)
    BY <1>1, <1>3, <1>4, <1>5, DropPacketInv
<1>6. ASSUME NEW latency \in Profile[net_profile].latencies, NEW twice \in Profile[net_profile].duplicates,
             RoutePacket(pkt, latency, twice)
      PROVE  NetInv'
    <2>1. latency \in Nat
        BY LatenciesAreNaturals DEF NetInv
    <2> QED
        BY <1>1, <1>3, <1>4, <1>6, <2>1, RoutePacketInv
<1> QED
    BY <1>2, <1>5, <1>6 DEF TakeOutgoing, process_outgoing_packet

LEMMA DeliverReadyInv ==
    ASSUME NetInv, deliver_ready_packets
    PROVE  NetInv'
<1>1. PICK q, n, due : /\ q = pending_packets /\ n = next_sequence
                       /\ due = PendingAt(LAMBDA k : k.due <= net_time)
    OBVIOUS
<1>2. q \in Seq(SimPacket) /\ n \in Nat /\ Numbered(q, n) /\ due \in SUBSET DOMAIN q
    BY <1>1 DEF NetInv, PendingAt
<1>3. PICK view : view = [i \in DOMAIN q |-> [seq |-> q[i].seq, from |-> q[i].from]]
    OBVIOUS
<1>4. /\ view \in Seq(SimArrival) /\ DOMAIN view = DOMAIN q
      /\ \A i \in DOMAIN q : view[i].seq = q[i].seq
    <2>1. \A i \in DOMAIN q : q[i] \in SimPacket
        BY <1>2
    <2>2. \A i \in DOMAIN q : [seq |-> q[i].seq, from |-> q[i].from] \in SimArrival
        BY <2>1 DEF SimPacket, SimArrival
    <2>3. DOMAIN q = 1 .. Len(q) /\ Len(q) \in Nat
        BY <1>2
    <2>4. view \in [1 .. Len(q) -> SimArrival]
        BY <1>3, <2>2, <2>3
    <2>5. view \in Seq(SimArrival)
        BY <2>3, <2>4
    <2> QED
        BY <1>3, <2>5
<1>5. Numbered(view, n)
    BY <1>2, <1>4 DEF Numbered
<1>6. PICK out : out = RemoveDelivered(q, due)
    OBVIOUS
<1>7. Cut(out, q, DOMAIN q \ due)
    <2>1. out \in Seq(SimPacket) /\ \E m : Picked(out, q, DOMAIN q \ due, m)
        BY <1>2, <1>6, RemovePicks
    <2> QED
        BY <1>2, <2>1 DEF Cut
<1>8. /\ Numbered(out, n)
      /\ \A j \in DOMAIN out : \E i \in DOMAIN q \ due : out[j] = q[i]
      /\ \A a : Disjoint(q, a) => Disjoint(out, a)
      /\ \A r : Ghostless(q, r) => Ghostless(out, r)
    BY <1>2, <1>7, FewerPending
<1>9. pending_packets' = out /\ UNCHANGED <<outgoing, next_sequence, net_profile, removed_at, net_time>>
    BY <1>1, <1>6 DEF deliver_ready_packets
<1>10. out \in Seq(SimPacket)
    BY <1>7 DEF Cut
<1>11. ASSUME NEW p \in SimPeer
       PROVE  /\ arrived'[p] \in Seq(SimArrival) /\ Numbered(arrived'[p], n) /\ Disjoint(out, arrived'[p])
    <2>1. PICK a, I : a = arrived[p] /\ I = {i \in due : q[i].to = p}
        OBVIOUS
    <2>2. a \in Seq(SimArrival) /\ Numbered(a, n) /\ Disjoint(q, a)
        BY <1>1, <2>1 DEF NetInv
    <2>3. PICK b : b = Retain(view, I)
        OBVIOUS
    <2>4. arrived'[p] = a \/ arrived'[p] = a \o b
        BY <1>1, <1>3, <2>1, <2>3 DEF deliver_ready_packets
    <2>5. I \in SUBSET DOMAIN view /\ I \subseteq due
        BY <1>2, <1>4, <2>1
    <2>6. b \in Seq(SimArrival) /\ \E m : Picked(b, view, I, m)
        BY <1>4, <2>3, <2>5, RetainPicks
    <2>7. Disjoint(view, a)
        BY <2>2, <1>4 DEF Disjoint
    <2>8. /\ a \o b \in Seq(SimArrival)
          /\ Numbered(a \o b, n)
          /\ \A k \in DOMAIN (a \o b) : \/ \E i \in DOMAIN a : (a \o b)[k] = a[i]
                                       \/ \E i \in I : (a \o b)[k] = view[i]
        <3>1. Joins(a, view, n, I, b)
            BY <1>2, <1>4, <1>5, <2>2, <2>5, <2>6, <2>7 DEF Joins
        <3> QED
            BY <3>1, MoreArrivals
    <2>9. Disjoint(out, a)
        BY <1>8, <2>2
    <2>10. Disjoint(out, a \o b)
        <3>1. ASSUME NEW k \in DOMAIN (a \o b), NEW j \in DOMAIN out PROVE out[j].seq # (a \o b)[k].seq
            <4>1. CASE \E i \in DOMAIN a : (a \o b)[k] = a[i]
                BY <4>1, <2>9 DEF Disjoint
            <4>2. CASE \E i \in I : (a \o b)[k] = view[i]
                <5>1. PICK i \in I : (a \o b)[k] = view[i]
                    BY <4>2
                <5>2. PICK h \in DOMAIN q \ due : out[j] = q[h]
                    BY <1>8
                <5>3. i \in DOMAIN q /\ i # h /\ view[i].seq = q[i].seq
                    BY <1>2, <1>4, <2>5
                <5> QED
                    BY <5>1, <5>2, <5>3, <1>2 DEF Numbered
            <4> QED
                BY <4>1, <4>2, <2>8
        <3> QED
            BY <3>1 DEF Disjoint
    <2> QED
        BY <2>2, <2>4, <2>8, <2>9, <2>10
<1>12. arrived' \in [SimPeer -> Seq(SimArrival)]
    <2>1. arrived' = [p \in SimPeer |-> arrived'[p]]
        BY DEF deliver_ready_packets
    <2> QED
        BY <2>1, <1>11
<1>13. Ghostless(out, removed_at)
    BY <1>1, <1>8 DEF NetInv
<1> QED
    BY <1>1, <1>8, <1>9, <1>10, <1>11, <1>12, <1>13 DEF NetInv

LEMMA NetStep == NetInv /\ [NetNext]_netVars => NetInv'
<1> SUFFICES ASSUME NetInv, [NetNext]_netVars PROVE NetInv'
    OBVIOUS
<1>1. CASE TakeOutgoing
    BY <1>1, TakeOutgoingInv
<1>2. CASE deliver_ready_packets
    BY <1>2, DeliverReadyInv
<1>3. CASE NetTick
    BY <1>3 DEF NetTick, NetInv
<1>4. ASSUME NEW p \in SimPeer, add_peer(p) \/ DropHandle(p) PROVE NetInv'
    BY <1>4 DEF add_peer, DropHandle, NetInv
<1>5. ASSUME NEW p \in SimPeer, remove_peer(p) PROVE NetInv'
    BY <1>5, RemovePeerInv
<1>6. ASSUME NEW name \in DOMAIN Profile, set_profile(name) PROVE NetInv'
    BY <1>6 DEF set_profile, NetInv
<1>7. ASSUME NEW p \in SimPeer, NEW q \in SimPeer, partition_peers(p, q) PROVE NetInv'
    BY <1>7, PartitionInv
<1>8. ASSUME NEW p \in SimPeer, NEW q \in SimPeer, SendPacket(p, q) PROVE NetInv'
    <2>1. [from |-> p, to |-> q, seq |-> 0, due |-> net_time] \in SimPacket
        BY DEF NetInv, SimPacket
    <2>2. outgoing' \in Seq(SimPacket)
        BY <1>8, <2>1 DEF SendPacket, NetInv
    <2> QED
        BY <1>8, <2>2 DEF SendPacket, NetInv
<1>9. CASE UNCHANGED netVars
    BY <1>9 DEF netVars, NetInv
<1> QED
    BY <1>1, <1>2, <1>3, <1>4, <1>5, <1>6, <1>7, <1>8, <1>9 DEF NetNext

\* The simulated network delivers a packet, or a duplicate of it, at most once, and what it
\* had taken before the packet's sender or receiver was removed is no longer queued
\* (network_router.rs, deliver_ready_packets and remove_peer).
THEOREM SimulatedNetworkIsSound == NetSpec => []SimNetSound
<1>1. NetSpec => []NetInv
    BY NetInitInv, NetStep, PTL DEF NetSpec
<1> QED
    BY <1>1, NetInvSound, PTL

-----------------------------------------------------------------------------
(* Session synchronisation *)

LEMMA OldestIs ==
    ASSUME NEW refs \in SUBSET RefId, refs # {}
    PROVE  Oldest(refs) \in refs /\ \A j \in refs \ {Oldest(refs)} : OlderRef(Oldest(refs), j)
<1> USE SyncAssumption
<1> DEFINE stamps == {RefStamp[i] : i \in refs}
<1>1. stamps \in SUBSET Nat /\ stamps # {}
    OBVIOUS
<1>2. PICK s \in stamps : \A t \in stamps : s <= t
    <2> HIDE DEF stamps
    <2> QED
        BY <1>1, LeastNat
<1> DEFINE first == {i \in refs : RefStamp[i] = s}
<1>3. first \in SUBSET Nat /\ first # {}
    <2>1. refs \in SUBSET Nat
        BY DEF RefId
    <2> QED
        BY <1>2, <2>1
<1>4. PICK i \in first : \A j \in first : i <= j
    <2> HIDE DEF first
    <2> QED
        BY <1>3, LeastNat
<1>5. ASSUME NEW j \in refs \ {i} PROVE OlderRef(i, j)
    <2>1. i \in Nat /\ j \in Nat /\ RefStamp[i] \in Nat /\ RefStamp[j] \in Nat
        BY DEF RefId
    <2>2. RefStamp[i] = s /\ s <= RefStamp[j]
        BY <1>2
    <2>3. CASE RefStamp[j] = s
        <3>1. i <= j /\ i # j
            BY <1>4, <2>3
        <3> QED
            BY <2>1, <2>2, <2>3, <3>1 DEF OlderRef
    <2>4. CASE RefStamp[j] # s
        BY <2>1, <2>2, <2>4 DEF OlderRef
    <2> QED
        BY <2>3, <2>4
<1>6. \E x \in refs : \A j \in refs \ {x} : OlderRef(x, j)
    BY <1>5
<1> QED
    BY <1>6 DEF Oldest

LEMMA RefsFinite ==
    ASSUME NEW refs \in SUBSET RefId
    PROVE  IsFiniteSet(refs) /\ Cardinality(refs) \in Nat
<1>1. IsFiniteSet(RefId)
    <2>1. NumRefs \in Int /\ 1 \in Int
        BY SyncAssumption
    <2>2. IsFiniteSet(1 .. NumRefs)
        BY <2>1, FS_Interval
    <2> QED
        BY <2>2 DEF RefId
<1>2. IsFiniteSet(refs)
    BY <1>1, FS_Subset
<1> QED
    BY <1>2, FS_CardinalityType

\* What one more reference does to a table.
LEMMA WithRefOK ==
    ASSUME NEW refs \in SUBSET RefId, NEW i \in RefId, Cardinality(refs) <= MaxRefs
    PROVE  /\ WithRef(refs, i) \in SUBSET RefId
           /\ Cardinality(WithRef(refs, i)) <= MaxRefs
           /\ \A lost \in refs \ WithRef(refs, i), kept \in refs \cap WithRef(refs, i) : OlderRef(lost, kept)
           /\ WithRef(refs, i) \subseteq refs \cup {i}
<1> USE SyncAssumption
<1>1. IsFiniteSet(refs) /\ Cardinality(refs) \in Nat
    BY RefsFinite
<1>2. CASE Cardinality(refs) >= MaxRefs
    <2>1. refs # {}
        BY <1>2, FS_EmptySet
    <2>2. PICK o : o = Oldest(refs)
        OBVIOUS
    <2>3. o \in refs /\ \A j \in refs \ {o} : OlderRef(o, j)
        BY <2>1, <2>2, OldestIs
    <2>4. WithRef(refs, i) = (refs \ {o}) \cup {i}
        BY <1>2, <2>2 DEF WithRef
    <2>5. IsFiniteSet(refs \ {o}) /\ Cardinality(refs \ {o}) = Cardinality(refs) - 1
        BY <1>1, <2>3, FS_RemoveElement
    <2>6. Cardinality((refs \ {o}) \cup {i}) <= Cardinality(refs \ {o}) + 1
        <3>1. CASE i \in refs \ {o}
            <4>1. (refs \ {o}) \cup {i} = refs \ {o}
                BY <3>1
            <4> QED
                BY <4>1, <2>5, <1>1
        <3>2. CASE i \notin refs \ {o}
            <4>1. Cardinality((refs \ {o}) \cup {i}) = Cardinality(refs \ {o}) + 1
                BY <2>5, <3>2, FS_AddElement
            <4> QED
                BY <4>1, <2>5, <1>1
        <3> QED
            BY <3>1, <3>2
    <2>7. (refs \ {o}) \cup {i} \in SUBSET RefId
        OBVIOUS
    <2>8. Cardinality((refs \ {o}) \cup {i}) \in Nat
        BY <2>7, RefsFinite
    <2>9. Cardinality(WithRef(refs, i)) <= MaxRefs
        BY <2>4, <2>5, <2>6, <2>8, <1>1
    <2> QED
        BY <2>3, <2>4, <2>7, <2>9
<1>3. CASE ~(Cardinality(refs) >= MaxRefs)
    <2>1. WithRef(refs, i) = refs \cup {i}
        BY <1>3 DEF WithRef
    <2>2. refs \cup {i} \in SUBSET RefId
        OBVIOUS
    <2>3. Cardinality(refs \cup {i}) <= Cardinality(refs) + 1 /\ Cardinality(refs \cup {i}) \in Nat
        <3>1. CASE i \in refs
            <4>1. refs \cup {i} = refs
                BY <3>1
            <4> QED
                BY <4>1, <1>1
        <3>2. CASE i \notin refs
            <4>1. Cardinality(refs \cup {i}) = Cardinality(refs) + 1
                BY <3>2, <1>1, FS_AddElement
            <4> QED
                BY <4>1, <1>1
        <3> QED
            BY <3>1, <3>2
    <2>4. Cardinality(WithRef(refs, i)) <= MaxRefs
        BY <2>1, <2>3, <1>1, <1>3
    <2> QED
        BY <2>1, <2>2, <2>4
<1> QED
    BY <1>2, <1>3

\* What a response does to a table, however many references it brings.
LEMMA WithRefsOK ==
    ASSUME NEW refs \in SUBSET RefId, NEW new, Cardinality(refs) <= MaxRefs
    PROVE  /\ WithRefs(refs, new) \in SUBSET RefId
           /\ Cardinality(WithRefs(refs, new)) <= MaxRefs
           /\ \A lost \in refs \ WithRefs(refs, new), kept \in refs \cap WithRefs(refs, new) :
                  OlderRef(lost, kept) \/ kept \in new
<1> DEFINE Is(f) == f = [i \in 0 .. NumRefs |-> IF i = 0 THEN refs
                             ELSE IF i \in new THEN WithRef(f[i - 1], i) ELSE f[i - 1]]
           Table == {t \in SUBSET RefId : Cardinality(t) <= MaxRefs}
           turn == [i \in 1 .. NumRefs |-> [t \in Table |-> IF i \in new THEN WithRef(t, i) ELSE t]]
<1>1. NumRefs \in Nat
    BY SyncAssumption
<1>2. ASSUME NEW i \in 1 .. NumRefs, NEW t \in Table PROVE WithRef(t, i) \in Table
    <2>1. i \in RefId
        BY DEF RefId
    <2> QED
        BY <2>1, WithRefOK
<1>3. PICK g : IsRun(g, NumRefs, Table, refs, turn)
    <2>1. turn \in [1 .. NumRefs -> [Table -> Table]]
        <3> HIDE DEF Table
        <3> QED
            BY <1>2
    <2>2. IsLoop(NumRefs, Table, refs, turn)
        BY <1>1, <2>1 DEF IsLoop
    <2> HIDE DEF turn, Table
    <2> QED
        BY <2>2, LoopRuns
<1>4. ASSUME NEW i \in 1 .. NumRefs
      PROVE  g[i] = IF i \in new THEN WithRef(g[i - 1], i) ELSE g[i - 1]
    <2>1. i - 1 \in 0 .. NumRefs
        BY <1>1
    <2>2. g[i - 1] \in Table
        BY <2>1, <1>3 DEF IsRun
    <2>3. g[i] = turn[i][g[i - 1]]
        BY <1>3 DEF IsRun
    <2> HIDE DEF Table
    <2> QED
        BY <2>2, <2>3
<1> HIDE DEF turn
<1>5. Is(g)
    <2>1. g = [i \in 0 .. NumRefs |-> g[i]] /\ g[0] = refs
        BY <1>3 DEF IsRun
    <2>2. ASSUME NEW i \in 0 .. NumRefs
          PROVE  g[i] = IF i = 0 THEN refs
                        ELSE IF i \in new THEN WithRef(g[i - 1], i) ELSE g[i - 1]
        <3>1. CASE i = 0
            BY <3>1, <2>1
        <3>2. CASE i # 0
            <4>1. i \in 1 .. NumRefs
                BY <1>1, <3>2
            <4> QED
                BY <4>1, <3>2, <1>4
        <3> QED
            BY <3>1, <3>2
    <2> QED
        BY <2>1, <2>2
<1> DEFINE f == CHOOSE h : Is(h)
<1>6. Is(f)
    BY <1>5
<1>7. WithRefs(refs, new) = f[NumRefs]
    BY DEF WithRefs
<1> HIDE DEF f
<1>8. f[0] = refs
    BY <1>1, <1>6
<1>9. ASSUME NEW i \in 1 .. NumRefs
      PROVE  f[i] = IF i \in new THEN WithRef(f[i - 1], i) ELSE f[i - 1]
    <2>1. i \in 0 .. NumRefs /\ i # 0
        BY <1>1
    <2> QED
        BY <1>6, <2>1
<1> HIDE DEF Is
<1> DEFINE Fine(t) == /\ t \in SUBSET RefId /\ Cardinality(t) <= MaxRefs
                      /\ \A lost \in refs \ t, kept \in refs \cap t : OlderRef(lost, kept) \/ kept \in new
           Good == {i \in 0 .. NumRefs : Fine(f[i])}
<1>10. 0 \in Good
    BY <1>1, <1>8
<1>11. ASSUME NEW i \in 1 .. NumRefs, i - 1 \in Good PROVE i \in Good
    <2>1. PICK t : t = f[i - 1]
        OBVIOUS
    <2>2. Fine(t)
        BY <1>11, <2>1
    <2>3. i \in 0 .. NumRefs /\ i \in RefId
        BY <1>1 DEF RefId
    <2>4. CASE i \notin new
        BY <2>1, <2>2, <2>3, <2>4, <1>9
    <2>5. CASE i \in new
        <3>1. PICK u : u = WithRef(t, i)
            OBVIOUS
        <3>2. f[i] = u
            BY <1>9, <2>1, <2>5, <3>1
        <3>3. /\ u \in SUBSET RefId /\ Cardinality(u) <= MaxRefs /\ u \subseteq t \cup {i}
              /\ \A lost \in t \ u, kept \in t \cap u : OlderRef(lost, kept)
            BY <2>2, <2>3, <3>1, WithRefOK
        <3>4. ASSUME NEW lost \in refs \ u, NEW kept \in refs \cap u, kept \notin new
              PROVE  OlderRef(lost, kept)
            <4>1. kept \in t
                BY <2>5, <3>3, <3>4
            <4>2. CASE lost \in t
                BY <3>3, <3>4, <4>1, <4>2
            <4>3. CASE lost \notin t
                BY <2>2, <3>4, <4>1, <4>3
            <4> QED
                BY <4>2, <4>3
        <3>5. Fine(u)
            BY <3>3, <3>4
        <3> QED
            BY <2>3, <3>2, <3>5
    <2> QED
        BY <2>4, <2>5
<1>12. NumRefs \in Good
    <2>1. Good \in SUBSET (0 .. NumRefs)
        OBVIOUS
    <2> HIDE DEF Good
    <2>2. Good = 0 .. NumRefs
        BY <1>1, <1>10, <1>11, <2>1, Upwards
    <2> QED
        BY <2>2, <1>1
<1> QED
    BY <1>7, <1>12

SyncInv ==
    /\ message_refs \in [Device -> SUBSET RefId]
    /\ known_devices \in [Device -> [Device -> Int]]
    /\ sync_now \in Nat
    /\ TablesBounded

LEMMA SyncInitInv == SyncInit => SyncInv
<1> SUFFICES ASSUME SyncInit PROVE SyncInv
    OBVIOUS
<1> USE SyncAssumption
<1>1. /\ message_refs \in [Device -> SUBSET RefId]
      /\ known_devices \in [Device -> [Device -> Int]]
      /\ sync_now \in Nat
    BY DEF SyncInit, DeviceInfo, Unseen
<1>2. ASSUME NEW d \in Device
      PROVE  Cardinality(message_refs[d]) <= MaxRefs /\ Cardinality(KnownTo(d)) <= MaxDevices
    <2>1. message_refs[d] = {}
        BY DEF SyncInit
    <2>2. KnownTo(d) = {d}
        BY DEF SyncInit, DeviceInfo, Unseen, KnownTo
    <2>3. Cardinality({}) = 0
        BY FS_EmptySet
    <2>4. Cardinality({d}) = 1
        BY FS_Singleton
    <2> QED
        BY <2>1, <2>2, <2>3, <2>4
<1> QED
    BY <1>1, <1>2 DEF SyncInv, TablesBounded

\* Fewer devices are no more devices.
LEMMA FewerKnown ==
    ASSUME NEW S \in SUBSET Device, NEW T \in SUBSET S, Cardinality(S) <= MaxDevices
    PROVE  Cardinality(T) <= MaxDevices
<1>1. IsFiniteSet(S) /\ IsFiniteSet(T)
    BY SyncAssumption, FS_Subset
<1>2. Cardinality(T) <= Cardinality(S)
    BY <1>1, FS_Subset
<1>3. Cardinality(S) \in Nat /\ Cardinality(T) \in Nat
    BY <1>1, FS_CardinalityType
<1> QED
    BY <1>2, <1>3, SyncAssumption

\* A change of the devices that d knows, and of nothing the others know.
LEMMA KnownStays ==
    ASSUME SyncInv, NEW d \in Device, NEW row \in [Device -> Int],
           known_devices' = [known_devices EXCEPT ![d] = row],
           NEW T, T = {e \in Device : row[e] # Unseen}, Cardinality(T) <= MaxDevices
    PROVE  /\ known_devices' \in [Device -> [Device -> Int]]
           /\ \A c \in Device : Cardinality(KnownTo(c)') <= MaxDevices
<1>1. known_devices' \in [Device -> [Device -> Int]]
    BY DEF SyncInv
<1>2. KnownTo(d)' = T
    BY DEF SyncInv, KnownTo
<1>3. ASSUME NEW c \in Device, c # d PROVE KnownTo(c)' = KnownTo(c)
    BY <1>3 DEF SyncInv, KnownTo
<1> QED
    BY <1>1, <1>2, <1>3 DEF SyncInv, TablesBounded

LEMMA RefsStay ==
    ASSUME SyncInv, NEW d \in Device, NEW t \in SUBSET RefId, Cardinality(t) <= MaxRefs,
           message_refs' = [message_refs EXCEPT ![d] = t],
           \A lost \in message_refs[d] \ t, kept \in message_refs[d] \cap t :
               OlderRef(lost, kept) \/ BroughtTo(d, kept)
    PROVE  /\ message_refs' \in [Device -> SUBSET RefId]
           /\ \A c \in Device : Cardinality(message_refs'[c]) <= MaxRefs
           /\ OldestGoFirst
<1>1. message_refs' \in [Device -> SUBSET RefId]
    BY DEF SyncInv
<1>2. message_refs'[d] = t /\ \A c \in Device \ {d} : message_refs'[c] = message_refs[c]
    BY DEF SyncInv
<1>3. \A c \in Device : Cardinality(message_refs'[c]) <= MaxRefs
    BY <1>2 DEF SyncInv, TablesBounded
<1>4. OldestGoFirst
    BY <1>2 DEF OldestGoFirst
<1> QED
    BY <1>1, <1>3, <1>4

LEMMA SameRefs ==
    ASSUME SyncInv, UNCHANGED message_refs
    PROVE  /\ message_refs' \in [Device -> SUBSET RefId]
           /\ \A c \in Device : Cardinality(message_refs'[c]) <= MaxRefs
           /\ OldestGoFirst
BY DEF SyncInv, TablesBounded, OldestGoFirst

LEMMA SameKnown ==
    ASSUME SyncInv, UNCHANGED known_devices
    PROVE  /\ known_devices' \in [Device -> [Device -> Int]]
           /\ \A c \in Device : Cardinality(KnownTo(c)') <= MaxDevices
BY DEF SyncInv, TablesBounded, KnownTo

LEMMA SyncStep == SyncInv /\ [SyncNext]_syncVars => SyncInv' /\ OldestGoFirst
<1> SUFFICES ASSUME SyncInv, [SyncNext]_syncVars PROVE SyncInv' /\ OldestGoFirst
    OBVIOUS
<1> USE SyncAssumption
<1> DEFINE RefsFine == /\ message_refs' \in [Device -> SUBSET RefId]
                       /\ \A c \in Device : Cardinality(message_refs'[c]) <= MaxRefs
                       /\ OldestGoFirst
           KnownFine == /\ known_devices' \in [Device -> [Device -> Int]]
                        /\ \A c \in Device : Cardinality(KnownTo(c)') <= MaxDevices
<1>1. SUFFICES RefsFine /\ KnownFine /\ sync_now' \in Nat
    BY DEF SyncInv, TablesBounded
<1>2. sync_now \in Nat
    BY DEF SyncInv
<1>3. ASSUME NEW d \in Device, NEW e \in Device, add_device(d, e)
      PROVE  RefsFine /\ KnownFine /\ sync_now' \in Nat
    <2>1. UNCHANGED <<message_refs, sync_now>>
        BY <1>3 DEF add_device
    <2>2. PICK row, S, T : /\ row = [known_devices[d] EXCEPT ![e] = sync_now]
                           /\ S = KnownTo(d) /\ T = {c \in Device : row[c] # Unseen}
        OBVIOUS
    <2>3. row \in [Device -> Int] /\ known_devices' = [known_devices EXCEPT ![d] = row]
        BY <1>2, <1>3, <2>2 DEF add_device, WithEntry, DeviceInfo, SyncInv
    <2>4. T = S \cup {e} /\ S \in SUBSET Device
        BY <1>2, <2>2 DEF KnownTo, Unseen, SyncInv
    <2>5. Cardinality(T) <= MaxDevices
        <3>1. IsFiniteSet(S)
            BY <2>4, FS_Subset
        <3>2. Cardinality(S) \in Nat /\ Cardinality(S) <= MaxDevices
            BY <3>1, <2>2, FS_CardinalityType DEF SyncInv, TablesBounded
        <3>3. CASE e \in S
            <4>1. T = S
                BY <3>3, <2>4
            <4> QED
                BY <4>1, <3>2
        <3>4. CASE e \notin S
            <4>1. Cardinality(S) < MaxDevices
                BY <1>3, <2>2, <3>4 DEF add_device
            <4>2. Cardinality(S \cup {e}) = Cardinality(S) + 1
                BY <3>1, <3>4, FS_AddElement
            <4> QED
                BY <4>1, <4>2, <3>2, <2>4
        <3> QED
            BY <3>3, <3>4
    <2>6. KnownFine
        BY <2>2, <2>3, <2>5, KnownStays
    <2> QED
        BY <2>1, <2>6, <1>2, SameRefs
<1>4. ASSUME NEW d \in Device, NEW e \in Device, remove_device(d, e)
      PROVE  RefsFine /\ KnownFine /\ sync_now' \in Nat
    <2>1. UNCHANGED <<message_refs, sync_now>>
        BY <1>4 DEF remove_device
    <2>2. PICK row, S, T : /\ row = [known_devices[d] EXCEPT ![e] = Unseen]
                           /\ S = KnownTo(d) /\ T = {c \in Device : row[c] # Unseen}
        OBVIOUS
    <2>3. row \in [Device -> Int] /\ known_devices' = [known_devices EXCEPT ![d] = row]
        BY <1>4, <2>2 DEF remove_device, WithEntry, SyncInv, Unseen
    <2>4. T \in SUBSET S /\ S \in SUBSET Device /\ Cardinality(S) <= MaxDevices
        BY <2>2 DEF KnownTo, SyncInv, TablesBounded
    <2>5. Cardinality(T) <= MaxDevices
        BY <2>4, FewerKnown
    <2>6. KnownFine
        BY <2>2, <2>3, <2>5, KnownStays
    <2> QED
        BY <2>1, <2>6, <1>2, SameRefs
<1>5. ASSUME NEW d \in Device, NEW p \in SyncPeer, NEW s \in SyncStatus, update_session(d, p, s)
      PROVE  RefsFine /\ KnownFine /\ sync_now' \in Nat
    BY <1>2, <1>5, SameRefs, SameKnown DEF update_session
<1>6. ASSUME NEW d \in Device, NEW i \in RefId, add_message_ref(d, i)
      PROVE  RefsFine /\ KnownFine /\ sync_now' \in Nat
    <2>1. UNCHANGED <<known_devices, sync_now>>
        BY <1>6 DEF add_message_ref
    <2>2. PICK refs, t : refs = message_refs[d] /\ t = WithRef(refs, i)
        OBVIOUS
    <2>3. refs \in SUBSET RefId /\ Cardinality(refs) <= MaxRefs
        BY <2>2 DEF SyncInv, TablesBounded
    <2>4. /\ t \in SUBSET RefId /\ Cardinality(t) <= MaxRefs
          /\ \A lost \in refs \ t, kept \in refs \cap t : OlderRef(lost, kept)
        BY <2>2, <2>3, WithRefOK
    <2>5. message_refs' = [message_refs EXCEPT ![d] = t]
        BY <1>6, <2>2 DEF add_message_ref
    <2>6. RefsFine
        BY <2>2, <2>4, <2>5, RefsStay
    <2> QED
        BY <2>1, <2>6, <1>2, SameKnown
<1>7. ASSUME NEW d \in Device, RequestSync(d)
      PROVE  RefsFine /\ KnownFine /\ sync_now' \in Nat
    BY <1>2, <1>7, SameRefs, SameKnown DEF RequestSync, create_sync_request
<1>8. ASSUME NEW d \in Device, NEW m \in sync_net, process_sync_request(d, m)
      PROVE  RefsFine /\ KnownFine /\ sync_now' \in Nat
    BY <1>2, <1>8, SameRefs, SameKnown DEF process_sync_request
<1>9. ASSUME NEW d \in Device, NEW m \in sync_net, process_sync_response(d, m)
      PROVE  RefsFine /\ KnownFine /\ sync_now' \in Nat
    <2>1. UNCHANGED <<known_devices, sync_now>>
        BY <1>9 DEF process_sync_response
    <2>2. PICK refs, new, t : refs = message_refs[d] /\ new = m.new /\ t = WithRefs(refs, new)
        OBVIOUS
    <2>3. refs \in SUBSET RefId /\ Cardinality(refs) <= MaxRefs
        BY <2>2 DEF SyncInv, TablesBounded
    <2>4. /\ t \in SUBSET RefId /\ Cardinality(t) <= MaxRefs
          /\ \A lost \in refs \ t, kept \in refs \cap t : OlderRef(lost, kept) \/ kept \in new
        BY <2>2, <2>3, WithRefsOK
    <2>5. message_refs' = [message_refs EXCEPT ![d] = t]
        BY <1>9, <2>2 DEF process_sync_response
    <2>6. \A i \in new : BroughtTo(d, i)
        BY <1>9, <2>2 DEF process_sync_response, BroughtTo
    <2>7. \A lost \in message_refs[d] \ t, kept \in message_refs[d] \cap t :
              OlderRef(lost, kept) \/ BroughtTo(d, kept)
        BY <2>2, <2>4, <2>6
    <2>8. RefsFine
        BY <2>4, <2>5, <2>7, RefsStay
    <2> QED
        BY <2>1, <2>8, <1>2, SameKnown
<1>10. ASSUME NEW d \in Device, cleanup_old_data(d)
       PROVE  RefsFine /\ KnownFine /\ sync_now' \in Nat
    <2>1. PICK gone, row, S, T : /\ gone = {e \in KnownTo(d) \ {d} : Aged(known_devices[d][e])}
                                 /\ row = [e \in Device |-> IF e \in gone THEN Unseen ELSE known_devices[d][e]]
                                 /\ S = KnownTo(d) /\ T = {c \in Device : row[c] # Unseen}
        OBVIOUS
    <2>2. row \in [Device -> Int] /\ known_devices' = [known_devices EXCEPT ![d] = row]
        BY <1>10, <2>1 DEF cleanup_old_data, SyncInv, Unseen
    <2>3. T \in SUBSET S /\ S \in SUBSET Device /\ Cardinality(S) <= MaxDevices
        BY <2>1 DEF KnownTo, SyncInv, TablesBounded
    <2>4. Cardinality(T) <= MaxDevices
        BY <2>3, FewerKnown
    <2>5. KnownFine
        BY <2>1, <2>2, <2>4, KnownStays
    <2>6. PICK refs, t : refs = message_refs[d] /\ t = {i \in refs : ~Aged(RefStamp[i])}
        OBVIOUS
    <2>7. refs \in SUBSET RefId /\ Cardinality(refs) <= MaxRefs /\ t \in SUBSET refs
        BY <2>6 DEF SyncInv, TablesBounded
    <2>8. Cardinality(t) <= MaxRefs
        <3>1. IsFiniteSet(refs) /\ Cardinality(refs) \in Nat
            BY <2>7, RefsFinite
        <3>2. Cardinality(t) <= Cardinality(refs) /\ Cardinality(t) \in Nat
            BY <2>7, <3>1, RefsFinite, FS_Subset
        <3> QED
            BY <2>7, <3>1, <3>2
    <2>9. ASSUME NEW lost \in refs \ t, NEW kept \in refs \cap t PROVE OlderRef(lost, kept)
        <3>1. RefStamp[lost] \in Nat /\ RefStamp[kept] \in Nat
            BY <2>7
        <3>2. sync_now - RefStamp[lost] > MaxSyncAge /\ ~(sync_now - RefStamp[kept] > MaxSyncAge)
            BY <2>6 DEF Aged
        <3> QED
            BY <1>2, <3>1, <3>2 DEF OlderRef
    <2>10. message_refs' = [message_refs EXCEPT ![d] = t] /\ sync_now' = sync_now
        BY <1>10, <2>6 DEF cleanup_old_data
    <2>11. RefsFine
        BY <2>6, <2>7, <2>8, <2>9, <2>10, RefsStay
    <2> QED
        BY <2>5, <2>10, <2>11, <1>2
<1>11. CASE SyncTick
    BY <1>2, <1>11, SameRefs, SameKnown DEF SyncTick
<1>12. CASE UNCHANGED syncVars
    BY <1>2, <1>12, SameRefs, SameKnown DEF syncVars
<1> HIDE DEF RefsFine, KnownFine
<1> QED
    BY <1>3, <1>4, <1>5, <1>6, <1>7, <1>8, <1>9, <1>10, <1>11, <1>12 DEF SyncNext

\* The tables of a device stay within their limits, and what it gives up is older than what
\* it keeps, whatever late or repeated responses bring (session_sync.rs, add_message_ref,
\* process_sync_response, cleanup_old_data).
THEOREM SyncIsSound == SyncSpec => SyncSound
<1>1. SyncInv /\ [SyncNext]_syncVars => [TablesBounded' /\ OldestGoFirst]_syncVars
    BY SyncStep DEF SyncInv
<1>2. SyncSpec => []SyncInv
    BY SyncInitInv, SyncStep, PTL DEF SyncSpec
<1> QED
    BY <1>1, <1>2, PTL DEF SyncSpec, SyncSound
===============================================================================
