------------------------------ MODULE CodecProofs ------------------------------
(***************************************************************************)
(* Proofs about what is written into bytes and read out of them: packets   *)
(* (PacketCodec) and the messages and announcements they carry             *)
(* (PayloadCodec), for any senders, payloads, texts, keys and sizes.       *)
(*                                                                         *)
(* What is said of a reader is always the same: in front of any further    *)
(* bytes it finds what the writer put there and leaves those bytes. Where  *)
(* a reader is a loop, the loop is a function over its turns, and an       *)
(* explicit table of what every turn finds is shown to be that function.   *)
(***************************************************************************)
EXTENDS PacketCodec, PayloadCodec, TLAPS, FiniteSetTheorems, SequenceTheorems,
        NaturalsInduction, WellFoundedInduction

-----------------------------------------------------------------------------
(* Minima, sequences and products *)

LEMMA LeastNat ==
    ASSUME NEW S \in SUBSET Nat, S # {}
    PROVE  \E x \in S : \A y \in S : x <= y
<1> DEFINE R == {q \in Nat \X Nat : q[1] < q[2]}
<1>1. IsWellFoundedOn(R, Nat)
    BY NatLessThanWellFounded, Zenon DEF OpToRel
<1> HIDE DEF R
<1>2. PICK x \in S : \A y \in S : <<y, x>> \notin R
    BY <1>1, WFMin
<1>3. ASSUME NEW y \in S PROVE x <= y
    <2>1. <<y, x>> \in Nat \X Nat /\ <<y, x>> \notin R
        BY <1>2
    <2>2. ~(y < x)
        BY <2>1 DEF R
    <2> QED
        BY <2>2
<1> QED
    BY <1>3

LEMMA MinNat ==
    ASSUME NEW S \in SUBSET Nat, S # {}
    PROVE  Min(S) \in S /\ \A y \in S : Min(S) <= y
    BY LeastNat, Zenon DEF Min

LEMMA SubSeqOK ==
    ASSUME NEW S, NEW s \in Seq(S), NEW m \in Nat \ {0}, NEW n \in 0..Len(s)
    PROVE  /\ SubSeq(s, m, n) \in Seq(S)
           /\ Len(SubSeq(s, m, n)) = IF m <= n THEN n - m + 1 ELSE 0
           /\ \A i \in 1..(n - m + 1) : SubSeq(s, m, n)[i] = s[m + i - 1]
    OBVIOUS

\* Two sequences put together, and what is cut out of them again.
LEMMA Joined ==
    ASSUME NEW S, NEW u \in Seq(S), NEW v \in Seq(S)
    PROVE  /\ u \o v \in Seq(S) /\ Len(u \o v) = Len(u) + Len(v)
           /\ \A k \in 1 .. Len(u) : (u \o v)[k] = u[k]
           /\ \A k \in 1 .. Len(v) : (u \o v)[Len(u) + k] = v[k]
<1>1. u \o v \in Seq(S) /\ Len(u \o v) = Len(u) + Len(v)
    BY ConcatProperties
<1>2. \A k \in 1 .. Len(u) : (u \o v)[k] = u[k]
    OBVIOUS
<1>3. \A k \in 1 .. Len(v) : (u \o v)[Len(u) + k] = v[k]
    OBVIOUS
<1> QED
    BY <1>1, <1>2, <1>3

LEMMA SameSeq ==
    ASSUME NEW S, NEW u \in Seq(S), NEW v \in Seq(S), Len(u) = Len(v), \A k \in 1 .. Len(u) : u[k] = v[k]
    PROVE  u = v
OBVIOUS

LEMMA CutRight ==
    ASSUME NEW S, NEW u \in Seq(S), NEW v \in Seq(S)
    PROVE  SubSeq(u \o v, Len(u) + 1, Len(u) + Len(v)) = v
<1>1. PICK w : w = u \o v
    OBVIOUS
<1>2. /\ w \in Seq(S) /\ Len(w) = Len(u) + Len(v) /\ Len(u) \in Nat /\ Len(v) \in Nat
      /\ \A k \in 1 .. Len(v) : w[Len(u) + k] = v[k]
    BY <1>1, Joined
<1>3. PICK c : c = SubSeq(w, Len(u) + 1, Len(u) + Len(v))
    OBVIOUS
<1>4. /\ c \in Seq(S) /\ Len(c) = Len(v)
      /\ \A k \in 1 .. Len(v) : c[k] = w[Len(u) + k]
    BY <1>2, <1>3
<1> QED
    BY <1>1, <1>2, <1>3, <1>4, SameSeq

LEMMA CutLeft ==
    ASSUME NEW S, NEW u \in Seq(S), NEW v \in Seq(S), NEW i \in 1 .. Len(u) + 1, NEW j \in i - 1 .. Len(u)
    PROVE  SubSeq(u \o v, i, j) = SubSeq(u, i, j)
<1>1. PICK w : w = u \o v
    OBVIOUS
<1>2. /\ w \in Seq(S) /\ Len(w) = Len(u) + Len(v) /\ Len(u) \in Nat /\ Len(v) \in Nat
      /\ \A k \in 1 .. Len(u) : w[k] = u[k]
    BY <1>1, Joined
<1>3. PICK b, c : b = SubSeq(u, i, j) /\ c = SubSeq(w, i, j)
    OBVIOUS
<1>4. b \in Seq(S) /\ Len(b) = j - i + 1 /\ \A k \in 1 .. j - i + 1 : b[k] = u[i + k - 1]
    BY <1>3, SubSeqOK
<1>5. c \in Seq(S) /\ Len(c) = j - i + 1 /\ \A k \in 1 .. j - i + 1 : c[k] = w[i + k - 1]
    <2>1. i \in 1 .. Len(w) + 1 /\ j \in i - 1 .. Len(w)
        BY <1>2
    <2> QED
        BY <1>2, <1>3, <2>1, SubSeqOK
<1>6. \A k \in 1 .. j - i + 1 : i + k - 1 \in 1 .. Len(u)
    BY <1>2
<1> QED
    BY <1>1, <1>2, <1>3, <1>4, <1>5, <1>6, SameSeq

\* FlattenSeq is the last of any sequence of partial concatenations.
LEMMA FlattenBy ==
    ASSUME NEW seqs, Len(seqs) \in Nat \ {0},
           NEW g, \A i \in 1..Len(seqs) :
                      g[i] = IF i = 1 THEN seqs[i] ELSE g[i - 1] \o seqs[i]
    PROVE  FlattenSeq(seqs) = g[Len(seqs)]
<1> DEFINE flatten[i \in 1..Len(seqs)] ==
               IF i = 1 THEN seqs[i] ELSE flatten[i - 1] \o seqs[i]
<1>1. FlattenSeq(seqs) = flatten[Len(seqs)]
    BY Zenon DEF FlattenSeq
<1>2. \E h : h = [i \in 1..Len(seqs) |-> IF i = 1 THEN seqs[i] ELSE h[i - 1] \o seqs[i]]
    <2>1. PICK h : h = [i \in 1..Len(seqs) |-> g[i]]
        OBVIOUS
    <2>2. ASSUME NEW i \in 1..Len(seqs)
          PROVE  g[i] = IF i = 1 THEN seqs[i] ELSE h[i - 1] \o seqs[i]
        <3>1. CASE i = 1
            BY <3>1
        <3>2. CASE i # 1
            <4>1. i - 1 \in 1..Len(seqs)
                BY <3>2
            <4>2. h[i - 1] = g[i - 1]
                BY <4>1, <2>1
            <4> QED
                BY <4>2, <3>2
        <3> QED
            BY <3>1, <3>2
    <2>3. h = [i \in 1..Len(seqs) |-> IF i = 1 THEN seqs[i] ELSE h[i - 1] \o seqs[i]]
        BY <2>1, <2>2, Zenon
    <2> QED
        BY <2>3, Zenon
<1>3. flatten = [i \in 1..Len(seqs) |-> IF i = 1 THEN seqs[i] ELSE flatten[i - 1] \o seqs[i]]
    BY <1>2, Zenon
<1> HIDE DEF flatten
<1>4. PICK h : /\ h = [i \in 1..Len(seqs) |-> IF i = 1 THEN seqs[i] ELSE h[i - 1] \o seqs[i]]
               /\ FlattenSeq(seqs) = h[Len(seqs)]
    BY <1>1, <1>3, Zenon
<1>6. \A i \in 1..Len(seqs) : h[i] = g[i]
    <2> DEFINE bad == {i \in 1..Len(seqs) : h[i] # g[i]}
    <2>1. SUFFICES ASSUME bad # {} PROVE FALSE
        BY Zenon
    <2>2. bad \in SUBSET Nat
        OBVIOUS
    <2>3. PICK x : x = Min(bad)
        OBVIOUS
    <2>4. x \in bad /\ \A y \in bad : x <= y
        BY <2>1, <2>2, <2>3, MinNat
    <2>5. x \in 1..Len(seqs) /\ h[x] # g[x]
        BY <2>4
    <2>6. h[x] = IF x = 1 THEN seqs[x] ELSE h[x - 1] \o seqs[x]
        BY <2>5, <1>4, Zenon
    <2>7. x # 1
        BY <2>5, <2>6
    <2>8. x - 1 \in 1..Len(seqs) /\ ~ (x <= x - 1)
        BY <2>5, <2>7
    <2>9. h[x - 1] = g[x - 1]
        BY <2>4, <2>8, Zenon
    <2> QED
        BY <2>5, <2>6, <2>7, <2>9
<1>7. Len(seqs) \in 1..Len(seqs)
    OBVIOUS
<1> QED
    BY <1>4, <1>6, <1>7, Zenon

LEMMA MulMonotone ==
    ASSUME NEW a \in Nat, NEW b \in Nat, NEW c \in Nat, a <= b
    PROVE  a * c <= b * c /\ a * c \in Nat
    OBVIOUS

-----------------------------------------------------------------------------
(* Loops: a recursive function of a loop has a value for every turn *)

\* What holds at the start of a loop and is kept by every turn holds after each.
LEMMA Upwards ==
    ASSUME NEW n \in Nat, NEW Good \in SUBSET (0 .. n), 0 \in Good,
           \A i \in 1 .. n : i - 1 \in Good => i \in Good
    PROVE  Good = 0 .. n
<1>1. SUFFICES ASSUME (0 .. n) \ Good # {} PROVE FALSE
    OBVIOUS
<1>2. PICK k \in (0 .. n) \ Good : \A y \in (0 .. n) \ Good : k <= y
    <2>1. (0 .. n) \ Good \in SUBSET Nat
        OBVIOUS
    <2> QED
        BY <1>1, <2>1, LeastNat
<1>3. k \in 1 .. n /\ k - 1 \in 0 .. n
    BY <1>2
<1>4. k - 1 \notin (0 .. n) \ Good
    BY <1>2, <1>3
<1> QED
    BY <1>2, <1>3, <1>4

\* A loop of n turns that starts with a value d of D, and what its values are.
IsLoop(n, D, d, turn) == n \in Nat /\ d \in D /\ turn \in [1 .. n -> [D -> D]]

IsRun(g, n, D, d, turn) ==
    g \in [0 .. n -> D] /\ g[0] = d /\ \A i \in 1 .. n : g[i] = turn[i][g[i - 1]]

LEMMA LoopRuns ==
    ASSUME NEW n, NEW D, NEW d, NEW turn, IsLoop(n, D, d, turn)
    PROVE  \E g : IsRun(g, n, D, d, turn)
<1> USE DEF IsLoop
<1> DEFINE Good == {k \in 0 .. n : \E g \in [0 .. k -> D] :
                       g[0] = d /\ \A i \in 1 .. k : g[i] = turn[i][g[i - 1]]}
<1>1. 0 \in Good
    <2> DEFINE g == [i \in 0 .. 0 |-> d]
    <2>1. g \in [0 .. 0 -> D] /\ g[0] = d
        OBVIOUS
    <2>2. \A i \in 1 .. 0 : g[i] = turn[i][g[i - 1]]
        OBVIOUS
    <2> HIDE DEF g
    <2>3. 0 \in 0 .. n
        OBVIOUS
    <2> QED
        BY <2>1, <2>2, <2>3
<1>2. ASSUME NEW k \in 1 .. n, k - 1 \in Good PROVE k \in Good
    <2>1. PICK g \in [0 .. k - 1 -> D] :
              g[0] = d /\ \A i \in 1 .. k - 1 : g[i] = turn[i][g[i - 1]]
        BY <1>2
    <2> DEFINE h == [i \in 0 .. k |-> IF i = k THEN turn[k][g[k - 1]] ELSE g[i]]
    <2>2. k - 1 \in 0 .. k - 1 /\ g[k - 1] \in D
        OBVIOUS
    <2>3. turn[k][g[k - 1]] \in D
        BY <2>2
    <2>4. h \in [0 .. k -> D]
        BY <2>3
    <2>5. h[0] = d
        BY <2>1
    <2>6. ASSUME NEW i \in 1 .. k PROVE h[i] = turn[i][h[i - 1]]
        <3>1. CASE i = k
            BY <3>1
        <3>2. CASE i # k
            <4>1. i \in 1 .. k - 1 /\ i - 1 \in 0 .. k - 1 /\ i - 1 # k
                BY <3>2
            <4> QED
                BY <4>1, <2>1, <3>2
        <3> QED
            BY <3>1, <3>2
    <2> HIDE DEF h
    <2>7. \A i \in 1 .. k : h[i] = turn[i][h[i - 1]]
        BY <2>6
    <2>8. k \in 0 .. n
        OBVIOUS
    <2> QED
        BY <2>4, <2>5, <2>7, <2>8
<1>3. n \in Good
    <2> HIDE DEF Good
    <2>1. Good \in SUBSET (0 .. n)
        BY DEF Good
    <2> QED
        BY <1>1, <1>2, <2>1, Upwards
<1> QED
    BY <1>3 DEF IsRun

-----------------------------------------------------------------------------
(* Flags, padding and compression *)

Flag == {"HAS_RECIPIENT", "HAS_SIGNATURE", "IS_COMPRESSED", "HAS_ROUTE"}

\* The flags byte gives back the flags it was made of.
LEMMA FlagsReadBack ==
    ASSUME NEW F \in SUBSET Flag
    PROVE  flags_as_u8(F) \in Nat /\ flags_new(flags_as_u8(F)) = F
<1> DEFINE bit(x, n) == IF x \in F THEN n ELSE 0
<1>1. PICK a, b, c, d : /\ a = bit("HAS_RECIPIENT", 1) /\ b = bit("HAS_SIGNATURE", 2)
                        /\ c = bit("IS_COMPRESSED", 4) /\ d = bit("HAS_ROUTE", 8)
    OBVIOUS
<1>2. a \in {0, 1} /\ b \in {0, 2} /\ c \in {0, 4} /\ d \in {0, 8}
    BY <1>1
<1>3. flags_as_u8(F) = a + b + c + d
    BY <1>1 DEF flags_as_u8, FlagBit
<1>4. PICK n : n = a + b + c + d
    OBVIOUS
<1>5. n \in Nat
    BY <1>2, <1>4
<1>6. ASSUME NEW x PROVE x \in flags_new(n) <=> x \in F
    <2>1. x \in flags_new(n) <=> x \in Flag /\ (n \div FlagBit[x]) % 2 = 1
        BY DEF flags_new, FlagBit, Flag
    <2>2. (n \div 1) % 2 = 1 <=> a = 1
        BY <1>2, <1>4
    <2>3. (n \div 2) % 2 = 1 <=> b = 2
        BY <1>2, <1>4
    <2>4. (n \div 4) % 2 = 1 <=> c = 4
        BY <1>2, <1>4
    <2>5. (n \div 8) % 2 = 1 <=> d = 8
        BY <1>2, <1>4
    <2>6. CASE x = "HAS_RECIPIENT"
        BY <2>1, <2>2, <2>6, <1>1 DEF FlagBit, Flag
    <2>7. CASE x = "HAS_SIGNATURE"
        BY <2>1, <2>3, <2>7, <1>1 DEF FlagBit, Flag
    <2>8. CASE x = "IS_COMPRESSED"
        BY <2>1, <2>4, <2>8, <1>1 DEF FlagBit, Flag
    <2>9. CASE x = "HAS_ROUTE"
        BY <2>1, <2>5, <2>9, <1>1 DEF FlagBit, Flag
    <2>10. CASE x \notin Flag
        BY <2>1, <2>10
    <2> QED
        BY <2>6, <2>7, <2>8, <2>9, <2>10 DEF Flag
<1> QED
    BY <1>3, <1>4, <1>5, <1>6

\* unpad gives its argument back, or a part of it from the start.
LEMMA UnpadCuts ==
    ASSUME NEW b \in Seq(Nat), b # <<>>
    PROVE  \E k \in 0 .. Len(b) : unpad(b) = SubSeq(b, 1, k)
<1>1. PICK n : n = b[Len(b)]
    OBVIOUS
<1>2. Len(b) \in Nat \ {0} /\ n \in Nat
    BY <1>1
<1>3. SubSeq(b, 1, Len(b)) = b
    BY SubSeqFull
<1>4. unpad(b) = b \/ (unpad(b) = SubSeq(b, 1, Len(b) - n) /\ ~(n > Len(b)))
    BY <1>1 DEF unpad
<1>5. ~(n > Len(b)) => Len(b) - n \in 0 .. Len(b)
    BY <1>2
<1>6. Len(b) \in 0 .. Len(b)
    BY <1>2
<1> QED
    BY <1>3, <1>4, <1>5, <1>6

\* A block is a whole number of bytes.
LEMMA BlockSizeIs ==
    ASSUME NEW length \in Nat
    PROVE  optimal_block_size(length) \in Int
<1> DEFINE Fits == {i \in DOMAIN PADDING_BLOCK_SIZES : length <= PADDING_BLOCK_SIZES[i]}
           last == PADDING_BLOCK_SIZES[Len(PADDING_BLOCK_SIZES)]
<1>1. PADDING_BLOCK_SIZES \in Seq(Nat \ {0}) /\ PADDING_BLOCK_SIZES # <<>>
    BY CodecConstants
<1>2. Fits \in SUBSET Nat
    BY <1>1
<1>3. CASE Fits # {}
    <2>1. Min(Fits) \in Fits
        <3> HIDE DEF Fits
        <3> QED
            BY <1>2, <1>3, MinNat
    <2>2. PADDING_BLOCK_SIZES[Min(Fits)] \in Nat
        BY <1>1, <2>1
    <2> QED
        BY <1>3, <2>2 DEF optimal_block_size
<1>4. CASE Fits = {}
    <2>1. last \in Nat \ {0}
        BY <1>1
    <2>2. PICK n : n = last
        OBVIOUS
    <2>3. ((length + n - 1) \div n) * n \in Int
        BY <2>1, <2>2
    <2>4. optimal_block_size(length) = ((length + last - 1) \div last) * last
        BY <1>4 DEF optimal_block_size
    <2> HIDE DEF last
    <2> QED
        BY <2>2, <2>3, <2>4
<1> QED
    BY <1>3, <1>4

\* pad leaves the data as it is and puts something behind it.
LEMMA PadExtends ==
    ASSUME NEW x \in Seq(Nat)
    PROVE  \E t \in Seq(Nat) : pad(x) = x \o t
<1>1. PICK n : n = optimal_block_size(Len(x)) - Len(x)
    OBVIOUS
<1>2. n \in Int
    <2>1. Len(x) \in Nat
        OBVIOUS
    <2> QED
        BY <1>1, <2>1, BlockSizeIs
<1>3. PICK t : t = [i \in 1 .. n |-> n % ByteValues]
    OBVIOUS
<1>4. pad(x) = x \o t
    BY <1>1, <1>3 DEF pad
<1>5. t \in Seq(Nat)
    <2>1. n % ByteValues \in Nat
        BY <1>2, CodecConstants
    <2>2. CASE n >= 0
        <3>1. n \in Nat /\ t \in [1 .. n -> Nat]
            BY <1>2, <1>3, <2>1, <2>2
        <3> QED
            BY <3>1
    <2>3. CASE n < 0
        <3>1. 1 .. n = 1 .. 0
            BY <1>2, <2>3
        <3>2. t \in [1 .. 0 -> Nat]
            BY <1>3, <2>1, <3>1
        <3> QED
            BY <3>2
    <2> QED
        BY <1>2, <2>2, <2>3
<1> QED
    BY <1>4, <1>5

\* What was padded by something, and by less than a byte's worth, is found again (wire.rs,
\* MessagePadding::pad and unpad).
THEOREM UnpadUndoesPad ==
    ASSUME NEW x \in Seq(Nat), optimal_block_size(Len(x)) - Len(x) \in 1 .. ByteValues - 1
    PROVE  unpad(pad(x)) = x
<1>1. PICK n \in 1 .. ByteValues - 1 : n = optimal_block_size(Len(x)) - Len(x)
    OBVIOUS
<1>2. n \in Nat \ {0} /\ n < ByteValues /\ ByteValues \in Nat /\ Len(x) \in Nat
    BY CodecConstants
<1>3. n % ByteValues = n
    BY <1>2
<1>4. PICK t : t = [i \in 1 .. n |-> n]
    OBVIOUS
<1>5. t \in Seq(Nat) /\ Len(t) = n /\ \A i \in 1 .. n : t[i] = n
    BY <1>2, <1>4
<1>6. PICK b : b = x \o t
    OBVIOUS
<1>7. pad(x) = b
    BY <1>1, <1>3, <1>4, <1>6 DEF pad
<1>8. /\ b \in Seq(Nat) /\ Len(b) = Len(x) + n
      /\ \A k \in 1 .. n : b[Len(x) + k] = t[k]
    <2>1. t \in Seq(Nat)
        BY <1>5
    <2>2. /\ x \o t \in Seq(Nat) /\ Len(x \o t) = Len(x) + Len(t)
          /\ \A k \in 1 .. Len(t) : (x \o t)[Len(x) + k] = t[k]
        BY <2>1, Joined
    <2> QED
        BY <1>5, <1>6, <2>2
<1>9. ASSUME NEW i \in (Len(b) - n + 1) .. Len(b) PROVE b[i] = n
    <2>1. i - Len(x) \in 1 .. n /\ Len(x) + (i - Len(x)) = i
        BY <1>2, <1>8
    <2> QED
        BY <2>1, <1>5, <1>8
<1>10. b[Len(b)] = n
    <2>1. Len(b) \in (Len(b) - n + 1) .. Len(b)
        BY <1>2, <1>8
    <2> QED
        BY <2>1, <1>9
<1>11. unpad(b) = SubSeq(b, 1, Len(b) - n)
    <2>1. n # 0 /\ ~(n > Len(b)) /\ ~(\E i \in (Len(b) - n + 1) .. Len(b) : b[i] # n)
        BY <1>2, <1>8, <1>9
    <2> QED
        BY <1>10, <2>1, Zenon DEF unpad
<1>12. SubSeq(b, 1, Len(b) - n) = SubSeq(x, 1, Len(x))
    <2>1. 1 \in 1 .. Len(x) + 1 /\ Len(x) \in 1 - 1 .. Len(x) /\ Len(b) - n = Len(x)
        BY <1>2, <1>8
    <2> QED
        BY <2>1, <1>5, <1>6, CutLeft
<1>13. SubSeq(x, 1, Len(x)) = x
    BY SubSeqFull
<1> QED
    BY <1>7, <1>11, <1>12, <1>13

\* Two digits of a number.
LEMMA TwoDigits ==
    ASSUME NEW n \in Nat, NEW d \in Nat \ {0}
    PROVE  n \div d \in Nat /\ n % d \in Nat /\ n % d < d /\ (n \div d) * d + (n % d) = n
<1>1. n \div d \in Nat
    BY SMTT(30)
<1>2. n % d \in Nat /\ n % d < d
    OBVIOUS
<1>3. (n \div d) * d + (n % d) = n
    BY SMTT(30)
<1> QED
    BY <1>1, <1>2, <1>3

\* decompress gives back what compress was given.
LEMMA DecompressUndoes ==
    ASSUME NEW data \in Seq(Nat), data # <<>>
    PROVE  compress(data) \in Seq(Nat) /\ decompress(compress(data)) = data
<1> USE CodecConstants
<1>1. Len(data) \in Nat \ {0} /\ DOMAIN data = 1 .. Len(data)
    OBVIOUS
<1>2. IsFiniteSet(Range(data))
    <2> DEFINE f == [i \in 1 .. Len(data) |-> data[i]]
    <2>1. f \in Surjection(1 .. Len(data), Range(data))
        BY <1>1 DEF Surjection, Range
    <2>2. IsFiniteSet(1 .. Len(data))
        BY FS_Interval
    <2> QED
        BY <2>1, <2>2, FS_Surjection
<1>3. CASE Cardinality(Range(data)) = 1
    <2>1. PICK x : Range(data) = {x}
        BY <1>2, <1>3, FS_Singleton
    <2>2. \A i \in 1 .. Len(data) : data[i] = data[1]
        <3>1. \A i \in 1 .. Len(data) : data[i] \in Range(data)
            BY <1>1 DEF Range
        <3>2. 1 \in 1 .. Len(data)
            BY <1>1
        <3> QED
            BY <2>1, <3>1, <3>2
    <2>3. PICK h, l, v, c : /\ h = Len(data) \div ByteValues /\ l = Len(data) % ByteValues /\ v = data[1]
                            /\ c = <<0, h, l, v>>
        OBVIOUS
    <2>4. h \in Nat /\ l \in Nat /\ h * ByteValues + l = Len(data)
        BY <1>1, <2>3, TwoDigits
    <2>5. v \in Nat
        BY <1>1, <2>3
    <2>6. compress(data) = c
        BY <1>3, <2>3 DEF compress
    <2>7. c \in Seq(Nat) /\ c # <<>> /\ Len(c) = 4 /\ c[1] = 0 /\ c[2] = h /\ c[3] = l /\ c[4] = v
        BY <2>3, <2>4, <2>5
    <2>8. decompress(c) = [i \in 1 .. Len(data) |-> v]
        BY <2>4, <2>7 DEF decompress
    <2>9. [i \in 1 .. Len(data) |-> v] = data
        BY <1>1, <2>2, <2>3
    <2> QED
        BY <2>6, <2>7, <2>8, <2>9
<1>4. CASE Cardinality(Range(data)) # 1
    <2>1. PICK c : c = <<1>> \o data
        OBVIOUS
    <2>2. compress(data) = c
        BY <1>4, <2>1 DEF compress
    <2>3. c \in Seq(Nat) /\ c # <<>> /\ c[1] = 1 /\ Tail(c) = data
        BY <2>1
    <2>4. decompress(c) = Tail(c)
        BY <2>3 DEF decompress
    <2> QED
        BY <2>2, <2>3, <2>4
<1> QED
    BY <1>3, <1>4

-----------------------------------------------------------------------------
(* Encoding and decoding *)

WirePacket ==
    [version : {1}, type : Nat, ttl : Nat, timestamp : Nat, flags : SUBSET Flag, payload_length : Nat,
     sender : {<<7>>}, recipient : {<<>>, <<8>>}, route : {<<>>}, payload : Seq(Nat),
     signature : {<<>>} \cup SignatureBytes]
OnWire(p) == p \in WirePacket /\ encodable(p)

\* What the fields of such a packet are, and how its flags go with them.
LEMMA WireFields ==
    ASSUME NEW p, OnWire(p)
    PROVE  /\ p.version = 1 /\ p.type \in Nat /\ p.ttl \in Nat /\ p.timestamp \in Nat
           /\ p.flags \in SUBSET Flag /\ "HAS_ROUTE" \notin p.flags
           /\ p.sender = <<7>> /\ p.route = <<>>
           /\ p.recipient \in Seq(Nat) /\ Len(p.recipient) = IF "HAS_RECIPIENT" \in p.flags THEN 1 ELSE 0
           /\ p.payload \in Seq(Nat) /\ Len(p.payload) = p.payload_length
           /\ p.signature \in Seq(Nat)
           /\ Len(p.signature) = IF "HAS_SIGNATURE" \in p.flags THEN SIGNATURE_SIZE ELSE 0
<1>1. p \in WirePacket
    BY DEF OnWire
<1>2. /\ p.version = 1 /\ p.type \in Nat /\ p.ttl \in Nat /\ p.timestamp \in Nat
      /\ p.flags \in SUBSET Flag /\ p.sender = <<7>> /\ p.route = <<>> /\ p.recipient \in {<<>>, <<8>>}
      /\ p.payload \in Seq(Nat) /\ p.signature \in {<<>>} \cup SignatureBytes
    BY <1>1 DEF WirePacket
<1>3. /\ Len(p.payload) = p.payload_length
      /\ ("HAS_RECIPIENT" \in p.flags) <=> (p.recipient # <<>>)
      /\ ("HAS_SIGNATURE" \in p.flags) <=> (p.signature # <<>>)
      /\ "HAS_ROUTE" \notin p.flags
    BY <1>2 DEF OnWire, encodable, packet_validate, NoField
<1>4. p.recipient \in Seq(Nat) /\ Len(p.recipient) = IF "HAS_RECIPIENT" \in p.flags THEN 1 ELSE 0
    <2>1. CASE p.recipient = <<>>
        BY <2>1, <1>3
    <2>2. CASE p.recipient = <<8>>
        <3>1. p.recipient \in Seq(Nat) /\ Len(p.recipient) = 1
            BY <2>2
        <3>2. p.recipient # <<>>
            BY <3>1
        <3> QED
            BY <3>1, <3>2, <1>3
    <2> QED
        BY <2>1, <2>2, <1>2
<1>5. /\ p.signature \in Seq(Nat)
      /\ Len(p.signature) = IF "HAS_SIGNATURE" \in p.flags THEN SIGNATURE_SIZE ELSE 0
    <2>1. CASE p.signature = <<>>
        BY <2>1, <1>3
    <2>2. CASE p.signature \in SignatureBytes
        <3>1. p.signature \in Seq(Nat) /\ Len(p.signature) = SIGNATURE_SIZE /\ SIGNATURE_SIZE \in Nat \ {0}
            BY <2>2, CodecConstants
        <3>2. p.signature # <<>>
            BY <3>1
        <3> QED
            BY <3>1, <3>2, <1>3
    <2> QED
        BY <2>1, <2>2, <1>2
<1> QED
    BY <1>2, <1>3, <1>4, <1>5

\* A header h of seven bytes and three fields behind it, and where they are found.
Pieces(h, r, d, g, x) ==
    /\ h \in Seq(Nat) /\ Len(h) = 7 /\ r \in Seq(Nat) /\ d \in Seq(Nat) /\ g \in Seq(Nat)
    /\ x = ((h \o r) \o d) \o g
Found(h, r, d, g, x) ==
    /\ x \in Seq(Nat) /\ Len(x) = 7 + Len(r) + Len(d) + Len(g)
    /\ \A k \in 1 .. 7 : x[k] = h[k]
    /\ SubSeq(x, 8, 7 + Len(r)) = r
    /\ SubSeq(x, 8 + Len(r), 7 + Len(r) + Len(d)) = d
    /\ SubSeq(x, 8 + Len(r) + Len(d), Len(x)) = g

LEMMA ThreeFields ==
    ASSUME NEW h, NEW r, NEW d, NEW g, NEW x, Pieces(h, r, d, g, x)
    PROVE  Found(h, r, d, g, x)
<1>0. h \in Seq(Nat) /\ Len(h) = 7 /\ r \in Seq(Nat) /\ d \in Seq(Nat) /\ g \in Seq(Nat)
    BY DEF Pieces
<1>1. PICK a : a = h \o r
    OBVIOUS
<1>2. a \in Seq(Nat)
    BY <1>0, <1>1, Joined
<1>3. PICK b : b = a \o d
    OBVIOUS
<1>4. b \in Seq(Nat)
    BY <1>0, <1>2, <1>3, Joined
<1>5. x = b \o g
    BY <1>1, <1>3 DEF Pieces
<1>6. x \in Seq(Nat)
    BY <1>0, <1>4, <1>5, Joined
<1>7. Len(h \o r) = Len(h) + Len(r) /\ \A k \in 1 .. Len(h) : (h \o r)[k] = h[k]
    <2>1. h \in Seq(Nat)
        BY <1>0
    <2>2. r \in Seq(Nat)
        BY <1>0
    <2> QED
        BY <2>1, <2>2, Joined
<1>8. Len(a \o d) = Len(a) + Len(d) /\ \A k \in 1 .. Len(a) : (a \o d)[k] = a[k]
    BY <1>0, <1>2, Joined
<1>9. Len(b \o g) = Len(b) + Len(g) /\ \A k \in 1 .. Len(b) : (b \o g)[k] = b[k]
    BY <1>0, <1>4, Joined
<1>10. Len(r) \in Nat /\ Len(d) \in Nat /\ Len(g) \in Nat
    BY <1>0
<1>11. Len(a) = 7 + Len(r) /\ Len(b) = 7 + Len(r) + Len(d) /\ Len(x) = 7 + Len(r) + Len(d) + Len(g)
    BY <1>0, <1>1, <1>3, <1>5, <1>7, <1>8, <1>9
<1>12. \A k \in 1 .. 7 : x[k] = h[k]
    <2>1. ASSUME NEW k \in 1 .. 7 PROVE x[k] = h[k]
        <3>1. k \in 1 .. Len(h) /\ k \in 1 .. Len(a) /\ k \in 1 .. Len(b)
            BY <1>0, <1>10, <1>11
        <3> QED
            BY <1>0, <3>1, <1>1, <1>3, <1>5, <1>7, <1>8, <1>9
    <2> QED
        BY <2>1
<1>13. SubSeq(x, 8, 7 + Len(r)) = r
    <2>1. 8 \in 1 .. Len(b) + 1
        BY <1>0, <1>10, <1>11
    <2>2. 7 + Len(r) \in 8 - 1 .. Len(b)
        BY <1>0, <1>10, <1>11
    <2>3. SubSeq(b \o g, 8, 7 + Len(r)) = SubSeq(b, 8, 7 + Len(r))
        BY <1>0, <2>1, <2>2, <1>4, CutLeft
    <2>4. 8 \in 1 .. Len(a) + 1
        BY <1>0, <1>10, <1>11
    <2>5. 7 + Len(r) \in 8 - 1 .. Len(a)
        BY <1>0, <1>10, <1>11
    <2>6. SubSeq(a \o d, 8, 7 + Len(r)) = SubSeq(a, 8, 7 + Len(r))
        BY <1>0, <2>4, <2>5, <1>2, CutLeft
    <2>7. SubSeq(h \o r, Len(h) + 1, Len(h) + Len(r)) = r
        BY <1>0, CutRight
    <2>8. SubSeq(a, 8, 7 + Len(r)) = r
        <3>1. Len(h) + 1 = 8 /\ Len(h) + Len(r) = 7 + Len(r)
            BY <1>0
        <3> QED
            BY <1>0, <3>1, <2>7, <1>1
    <2> QED
        BY <1>0, <2>3, <2>6, <2>8, <1>3, <1>5
<1>14. SubSeq(x, 8 + Len(r), 7 + Len(r) + Len(d)) = d
    <2>1. 8 + Len(r) \in 1 .. Len(b) + 1
        BY <1>0, <1>10, <1>11
    <2>2. 7 + Len(r) + Len(d) \in (8 + Len(r)) - 1 .. Len(b)
        BY <1>0, <1>10, <1>11
    <2>3. SubSeq(b \o g, 8 + Len(r), 7 + Len(r) + Len(d)) = SubSeq(b, 8 + Len(r), 7 + Len(r) + Len(d))
        BY <1>0, <2>1, <2>2, <1>4, CutLeft
    <2>4. SubSeq(a \o d, Len(a) + 1, Len(a) + Len(d)) = d
        BY <1>0, <1>2, CutRight
    <2>5. Len(a) + 1 = 8 + Len(r) /\ Len(a) + Len(d) = 7 + Len(r) + Len(d)
        BY <1>0, <1>10, <1>11
    <2> QED
        BY <1>0, <2>3, <2>4, <2>5, <1>3, <1>5
<1>15. SubSeq(x, 8 + Len(r) + Len(d), Len(x)) = g
    <2>1. SubSeq(b \o g, Len(b) + 1, Len(b) + Len(g)) = g
        BY <1>0, <1>4, CutRight
    <2>2. Len(b) + 1 = 8 + Len(r) + Len(d) /\ Len(b) + Len(g) = Len(x)
        BY <1>0, <1>10, <1>11
    <2> QED
        BY <1>0, <2>1, <2>2, <1>5
<1> QED
    BY <1>0, <1>6, <1>11, <1>12, <1>13, <1>14, <1>15 DEF Found

\* Where the fields stand in the bytes of a packet.
Layout(p, x) ==
    /\ x \in Seq(Nat) /\ Len(x) = 7 + Len(p.recipient) + Len(p.payload) + Len(p.signature)
    /\ x[1] = 1 /\ x[2] = p.type /\ x[3] = p.ttl /\ x[4] = p.timestamp
    /\ x[5] = flags_as_u8(p.flags) /\ x[6] = p.payload_length /\ x[7] = 7
    /\ SubSeq(x, 8, 7 + Len(p.recipient)) = p.recipient
    /\ SubSeq(x, 8 + Len(p.recipient), 7 + Len(p.recipient) + Len(p.payload)) = p.payload
    /\ SubSeq(x, 8 + Len(p.recipient) + Len(p.payload), Len(x)) = p.signature

LEMMA EncodeLayout ==
    ASSUME NEW p, OnWire(p)
    PROVE  Layout(p, encode(p))
<1>1. /\ p.version = 1 /\ p.type \in Nat /\ p.ttl \in Nat /\ p.timestamp \in Nat
      /\ p.flags \in SUBSET Flag /\ "HAS_ROUTE" \notin p.flags
      /\ p.sender = <<7>> /\ p.recipient \in Seq(Nat)
      /\ p.payload \in Seq(Nat) /\ Len(p.payload) = p.payload_length /\ p.signature \in Seq(Nat)
    BY WireFields
<1>2. PICK t, l, m, f, n : /\ t = p.type /\ l = p.ttl /\ m = p.timestamp
                           /\ f = flags_as_u8(p.flags) /\ n = p.payload_length
    OBVIOUS
<1>3. f \in Nat
    <2>1. p.flags \in SUBSET Flag
        BY <1>1
    <2> QED
        BY <1>2, <2>1, FlagsReadBack
<1>4. n \in Nat /\ t \in Nat /\ l \in Nat /\ m \in Nat
    BY <1>1, <1>2
<1>5. PICK r \in Seq(Nat), d \in Seq(Nat), g \in Seq(Nat) :
          r = p.recipient /\ d = p.payload /\ g = p.signature
    BY <1>1
<1>6. PICK u, v, w, y, h : u = <<1, t, l, m, f>> /\ v = <<n>> /\ w = <<7>> /\ y = u \o v /\ h = y \o w
    OBVIOUS
<1>7. h \in Seq(Nat) /\ Len(h) = 7
      /\ h[1] = 1 /\ h[2] = t /\ h[3] = l /\ h[4] = m /\ h[5] = f /\ h[6] = n /\ h[7] = 7
    <2>1. u \in Seq(Nat) /\ Len(u) = 5 /\ u[1] = 1 /\ u[2] = t /\ u[3] = l /\ u[4] = m /\ u[5] = f
        BY <1>3, <1>4, <1>6
    <2>2. v \in Seq(Nat) /\ Len(v) = 1 /\ v[1] = n /\ w \in Seq(Nat) /\ Len(w) = 1 /\ w[1] = 7
        BY <1>4, <1>6
    <2>3. /\ y \in Seq(Nat) /\ Len(y) = Len(u) + Len(v)
          /\ \A k \in 1 .. Len(u) : y[k] = u[k]
          /\ \A k \in 1 .. Len(v) : y[Len(u) + k] = v[k]
        BY <2>1, <2>2, <1>6, Joined
    <2>4. /\ Len(y) = 6 /\ y[1] = 1 /\ y[2] = t /\ y[3] = l /\ y[4] = m /\ y[5] = f /\ y[6] = n
        BY <2>1, <2>2, <2>3
    <2>5. /\ h \in Seq(Nat) /\ Len(h) = Len(y) + Len(w)
          /\ \A k \in 1 .. Len(y) : h[k] = y[k]
          /\ \A k \in 1 .. Len(w) : h[Len(y) + k] = w[k]
        BY <2>2, <2>3, <1>6, Joined
    <2> QED
        BY <2>2, <2>4, <2>5
<1>8. PICK x : x = ((h \o r) \o d) \o g
    OBVIOUS
<1>9. encode(p) = x
    <2>1. encode(p) = header_to_bytes(p) \o p.sender \o p.recipient \o <<>> \o p.payload \o p.signature
        BY <1>1 DEF encode
    <2>2. header_to_bytes(p) \o p.sender = h
        BY <1>1, <1>2, <1>6 DEF header_to_bytes
    <2>3. h \o r \in Seq(Nat)
        BY <1>7, Joined
    <2>4. (h \o r) \o <<>> = h \o r
        BY <2>3, ConcatEmptySeq
    <2> QED
        BY <2>1, <2>2, <2>4, <1>5, <1>8
<1>10. /\ x \in Seq(Nat) /\ Len(x) = 7 + Len(r) + Len(d) + Len(g)
       /\ \A k \in 1 .. 7 : x[k] = h[k]
       /\ SubSeq(x, 8, 7 + Len(r)) = r
       /\ SubSeq(x, 8 + Len(r), 7 + Len(r) + Len(d)) = d
       /\ SubSeq(x, 8 + Len(r) + Len(d), Len(x)) = g
    <2>1. Pieces(h, r, d, g, x)
        BY <1>7, <1>8 DEF Pieces
    <2>2. Found(h, r, d, g, x)
        BY <2>1, ThreeFields
    <2> QED
        BY <2>2 DEF Found
<1>11. x[1] = 1 /\ x[2] = t /\ x[3] = l /\ x[4] = m /\ x[5] = f /\ x[6] = n /\ x[7] = 7
    BY <1>7, <1>10
<1> QED
    BY <1>2, <1>5, <1>9, <1>10, <1>11 DEF Layout

\* A byte string that begins like the bytes of a packet is decoded to that packet when
\* it is as long, and is refused when it is longer or shorter.
LEMMA DecodeIs ==
    ASSUME NEW p, OnWire(p), NEW b \in Seq(Nat), NEW x, x = encode(p),
           \A i \in 1 .. Len(x) : i <= Len(b) => b[i] = x[i]
    PROVE  decode(b) = IF Len(b) = Len(x) THEN p ELSE DecodeFailed
<1>1. PICK r, d, g, n : r = Len(p.recipient) /\ d = Len(p.payload) /\ g = Len(p.signature) /\ n = p.payload_length
    OBVIOUS
<1>2. r \in Nat /\ d \in Nat /\ g \in Nat /\ n = d
    BY <1>1, WireFields
<1>3. Layout(p, x)
    BY EncodeLayout
<1>4. /\ x \in Seq(Nat) /\ Len(x) = 7 + r + d + g
      /\ x[1] = 1 /\ x[2] = p.type /\ x[3] = p.ttl /\ x[4] = p.timestamp
      /\ x[5] = flags_as_u8(p.flags) /\ x[6] = n
    BY <1>1, <1>3 DEF Layout
<1>5. Len(b) \in Nat
    OBVIOUS
<1>6. CASE Len(b) < 6
    <2>1. header_from_bytes(b) = DecodeFailed
        <3>1. CASE b = <<>>
            BY <3>1 DEF header_from_bytes
        <3>2. CASE b # <<>>
            <4>1. b[1] = 1
                <5>1. 1 \in 1 .. Len(x) /\ 1 <= Len(b)
                    BY <1>2, <1>4, <3>2
                <5> QED
                    BY <5>1, <1>4
            <4> QED
                BY <4>1, <3>2, <1>6 DEF header_from_bytes, header_size
        <3> QED
            BY <3>1, <3>2
    <2>2. decode(b) = DecodeFailed
        BY <2>1 DEF decode
    <2> QED
        BY <2>2, <1>2, <1>4, <1>5, <1>6
<1>7. CASE Len(b) >= 6
    <2>1. b[1] = x[1] /\ b[2] = x[2] /\ b[3] = x[3] /\ b[4] = x[4] /\ b[5] = x[5] /\ b[6] = x[6]
        <3>1. ASSUME NEW i \in 1 .. 6 PROVE b[i] = x[i]
            <4>1. Len(x) \in Nat /\ 6 <= Len(x)
                BY <1>2, <1>4
            <4>2. i \in 1 .. Len(x) /\ i <= Len(b)
                BY <1>5, <1>7, <4>1
            <4> QED
                BY <4>2
        <3> QED
            BY <3>1
    <2>2. PICK H : H = [version |-> 1, type |-> p.type, ttl |-> p.ttl, timestamp |-> p.timestamp,
                        flags |-> p.flags, payload_length |-> n]
        OBVIOUS
    <2>3. header_from_bytes(b) = H
        <3>1. flags_new(b[5]) = p.flags
            <4>1. p.flags \in SUBSET Flag
                BY WireFields
            <4>2. flags_new(flags_as_u8(p.flags)) = p.flags
                BY <4>1, FlagsReadBack
            <4> QED
                BY <4>2, <2>1, <1>4
        <3>2. b[1] = 1 /\ b[2] = p.type /\ b[3] = p.ttl /\ b[4] = p.timestamp /\ b[6] = n
            BY <2>1, <1>4
        <3>3. b # <<>>
            BY <1>7
        <3>4. ~(Len(b) < header_size(b[1]))
            BY <1>5, <1>7, <3>2 DEF header_size
        <3> QED
            BY <2>2, <3>1, <3>2, <3>3, <3>4 DEF header_from_bytes
    <2>4. H # DecodeFailed
        <3>1. H.version = 1 /\ DecodeFailed.version = -1
            BY <2>2 DEF DecodeFailed
        <3> QED
            BY <3>1
    <2>5. /\ H.version = 1 /\ H.type = p.type /\ H.ttl = p.ttl /\ H.timestamp = p.timestamp
          /\ H.flags = p.flags /\ H.payload_length = n
        BY <2>2
    <2>6. "HAS_ROUTE" \notin H.flags
        BY <2>5, WireFields
    <2>7. /\ (IF "HAS_RECIPIENT" \in H.flags THEN PEER_ID_SIZE ELSE 0) = r
          /\ (IF "HAS_SIGNATURE" \in H.flags THEN SIGNATURE_SIZE ELSE 0) = g
        BY <2>5, <1>1, WireFields DEF PEER_ID_SIZE
    <2>8. header_size(H.version) + PEER_ID_SIZE = 7
        BY <2>5 DEF header_size, PEER_ID_SIZE
    <2>9. decode(b) = IF 7 + r + 0 + n + g # Len(b) THEN DecodeFailed
                      ELSE BitchatPacket(H, SubSeq(b, 7 - PEER_ID_SIZE + 1, 7), SubSeq(b, 7 + 1, 7 + r), NoField,
                                         SubSeq(b, 7 + r + 0 + 1, 7 + r + 0 + n),
                                         SubSeq(b, 7 + r + 0 + n + 1, 7 + r + 0 + n + g))
        BY <2>3, <2>4, <2>5, <2>6, <2>7, <2>8 DEF decode
    <2>10. 7 + r + 0 + n + g = Len(x)
        BY <1>2, <1>4
    <2>11. CASE Len(b) # Len(x)
        BY <2>9, <2>10, <2>11
    <2>12. CASE Len(b) = Len(x)
        <3>1. b = x
            <4>1. \A i \in 1 .. Len(b) : b[i] = x[i]
                BY <1>5, <2>12
            <4> QED
                BY <4>1, <2>12, <1>4, SameSeq
        <3>2. /\ SubSeq(b, 8, 7 + r) = p.recipient
              /\ SubSeq(b, 8 + r, 7 + r + d) = p.payload
              /\ SubSeq(b, 8 + r + d, Len(x)) = p.signature
              /\ b[7] = 7
            BY <3>1, <1>1, <1>3 DEF Layout
        <3>3. SubSeq(b, 7, 7) = <<7>>
            <4>1. 7 \in 1 .. Len(b) + 1 /\ 7 \in 7 - 1 .. Len(b)
                BY <1>2, <1>4, <2>12
            <4>2. PICK c : c = SubSeq(b, 7, 7)
                OBVIOUS
            <4>3. c \in Seq(Nat) /\ Len(c) = 7 - 7 + 1 /\ \A k \in 1 .. 7 - 7 + 1 : c[k] = b[7 + k - 1]
                BY <4>1, <4>2, SubSeqOK
            <4>4. c \in Seq(Nat) /\ Len(c) = 1 /\ c[1] = 7
                BY <3>2, <4>3
            <4>5. <<7>> \in Seq(Nat) /\ Len(<<7>>) = 1 /\ <<7>>[1] = 7
                OBVIOUS
            <4>6. \A k \in 1 .. Len(c) : c[k] = <<7>>[k]
                BY <4>4
            <4> QED
                BY <4>2, <4>4, <4>5, <4>6, SameSeq
        <3>4. /\ 7 - PEER_ID_SIZE + 1 = 7 /\ 7 + 1 = 8 /\ 7 + r + 0 + 1 = 8 + r /\ 7 + r + 0 + n = 7 + r + d
              /\ 7 + r + 0 + n + 1 = 8 + r + d
            BY <1>2 DEF PEER_ID_SIZE
        <3>5. decode(b) = BitchatPacket(H, <<7>>, p.recipient, <<>>, p.payload, p.signature)
            BY <2>9, <2>10, <2>12, <3>2, <3>3, <3>4 DEF NoField
        <3>6. p = [version |-> 1, type |-> p.type, ttl |-> p.ttl, timestamp |-> p.timestamp, flags |-> p.flags,
                   payload_length |-> n, sender |-> <<7>>, recipient |-> p.recipient, route |-> <<>>,
                   payload |-> p.payload, signature |-> p.signature]
            <4>1. p \in WirePacket
                BY DEF OnWire
            <4> QED
                BY <4>1, <1>1 DEF WirePacket
        <3> QED
            BY <2>5, <2>12, <3>5, <3>6 DEF BitchatPacket
    <2> QED
        BY <2>11, <2>12
<1> QED
    BY <1>5, <1>6, <1>7

\* A packet as it is built, before it is compressed.
BuiltPacket(p) == p \in WirePacket /\ "IS_COMPRESSED" \notin p.flags /\ p.payload_length = Len(p.payload)

LEMMA WithPayloadIs ==
    ASSUME NEW p \in WirePacket, NEW payload \in Seq(Nat), NEW flags \in SUBSET Flag
    PROVE  /\ WithPayload(p, payload, flags) \in WirePacket
           /\ WithPayload(p, payload, flags) =
                  [version |-> p.version, type |-> p.type, ttl |-> p.ttl, timestamp |-> p.timestamp,
                   flags |-> flags, payload_length |-> Len(payload), sender |-> p.sender,
                   recipient |-> p.recipient, route |-> p.route, payload |-> payload, signature |-> p.signature]
<1>1. PICK carrying : carrying = [p EXCEPT !.payload = payload]
    OBVIOUS
<1>2. PICK measured : measured = [carrying EXCEPT !.payload_length = Len(payload)]
    OBVIOUS
<1>3. PICK q : q = [measured EXCEPT !.flags = flags]
    OBVIOUS
<1>4. WithPayload(p, payload, flags) = q
    BY <1>1, <1>2, <1>3, Zenon DEF WithPayload
<1>5. Len(payload) \in Nat
    OBVIOUS
<1>6. carrying \in WirePacket
    BY <1>1 DEF WirePacket
<1>7. measured \in WirePacket
    BY <1>2, <1>5, <1>6 DEF WirePacket
<1>8. q \in WirePacket
    BY <1>3, <1>7 DEF WirePacket
<1>9. q = [version |-> p.version, type |-> p.type, ttl |-> p.ttl, timestamp |-> p.timestamp,
           flags |-> flags, payload_length |-> Len(payload), sender |-> p.sender,
           recipient |-> p.recipient, route |-> p.route, payload |-> payload, signature |-> p.signature]
    BY <1>1, <1>2, <1>3, <1>6, <1>7 DEF WirePacket
<1> QED
    BY <1>4, <1>8, <1>9

LEMMA BuiltIs ==
    ASSUME NEW p, BuiltPacket(p)
    PROVE  p = [version |-> p.version, type |-> p.type, ttl |-> p.ttl, timestamp |-> p.timestamp,
                flags |-> p.flags, payload_length |-> Len(p.payload), sender |-> p.sender,
                recipient |-> p.recipient, route |-> p.route, payload |-> p.payload, signature |-> p.signature]
BY DEF BuiltPacket, WirePacket

\* What is put on the wire for a packet, and what becomes of it when it is read whole.
LEMMA SqueezedIs ==
    ASSUME NEW p, BuiltPacket(p), NEW squeeze \in BOOLEAN
    PROVE  /\ Squeezed(p, squeeze) \in WirePacket
           /\ \/ Squeezed(p, squeeze) = p
              \/ /\ "IS_COMPRESSED" \in Squeezed(p, squeeze).flags
                 /\ decompress(Squeezed(p, squeeze).payload) = p.payload /\ p.payload # NoField
                 /\ WithPayload(Squeezed(p, squeeze), p.payload, Squeezed(p, squeeze).flags \ {"IS_COMPRESSED"}) = p
<1>1. p \in WirePacket /\ "IS_COMPRESSED" \notin p.flags
    BY DEF BuiltPacket
<1>2. p.payload \in Seq(Nat) /\ p.flags \in SUBSET Flag
    BY <1>1 DEF WirePacket
<1>3. CASE squeeze /\ should_compress(p.payload)
    <2>1. p.payload # <<>>
        BY <1>3, CodecConstants DEF should_compress
    <2>2. PICK c, f : c = compress(p.payload) /\ f = p.flags \cup {"IS_COMPRESSED"}
        OBVIOUS
    <2>3. p.payload \in Seq(Nat)
        BY <1>2
    <2>4. c \in Seq(Nat) /\ decompress(c) = p.payload
        BY <2>1, <2>2, <2>3, DecompressUndoes
    <2>5. f \in SUBSET Flag /\ "IS_COMPRESSED" \in f /\ f \ {"IS_COMPRESSED"} = p.flags
        BY <1>1, <1>2, <2>2 DEF Flag
    <2>6. PICK q : q = WithPayload(p, c, f)
        OBVIOUS
    <2>7. Squeezed(p, squeeze) = q
        BY <1>3, <2>2, <2>6 DEF Squeezed
    <2>8. /\ q \in WirePacket
          /\ q = [version |-> p.version, type |-> p.type, ttl |-> p.ttl, timestamp |-> p.timestamp,
                  flags |-> f, payload_length |-> Len(c), sender |-> p.sender,
                  recipient |-> p.recipient, route |-> p.route, payload |-> c, signature |-> p.signature]
        <3>1. c \in Seq(Nat)
            BY <2>4
        <3>2. f \in SUBSET Flag
            BY <2>5
        <3> QED
            BY <1>1, <2>6, <3>1, <3>2, WithPayloadIs
    <2>9. WithPayload(q, p.payload, p.flags) = p
        <3>1. q \in WirePacket
            BY <2>8
        <3>2. p.flags \in SUBSET Flag
            BY <1>2
        <3>3. WithPayload(q, p.payload, p.flags) =
                  [version |-> q.version, type |-> q.type, ttl |-> q.ttl, timestamp |-> q.timestamp,
                   flags |-> p.flags, payload_length |-> Len(p.payload), sender |-> q.sender,
                   recipient |-> q.recipient, route |-> q.route, payload |-> p.payload, signature |-> q.signature]
            BY <2>3, <3>1, <3>2, WithPayloadIs
        <3> QED
            BY <2>8, <3>3, BuiltIs
    <2>10. q.flags = f /\ q.payload = c
        BY <2>8
    <2> QED
        BY <2>1, <2>4, <2>5, <2>7, <2>8, <2>9, <2>10 DEF NoField
<1>4. CASE ~(squeeze /\ should_compress(p.payload))
    BY <1>1, <1>4 DEF Squeezed
<1> QED
    BY <1>3, <1>4

Option == [compress : BOOLEAN, pad : BOOLEAN]

\* A packet that is put on the wire and taken off it is the packet it was, or is refused;
\* one that was padded by something less than a byte's worth is not refused (wire.rs,
\* encode_with_options and decode_with_options).
THEOREM PacketsReadBack ==
    ASSUME NEW p, BuiltPacket(p), NEW o \in Option, encodable(Squeezed(p, o.compress))
    PROVE  /\ decode_with_options(encode_with_options(p, o)) \in {p, DecodeFailed}
           /\ (o.pad /\ optimal_block_size(Len(encode(Squeezed(p, o.compress))))
                            - Len(encode(Squeezed(p, o.compress))) \in 1 .. ByteValues - 1)
              => decode_with_options(encode_with_options(p, o)) = p
           /\ encode_with_options(p, o) # <<>>
<1>1. PICK q : q = Squeezed(p, o.compress)
    OBVIOUS
<1>2. o.compress \in BOOLEAN
    BY DEF Option
<1>3. q \in WirePacket /\ OnWire(q)
    BY <1>1, <1>2, SqueezedIs DEF OnWire
<1>4. PICK x : x = encode(q)
    OBVIOUS
<1>5. x \in Seq(Nat) /\ 7 <= Len(x) /\ Len(x) \in Nat
    <2>1. Layout(q, x)
        BY <1>3, <1>4, EncodeLayout
    <2>2. /\ q.recipient \in Seq(Nat) /\ q.payload \in Seq(Nat) /\ q.signature \in Seq(Nat)
        BY <1>3, WireFields
    <2>3. Len(q.recipient) \in Nat /\ Len(q.payload) \in Nat /\ Len(q.signature) \in Nat
        BY <2>2
    <2>4. PICK r \in Nat, d \in Nat, g \in Nat :
              r = Len(q.recipient) /\ d = Len(q.payload) /\ g = Len(q.signature)
        BY <2>3
    <2>5. x \in Seq(Nat) /\ Len(x) = 7 + r + d + g
        BY <2>1, <2>4 DEF Layout
    <2>6. 7 + r + d + g \in Nat /\ 7 <= 7 + r + d + g
        OBVIOUS
    <2> QED
        BY <2>5, <2>6
<1>6. PICK b : b = encode_with_options(p, o)
    OBVIOUS
<1>7. b = IF o.pad THEN pad(x) ELSE x
    BY <1>1, <1>4, <1>6 DEF encode_with_options
<1>8. b \in Seq(Nat) /\ Len(x) <= Len(b) /\ \A i \in 1 .. Len(x) : b[i] = x[i]
    <2>1. x \in Seq(Nat)
        BY <1>5
    <2>2. CASE ~o.pad
        BY <1>5, <1>7, <2>2
    <2>3. CASE o.pad
        <3>1. PICK t \in Seq(Nat) : pad(x) = x \o t
            BY <2>1, PadExtends
        <3>2. x \o t \in Seq(Nat) /\ Len(x \o t) = Len(x) + Len(t) /\ \A k \in 1 .. Len(x) : (x \o t)[k] = x[k]
            BY <2>1, Joined
        <3>3. Len(t) \in Nat
            OBVIOUS
        <3> QED
            BY <1>5, <1>7, <2>3, <3>1, <3>2, <3>3
    <2> QED
        BY <2>2, <2>3
<1>9. b # <<>> /\ Len(b) \in Nat
    BY <1>5, <1>8
<1>10. PICK k \in 0 .. Len(b) : unpad(b) = SubSeq(b, 1, k)
    <2>1. b \in Seq(Nat)
        BY <1>8
    <2> QED
        BY <1>9, <2>1, UnpadCuts
<1>11. PICK y : y = SubSeq(b, 1, k)
    OBVIOUS
<1>12. y \in Seq(Nat) /\ \A i \in 1 .. Len(x) : i <= Len(y) => y[i] = x[i]
    <2>1. b \in Seq(Nat) /\ 1 \in 1 .. Len(b) + 1 /\ k \in 1 - 1 .. Len(b)
        BY <1>8, <1>9
    <2>2. y \in Seq(Nat) /\ Len(y) = k - 1 + 1 /\ \A i \in 1 .. k - 1 + 1 : y[i] = b[1 + i - 1]
        BY <1>11, <2>1, SubSeqOK
    <2>3. ASSUME NEW i \in 1 .. Len(x), i <= Len(y) PROVE y[i] = x[i]
        <3>1. i \in 1 .. k - 1 + 1 /\ 1 + i - 1 = i
            BY <2>2, <2>3, <1>9, <1>5
        <3> QED
            BY <3>1, <2>2, <1>8
    <2> QED
        BY <2>2, <2>3
<1>13. decode(y) = IF Len(y) = Len(x) THEN q ELSE DecodeFailed
    <2>1. y \in Seq(Nat)
        BY <1>12
    <2>2. OnWire(q)
        BY <1>3
    <2>3. \A i \in 1 .. Len(x) : i <= Len(y) => y[i] = x[i]
        BY <1>12
    <2> QED
        BY <1>4, <2>1, <2>2, <2>3, DecodeIs
<1>14. q # DecodeFailed
    <2>1. q.version = 1 /\ DecodeFailed.version = -1
        BY <1>3 DEF WirePacket, DecodeFailed
    <2> QED
        BY <2>1
<1>15. ASSUME Len(y) = Len(x) PROVE decode_with_options(b) = p
    <2>1. decode(unpad(b)) = q
        BY <1>10, <1>11, <1>13, <1>15
    <2>2. CASE q = p
        <3>1. "IS_COMPRESSED" \notin q.flags
            BY <2>2 DEF BuiltPacket
        <3> QED
            BY <2>1, <2>2, <3>1 DEF decode_with_options
    <2>3. CASE q # p
        <3>1. /\ "IS_COMPRESSED" \in q.flags
              /\ decompress(q.payload) = p.payload /\ p.payload # NoField
              /\ WithPayload(q, p.payload, q.flags \ {"IS_COMPRESSED"}) = p
            BY <1>1, <1>2, <2>3, SqueezedIs
        <3> QED
            BY <2>1, <3>1, <1>14 DEF decode_with_options
    <2> QED
        BY <2>2, <2>3
<1>16. ASSUME Len(y) # Len(x) PROVE decode_with_options(b) = DecodeFailed
    <2>1. decode(unpad(b)) = DecodeFailed
        BY <1>10, <1>11, <1>13, <1>16
    <2> QED
        BY <2>1 DEF decode_with_options
<1>17. ASSUME o.pad, optimal_block_size(Len(x)) - Len(x) \in 1 .. ByteValues - 1
       PROVE  Len(y) = Len(x)
    <2>1. x \in Seq(Nat)
        BY <1>5
    <2>2. unpad(b) = x
        BY <1>7, <1>17, <2>1, UnpadUndoesPad
    <2> QED
        BY <1>10, <1>11, <2>2
<1> QED
    BY <1>1, <1>4, <1>6, <1>9, <1>15, <1>16, <1>17

-----------------------------------------------------------------------------
(* Packets from hop to hop *)

AtHop(p, t) == [p EXCEPT !.ttl = t]

LEMMA AtHopIs ==
    ASSUME NEW p \in WirePacket, NEW t \in Nat
    PROVE  /\ AtHop(p, t) \in WirePacket
           /\ AtHop(p, t) =
                  [version |-> p.version, type |-> p.type, ttl |-> t, timestamp |-> p.timestamp,
                   flags |-> p.flags, payload_length |-> p.payload_length, sender |-> p.sender,
                   recipient |-> p.recipient, route |-> p.route, payload |-> p.payload, signature |-> p.signature]
<1>1. PICK q : q = AtHop(p, t)
    OBVIOUS
<1>2. q = [version |-> p.version, type |-> p.type, ttl |-> t, timestamp |-> p.timestamp,
           flags |-> p.flags, payload_length |-> p.payload_length, sender |-> p.sender,
           recipient |-> p.recipient, route |-> p.route, payload |-> p.payload, signature |-> p.signature]
    BY <1>1 DEF AtHop, WirePacket
<1>3. q \in WirePacket
    BY <1>2 DEF WirePacket
<1> QED
    BY <1>1, <1>2, <1>3

\* The fields that a hop leaves as they are.
LEMMA AtHopFields ==
    ASSUME NEW p \in WirePacket, NEW t \in Nat
    PROVE  LET q == AtHop(p, t)
           IN /\ q \in WirePacket /\ q.ttl = t
              /\ q.version = p.version /\ q.type = p.type /\ q.timestamp = p.timestamp /\ q.flags = p.flags
              /\ q.payload_length = p.payload_length /\ q.sender = p.sender /\ q.recipient = p.recipient
              /\ q.route = p.route /\ q.payload = p.payload /\ q.signature = p.signature
BY AtHopIs

LEMMA AtHopBuilt ==
    ASSUME NEW p, BuiltPacket(p), NEW t \in Nat
    PROVE  BuiltPacket(AtHop(p, t))
<1>1. p \in WirePacket
    BY DEF BuiltPacket
<1> QED
    BY <1>1, AtHopFields DEF BuiltPacket

LEMMA SameFields ==
    ASSUME NEW p \in WirePacket, NEW q \in WirePacket,
           /\ p.type = q.type /\ p.ttl = q.ttl /\ p.timestamp = q.timestamp /\ p.flags = q.flags
           /\ p.payload_length = q.payload_length /\ p.recipient = q.recipient
           /\ p.payload = q.payload /\ p.signature = q.signature
    PROVE  p = q
<1>1. p = [version |-> 1, type |-> p.type, ttl |-> p.ttl, timestamp |-> p.timestamp,
           flags |-> p.flags, payload_length |-> p.payload_length, sender |-> <<7>>,
           recipient |-> p.recipient, route |-> <<>>, payload |-> p.payload, signature |-> p.signature]
    BY DEF WirePacket
<1>2. q = [version |-> 1, type |-> q.type, ttl |-> q.ttl, timestamp |-> q.timestamp,
           flags |-> q.flags, payload_length |-> q.payload_length, sender |-> <<7>>,
           recipient |-> q.recipient, route |-> <<>>, payload |-> q.payload, signature |-> q.signature]
    BY DEF WirePacket
<1> QED
    BY <1>1, <1>2

LEMMA AtHopAgain ==
    ASSUME NEW p \in WirePacket, NEW t \in Nat, NEW u \in Nat
    PROVE  AtHop(AtHop(p, t), u) = AtHop(p, u) /\ AtHop(p, p.ttl) = p
<1>1. PICK a : a = AtHop(p, t)
    OBVIOUS
<1>2. a \in WirePacket
    BY <1>1, AtHopIs
<1>3. AtHop(a, u) = AtHop(p, u)
    <2>1. AtHop(a, u) \in WirePacket /\ AtHop(p, u) \in WirePacket
        BY <1>2, AtHopIs
    <2> QED
        BY <1>1, <1>2, <2>1, AtHopFields, SameFields
<1>4. AtHop(p, p.ttl) = p
    <2>1. p.ttl \in Nat
        BY DEF WirePacket
    <2>2. AtHop(p, p.ttl) \in WirePacket
        BY <2>1, AtHopIs
    <2> QED
        BY <2>1, <2>2, AtHopFields, SameFields
<1> QED
    BY <1>1, <1>3, <1>4

\* A hop changes neither what is compressed nor whether it can be encoded, nor its length.
LEMMA HopsKeep ==
    ASSUME NEW p, BuiltPacket(p), NEW squeeze \in BOOLEAN, NEW t \in Nat
    PROVE  LET a == Squeezed(p, squeeze)
               b == Squeezed(AtHop(p, t), squeeze)
           IN /\ encodable(b) <=> encodable(a)
              /\ encodable(a) => Len(encode(b)) = Len(encode(a))
<1>1. PICK o : o = AtHop(p, t)
    OBVIOUS
<1>2. PICK a, b : a = Squeezed(p, squeeze) /\ b = Squeezed(o, squeeze)
    OBVIOUS
<1>3. p \in WirePacket /\ BuiltPacket(o)
    BY <1>1, AtHopBuilt DEF BuiltPacket
<1>4. a \in WirePacket /\ b \in WirePacket
    BY <1>2, <1>3, SqueezedIs
<1>5. /\ o \in WirePacket /\ o.version = p.version /\ o.flags = p.flags /\ o.payload_length = p.payload_length
      /\ o.recipient = p.recipient /\ o.route = p.route /\ o.payload = p.payload /\ o.signature = p.signature
    BY <1>1, <1>3, AtHopFields
<1>6. /\ a.version = b.version /\ a.flags = b.flags /\ a.payload_length = b.payload_length
      /\ a.recipient = b.recipient /\ a.route = b.route /\ a.payload = b.payload /\ a.signature = b.signature
    <2>1. CASE squeeze /\ should_compress(p.payload)
        <3>1. PICK c, f : c = compress(p.payload) /\ f = p.flags \cup {"IS_COMPRESSED"}
            OBVIOUS
        <3>2. a = WithPayload(p, c, f) /\ b = WithPayload(o, c, f)
            BY <1>2, <1>5, <2>1, <3>1 DEF Squeezed
        <3>3. c \in Seq(Nat)
            <4>1. p.payload \in Seq(Nat)
                BY <1>3 DEF WirePacket
            <4>2. p.payload # <<>>
                BY <2>1, CodecConstants DEF should_compress
            <4> QED
                BY <3>1, <4>1, <4>2, DecompressUndoes
        <3>4. f \in SUBSET Flag
            BY <1>3, <3>1 DEF WirePacket, Flag
        <3>5. /\ a.version = p.version /\ a.flags = f /\ a.payload_length = Len(c)
              /\ a.recipient = p.recipient /\ a.route = p.route /\ a.payload = c /\ a.signature = p.signature
            BY <1>3, <3>2, <3>3, <3>4, WithPayloadIs
        <3>6. /\ b.version = o.version /\ b.flags = f /\ b.payload_length = Len(c)
              /\ b.recipient = o.recipient /\ b.route = o.route /\ b.payload = c /\ b.signature = o.signature
            BY <1>5, <3>2, <3>3, <3>4, WithPayloadIs
        <3> QED
            BY <3>5, <3>6, <1>5
    <2>2. CASE ~(squeeze /\ should_compress(p.payload))
        BY <1>2, <1>5, <2>2 DEF Squeezed
    <2> QED
        BY <2>1, <2>2
<1>7. encodable(b) <=> encodable(a)
    BY <1>6 DEF encodable, packet_validate, HeaderValid
<1>8. ASSUME encodable(a) PROVE Len(encode(b)) = Len(encode(a))
    <2>1. OnWire(a) /\ OnWire(b)
        BY <1>4, <1>7, <1>8 DEF OnWire
    <2>2. Layout(a, encode(a)) /\ Layout(b, encode(b))
        BY <2>1, EncodeLayout
    <2> QED
        BY <2>2, <1>6 DEF Layout
<1> QED
    BY <1>1, <1>2, <1>7, <1>8

CodecInv ==
    /\ packet = NoPacket \/ BuiltPacket(packet)
    /\ options \in Option
    /\ IF origin = NoPacket THEN wire_bytes = <<>> /\ received = NoPacket
       ELSE /\ BuiltPacket(origin) /\ encodable(Squeezed(origin, options.compress))
            /\ wire_bytes # <<>> => \E t \in Nat : wire_bytes = encode_with_options(AtHop(origin, t), options)
            /\ received \notin {NoPacket, DecodeFailed} => \E t \in Nat : received = AtHop(origin, t)
    /\ PaddedArrives

\* No packet is NoPacket or DecodeFailed.
LEMMA BuiltIsNeither ==
    ASSUME NEW p, BuiltPacket(p)
    PROVE  p # NoPacket /\ p # DecodeFailed
<1>1. p.version = 1 /\ NoPacket.version = 0 /\ DecodeFailed.version = -1
    BY DEF BuiltPacket, WirePacket, NoPacket, DecodeFailed
<1> QED
    BY <1>1

LEMMA CodecInvSound == CodecInv => PacketsSurvive
<1> SUFFICES ASSUME CodecInv PROVE SignatureSurvives
    BY DEF CodecInv, PacketsSurvive
<1> SUFFICES ASSUME received \notin {NoPacket, DecodeFailed}, verify_signature(origin)
             PROVE  verify_signature(received)
    BY DEF SignatureSurvives
<1>1. origin # NoPacket /\ BuiltPacket(origin)
    BY DEF CodecInv
<1>2. PICK t \in Nat : received = AtHop(origin, t)
    BY <1>1 DEF CodecInv
<1>3. PICK o, r : o = origin /\ r = received
    OBVIOUS
<1>4. o \in WirePacket /\ r = AtHop(o, t)
    BY <1>1, <1>2, <1>3 DEF BuiltPacket
<1>5. /\ r.version = o.version /\ r.type = o.type /\ r.timestamp = o.timestamp /\ r.sender = o.sender
      /\ r.recipient = o.recipient /\ r.payload = o.payload /\ r.signature = o.signature
    BY <1>4, AtHopFields
<1>6. canonical_bytes_for_signing(r) = canonical_bytes_for_signing(o)
    BY <1>5 DEF canonical_bytes_for_signing
<1> QED
    BY <1>3, <1>5, <1>6 DEF verify_signature

LEMMA CodecInitInv == CodecInit => CodecInv
BY DEF CodecInit, CodecInv, PaddedArrives, Option

\* While a packet is built nothing else is touched.
LEMMA BuildingInv ==
    ASSUME CodecInv, packet' = NoPacket \/ BuiltPacket(packet'), Leave
    PROVE  CodecInv'
BY DEF CodecInv, Leave, PaddedArrives, Unpadded

LEMMA BuildInv ==
    ASSUME CodecInv, Build
    PROVE  CodecInv'
<1>1. PICK payload \in SomePayload :
          \/ packet' = new_simple(2, payload)
          \/ \E recipient \in {NoField, <<8>>}, flags \in SUBSET {"HAS_SIGNATURE", "HAS_ROUTE"} :
                packet' = packet_new(3, recipient, payload, flags)
    BY DEF Build
<1>2. payload \in Seq(Nat) /\ MAX_HOPS \in Nat
    BY CodecConstants
<1>3. Len(payload) \in Nat
    BY <1>2
<1>4. BuiltPacket(new_simple(2, payload))
    BY <1>2, <1>3 DEF new_simple, BitchatPacket, header_new, BuiltPacket, WirePacket, NoField
<1>5. ASSUME NEW recipient \in {NoField, << 8 >>}, NEW flags \in SUBSET {"HAS_SIGNATURE", "HAS_ROUTE"}
      PROVE  BuiltPacket(packet_new(3, recipient, payload, flags))
    <2>1. PICK f : f = IF recipient = NoField THEN flags ELSE flags \cup {"HAS_RECIPIENT"}
        OBVIOUS
    <2>2. f \in SUBSET Flag /\ "IS_COMPRESSED" \notin f
        BY <2>1 DEF Flag
    <2> QED
        BY <2>1, <2>2, <1>2, <1>3 DEF packet_new, BitchatPacket, header_new, BuiltPacket, WirePacket, NoField
<1>6. BuiltPacket(packet')
    BY <1>1, <1>4, <1>5
<1> QED
    BY <1>6, BuildingInv DEF Build

LEMMA SignedBuilt ==
    ASSUME NEW p, BuiltPacket(p), NEW s \in SignatureBytes
    PROVE  BuiltPacket(Signed(p, s))
<1>1. PICK set : set = [p EXCEPT !.signature = s]
    OBVIOUS
<1>2. PICK q : q = [set EXCEPT !.flags = p.flags \cup {"HAS_SIGNATURE"}]
    OBVIOUS
<1>3. Signed(p, s) = q
    BY <1>1, <1>2, Zenon DEF Signed
<1>4. /\ set \in WirePacket /\ set.payload = p.payload /\ set.payload_length = p.payload_length
    BY <1>1 DEF BuiltPacket, WirePacket
<1>5. p.flags \cup {"HAS_SIGNATURE"} \in SUBSET Flag /\ "IS_COMPRESSED" \notin p.flags \cup {"HAS_SIGNATURE"}
    BY DEF BuiltPacket, WirePacket, Flag
<1>6. BuiltPacket(q)
    BY <1>2, <1>4, <1>5 DEF BuiltPacket, WirePacket
<1> QED
    BY <1>3, <1>6

LEMMA RecipientInv ==
    ASSUME CodecInv, with_recipient
    PROVE  CodecInv'
<1>1. PICK p : p = packet
    OBVIOUS
<1>2. BuiltPacket(p)
    BY <1>1 DEF CodecInv, with_recipient, Building
<1>3. PICK addressed : addressed = [p EXCEPT !.recipient = <<8>>]
    OBVIOUS
<1>4. PICK f, q : f = p.flags \cup {"HAS_RECIPIENT"} /\ q = [addressed EXCEPT !.flags = f]
    OBVIOUS
<1>5. packet' = q
    BY <1>1, <1>3, <1>4, Zenon DEF with_recipient
<1>6. addressed \in WirePacket /\ addressed.payload = p.payload /\ addressed.payload_length = p.payload_length
    BY <1>2, <1>3 DEF BuiltPacket, WirePacket
<1>7. f \in SUBSET Flag /\ "IS_COMPRESSED" \notin f
    BY <1>2, <1>4 DEF BuiltPacket, WirePacket, Flag
<1>8. BuiltPacket(q)
    BY <1>2, <1>4, <1>6, <1>7 DEF BuiltPacket, WirePacket
<1> QED
    BY <1>5, <1>8, BuildingInv DEF with_recipient

LEMMA TransmitInv ==
    ASSUME CodecInv, NEW o \in Option, Transmit(o)
    PROVE  CodecInv'
<1>1. /\ origin = NoPacket /\ packet # NoPacket /\ BuiltPacket(packet)
      /\ wire_bytes = <<>> /\ received = NoPacket
    BY DEF CodecInv, Transmit, Building
<1>2. options' = o /\ packet' = packet /\ received' = received
    BY DEF Transmit
<1>3. CASE encodable(Squeezed(packet, o.compress))
    <2>1. wire_bytes' = encode_with_options(packet, o) /\ origin' = packet
        BY <1>3 DEF Transmit
    <2>2. \E t \in Nat : wire_bytes' = encode_with_options(AtHop(packet, t), o)
        <3>1. PICK p : p = packet
            OBVIOUS
        <3>2. p \in WirePacket /\ p.ttl \in Nat
            BY <1>1, <3>1 DEF BuiltPacket, WirePacket
        <3>3. AtHop(p, p.ttl) = p
            BY <3>2, AtHopAgain
        <3> QED
            BY <2>1, <3>1, <3>2, <3>3
    <2>3. PaddedArrives'
        BY <1>1, <1>2 DEF PaddedArrives
    <2> QED
        BY <1>1, <1>2, <1>3, <2>1, <2>2, <2>3 DEF CodecInv
<1>4. CASE ~encodable(Squeezed(packet, o.compress))
    <2>1. wire_bytes' = wire_bytes /\ origin' = origin
        BY <1>4 DEF Transmit
    <2>2. PaddedArrives'
        BY <1>1, <1>2 DEF PaddedArrives
    <2> QED
        BY <1>1, <1>2, <2>1, <2>2 DEF CodecInv
<1> QED
    BY <1>3, <1>4

LEMMA ReceiveInv ==
    ASSUME CodecInv, Receive
    PROVE  CodecInv'
<1>1. /\ origin # NoPacket /\ BuiltPacket(origin) /\ options \in Option
      /\ encodable(Squeezed(origin, options.compress))
    BY DEF CodecInv, Receive
<1>2. PICK t \in Nat : wire_bytes = encode_with_options(AtHop(origin, t), options)
    BY <1>1 DEF CodecInv, Receive
<1>3. PICK p, o, q : p = origin /\ o = options /\ q = AtHop(origin, t)
    OBVIOUS
<1>4. BuiltPacket(p) /\ o \in Option /\ o.compress \in BOOLEAN /\ encodable(Squeezed(p, o.compress))
    BY <1>1, <1>3 DEF Option
<1>5. BuiltPacket(q)
    BY <1>3, <1>4, AtHopBuilt
<1>6. /\ encodable(Squeezed(q, o.compress))
      /\ Len(encode(Squeezed(q, o.compress))) = Len(encode(Squeezed(p, o.compress)))
    BY <1>3, <1>4, HopsKeep
<1>7. PICK r : r = decode_with_options(encode_with_options(q, o))
    OBVIOUS
<1>8. /\ r \in {q, DecodeFailed}
      /\ (o.pad /\ optimal_block_size(Len(encode(Squeezed(q, o.compress))))
                       - Len(encode(Squeezed(q, o.compress))) \in 1 .. ByteValues - 1) => r = q
    <2>1. o \in Option
        BY <1>4
    <2> QED
        BY <1>5, <1>6, <1>7, <2>1, PacketsReadBack
<1>9. received' = r /\ UNCHANGED <<packet, wire_bytes, origin, options>>
    BY <1>2, <1>3, <1>7 DEF Receive
<1>10. received' \notin {NoPacket, DecodeFailed} => \E u \in Nat : received' = AtHop(origin, u)
    BY <1>3, <1>8, <1>9
<1>11. PaddedArrives'
    <2>1. SUFFICES ASSUME o.pad, optimal_block_size(Len(encode(Squeezed(p, o.compress))))
                                     - Len(encode(Squeezed(p, o.compress))) \in 1 .. ByteValues - 1
                   PROVE  r # DecodeFailed /\ AtHop(r, p.ttl) = p
        BY <1>3, <1>9 DEF PaddedArrives, Unpadded, AtHop
    <2>2. r = q
        BY <2>1, <1>6, <1>8
    <2>3. r # DecodeFailed
        BY <2>2, <1>5, BuiltIsNeither
    <2>4. p \in WirePacket /\ p.ttl \in Nat
        BY <1>4 DEF BuiltPacket, WirePacket
    <2>5. AtHop(AtHop(p, t), p.ttl) = p
        BY <2>4, AtHopAgain
    <2> QED
        BY <2>2, <2>3, <2>5, <1>3
<1>12. wire_bytes' # <<>> => \E u \in Nat : wire_bytes' = encode_with_options(AtHop(origin, u), options)
    BY <1>2, <1>9
<1> QED
    BY <1>1, <1>9, <1>10, <1>11, <1>12 DEF CodecInv

LEMMA RelayInv ==
    ASSUME CodecInv, Relay
    PROVE  CodecInv'
<1>1. /\ received \notin {NoPacket, DecodeFailed} /\ origin # NoPacket /\ BuiltPacket(origin)
      /\ options \in Option /\ encodable(Squeezed(origin, options.compress))
    BY DEF CodecInv, Relay
<1>2. PICK t \in Nat : received = AtHop(origin, t)
    BY <1>1 DEF CodecInv
<1>3. PICK p : p = AtHop(received, received.ttl - 1)
    OBVIOUS
<1>4. \E u \in Nat : p = AtHop(origin, u)
    <2>1. PICK o, r : o = origin /\ r = received
        OBVIOUS
    <2>2. o \in WirePacket /\ r = AtHop(o, t) /\ p = AtHop(r, r.ttl - 1)
        BY <1>1, <1>2, <1>3, <2>1 DEF BuiltPacket
    <2>3. r.ttl = t
        BY <2>2, AtHopFields
    <2>4. t - 1 \in Nat
        BY <2>1, <2>3 DEF Relay
    <2>5. AtHop(AtHop(o, t), t - 1) = AtHop(o, t - 1)
        BY <2>2, <2>4, AtHopAgain
    <2> QED
        BY <2>1, <2>2, <2>3, <2>4, <2>5
<1>5. /\ UNCHANGED <<packet, origin, options>>
      /\ \/ wire_bytes' = encode_with_options(p, options) /\ received' = NoPacket
         \/ UNCHANGED <<wire_bytes, received>>
    BY <1>3 DEF Relay, AtHop
<1>6. CASE wire_bytes' = encode_with_options(p, options) /\ received' = NoPacket
    <2>1. PaddedArrives'
        BY <1>6 DEF PaddedArrives
    <2> QED
        BY <1>1, <1>4, <1>5, <1>6, <2>1 DEF CodecInv
<1>7. CASE UNCHANGED <<wire_bytes, received>>
    BY <1>5, <1>7 DEF CodecInv, PaddedArrives, Unpadded
<1> QED
    BY <1>5, <1>6, <1>7

LEMMA CodecStep == CodecInv /\ [CodecNext]_codecVars => CodecInv'
<1> SUFFICES ASSUME CodecInv, [CodecNext]_codecVars PROVE CodecInv'
    OBVIOUS
<1>1. CASE Build
    BY <1>1, BuildInv
<1>2. CASE with_recipient
    BY <1>2, RecipientInv
<1>3. CASE with_ttl(2)
    <2>1. BuiltPacket(packet) /\ packet' = AtHop(packet, 2) /\ Leave
        BY <1>3 DEF with_ttl, Building, CodecInv, AtHop
    <2>2. PICK p : p = packet
        OBVIOUS
    <2>3. BuiltPacket(AtHop(p, 2))
        BY <2>1, <2>2, AtHopBuilt
    <2> QED
        BY <2>1, <2>2, <2>3, BuildingInv
<1>4. CASE Receive
    BY <1>4, ReceiveInv
<1>5. CASE Relay
    BY <1>5, RelayInv
<1>6. ASSUME NEW s \in SignatureBytes, with_signature(s) \/ sign(s)
      PROVE  CodecInv'
    <2>1. BuiltPacket(packet) /\ packet' = Signed(packet, s) /\ Leave
        BY <1>6 DEF with_signature, sign, Building, CodecInv
    <2>2. PICK p : p = packet
        OBVIOUS
    <2>3. BuiltPacket(Signed(p, s))
        BY <2>1, <2>2, SignedBuilt
    <2> QED
        BY <2>1, <2>2, <2>3, BuildingInv
<1>7. ASSUME NEW c \in BOOLEAN, NEW d \in BOOLEAN, Transmit([compress |-> c, pad |-> d])
      PROVE  CodecInv'
    <2>1. [compress |-> c, pad |-> d] \in Option
        BY DEF Option
    <2> QED
        BY <1>7, <2>1, TransmitInv
<1>8. CASE UNCHANGED codecVars
    BY <1>8 DEF codecVars, CodecInv, PaddedArrives, Unpadded
<1> QED
    BY <1>1, <1>2, <1>3, <1>4, <1>5, <1>6, <1>7, <1>8 DEF CodecNext

\* A signature that holds for a packet holds for whatever a receiver, at any hop, makes
\* of its bytes, and a padded packet arrives (packet.rs, wire.rs, encode_with_options
\* and decode_with_options).
THEOREM PacketsSurviveTheWire == CodecSpec => []PacketsSurvive
<1>1. CodecSpec => []CodecInv
    BY CodecInitInv, CodecStep, PTL DEF CodecSpec
<1> QED
    BY <1>1, CodecInvSound, PTL

-----------------------------------------------------------------------------
(* Reading what was written *)

\* What a reader returns that has found val in front of rest.
ReadAs(val, rest) == [ok |-> TRUE, val |-> val, rest |-> rest]

LEMMA HeadAndTail ==
    ASSUME NEW n \in Nat, NEW b \in Seq(Nat)
    PROVE  /\ <<n>> \o b \in Seq(Nat) /\ <<n>> \o b # <<>> /\ Len(<<n>> \o b) = 1 + Len(b)
           /\ (<<n>> \o b)[1] = n /\ Tail(<<n>> \o b) = b
<1>1. PICK w : w = <<n>> \o b
    OBVIOUS
<1>2. <<n>> \in Seq(Nat) /\ Len(<<n>>) = 1 /\ <<n>>[1] = n
    OBVIOUS
<1>3. w \in Seq(Nat) /\ Len(w) = 1 + Len(b) /\ w[1] = n /\ \A k \in 1 .. Len(b) : w[1 + k] = b[k]
    BY <1>1, <1>2, Joined
<1>4. Tail(w) \in Seq(Nat) /\ Len(Tail(w)) = Len(b) /\ \A k \in 1 .. Len(b) : Tail(w)[k] = w[1 + k]
    BY <1>3
<1>5. Tail(w) = b
    BY <1>3, <1>4, SameSeq
<1> QED
    BY <1>1, <1>3, <1>5

LEMMA ReadNIs ==
    ASSUME NEW s \in Seq(Nat), NEW b \in Seq(Nat)
    PROVE  ReadN(s \o b, Len(s)) = ReadAs(s, b)
<1>1. PICK w : w = s \o b
    OBVIOUS
<1>2. w \in Seq(Nat) /\ Len(w) = Len(s) + Len(b) /\ Len(s) \in Nat /\ Len(b) \in Nat
    BY <1>1, Joined
<1>3. SubSeq(w, Len(s) + 1, Len(w)) = b
    BY <1>1, <1>2, CutRight
<1>4. SubSeq(w, 1, Len(s)) = s
    <2>1. 1 \in 1 .. Len(s) + 1 /\ Len(s) \in 1 - 1 .. Len(s)
        BY <1>2
    <2>2. SubSeq(w, 1, Len(s)) = SubSeq(s, 1, Len(s))
        BY <1>1, <2>1, CutLeft
    <2> QED
        BY <2>2, SubSeqFull
<1>5. ~(Len(w) < Len(s))
    BY <1>2
<1>6. PICK n : n = Len(s)
    OBVIOUS
<1>7. ReadN(w, n) = [ok |-> TRUE, val |-> SubSeq(w, 1, n), rest |-> SubSeq(w, n + 1, Len(w))]
    BY <1>5, <1>6 DEF ReadN
<1> QED
    BY <1>1, <1>3, <1>4, <1>6, <1>7 DEF ReadAs

LEMMA Read8Is ==
    ASSUME NEW s \in Seq(Nat), NEW b \in Seq(Nat), Len(s) <= U8
    PROVE  /\ With8(s) \in Seq(Nat) /\ With8(s) \o b \in Seq(Nat)
           /\ Read8(With8(s) \o b) = ReadAs(s, b)
<1>1. PICK n : n = Len(s)
    OBVIOUS
<1>2. n \in Nat /\ n <= U8 /\ U8 \in Nat
    BY <1>1, PayloadConstants
<1>3. n % (U8 + 1) = n
    <2>1. PICK d : d = U8 + 1
        OBVIOUS
    <2>2. d \in Nat \ {0} /\ n < d
        BY <1>2, <2>1
    <2>3. n % d = n
        BY <1>2, <2>2
    <2> QED
        BY <2>1, <2>3
<1>4. <<n>> \in Seq(Nat) /\ With8(s) = <<n>> \o s
    BY <1>1, <1>2, <1>3 DEF With8
<1>5. PICK t : t = s \o b
    OBVIOUS
<1>6. t \in Seq(Nat)
    BY <1>5, Joined
<1>7. With8(s) \o b = <<n>> \o t
    BY <1>4, <1>5, ConcatAssociative
<1>8. PICK w : w = <<n>> \o t
    OBVIOUS
<1>9. w \in Seq(Nat) /\ w # <<>> /\ w[1] = n /\ Tail(w) = t
    BY <1>2, <1>6, <1>8, HeadAndTail
<1>10. Read8(w) = ReadN(t, n)
    BY <1>9 DEF Read8
<1>11. ReadN(t, n) = ReadAs(s, b)
    BY <1>1, <1>5, ReadNIs
<1>12. With8(s) \in Seq(Nat)
    BY <1>4, ConcatProperties
<1> QED
    BY <1>7, <1>8, <1>9, <1>10, <1>11, <1>12

LEMMA Read16Is ==
    ASSUME NEW s \in Seq(Nat), NEW b \in Seq(Nat), Len(s) <= U16
    PROVE  /\ With16(s) \in Seq(Nat) /\ With16(s) \o b \in Seq(Nat)
           /\ Read16(With16(s) \o b) = ReadAs(s, b) /\ Len(With16(s)) >= 2
<1>1. PICK n, d : n = Len(s) /\ d = U8 + 1
    OBVIOUS
<1>2. n \in Nat /\ d \in Nat \ {0} /\ n <= d * d - 1
    BY <1>1, PayloadConstants DEF U16
<1>3. PICK high, low : high = n \div d /\ low = n % d
    OBVIOUS
<1>4. high \in Nat /\ low \in Nat /\ high * d + low = n
    BY <1>2, <1>3, TwoDigits
<1>5. high < d
    <2>1. SUFFICES ASSUME high >= d PROVE FALSE
        BY <1>2, <1>4
    <2>2. high * d >= d * d
        BY <1>2, <1>4, <2>1, MulMonotone
    <2>3. high * d \in Int /\ d * d \in Int
        BY <1>2, <1>4
    <2> QED
        BY <1>2, <1>4, <2>2, <2>3
<1>6. high % d = high
    BY <1>2, <1>4, <1>5
<1>7. <<high, low>> \in Seq(Nat) /\ With16(s) = <<high, low>> \o s /\ Len(<<high, low>>) = 2
    BY <1>1, <1>3, <1>4, <1>6 DEF With16
<1>8. PICK t : t = s \o b
    OBVIOUS
<1>9. t \in Seq(Nat) /\ Len(t) \in Nat
    BY <1>8, Joined
<1>10. With16(s) \o b = <<high, low>> \o t
    BY <1>7, <1>8, ConcatAssociative
<1>11. PICK h, w : h = <<high, low>> /\ w = h \o t
    OBVIOUS
<1>12. h \in Seq(Nat) /\ Len(h) = 2 /\ h[1] = high /\ h[2] = low
    BY <1>7, <1>11
<1>13. w \in Seq(Nat) /\ Len(w) = 2 + Len(t) /\ w[1] = high /\ w[2] = low
    BY <1>9, <1>11, <1>12, Joined
<1>14. SubSeq(w, 3, Len(w)) = t
    <2>1. SubSeq(w, Len(h) + 1, Len(h) + Len(t)) = t
        BY <1>9, <1>11, <1>12, CutRight
    <2> QED
        BY <1>9, <1>12, <1>13, <2>1
<1>15. Read16(w) = ReadN(t, n)
    <2>1. ~(Len(w) < 2)
        BY <1>9, <1>13
    <2> QED
        BY <1>1, <1>4, <1>13, <1>14, <2>1 DEF Read16
<1>16. ReadN(t, n) = ReadAs(s, b)
    BY <1>1, <1>8, ReadNIs
<1>17. With16(s) \in Seq(Nat) /\ Len(With16(s)) >= 2
    <2>1. PICK x : x = h \o s
        OBVIOUS
    <2>2. x \in Seq(Nat) /\ Len(x) = Len(h) + Len(s)
        BY <1>12, <2>1, ConcatProperties
    <2>3. Len(s) \in Nat
        OBVIOUS
    <2> QED
        BY <1>7, <1>11, <1>12, <2>1, <2>2, <2>3
<1> QED
    BY <1>10, <1>11, <1>13, <1>15, <1>16, <1>17

\* Put together from the right, a piece stands in front of what is left after it.
LEMMA FlattenFromRight ==
    ASSUME NEW S, NEW parts \in Seq(Seq(S))
    PROVE  \E r \in [0 .. Len(parts) -> Seq(S)] :
              /\ r[Len(parts)] = <<>> /\ r[0] = FlattenSeq(parts)
              /\ \A i \in 1 .. Len(parts) : r[i - 1] = parts[i] \o r[i]
<1>1. PICK n : n = Len(parts)
    OBVIOUS
<1>2. n \in Nat /\ \A i \in 1 .. n : parts[i] \in Seq(S)
    BY <1>1
<1>3. CASE n = 0
    <2>1. FlattenSeq(parts) = <<>>
        <3>1. parts = <<>>
            <4>1. parts \in Seq(Seq(S)) /\ Len(parts) = 0
                BY <1>1, <1>3
            <4> QED
                BY <4>1, EmptySeq
        <3>2. FlattenSeq(parts) = parts
            BY <1>1, <1>3, Zenon DEF FlattenSeq
        <3> QED
            BY <3>1, <3>2
    <2>2. PICK r : r = [i \in 0 .. 0 |-> <<>>]
        OBVIOUS
    <2>3. r \in [0 .. 0 -> Seq(S)] /\ r[0] = <<>>
        BY <2>2
    <2> QED
        BY <1>1, <1>3, <2>1, <2>3
<1>4. CASE n # 0
    <2>1. PICK up : up = [i \in 1 .. n |-> [t \in Seq(S) |-> t \o parts[i]]]
        OBVIOUS
    <2>2. PICK down : down = [i \in 1 .. n |-> [t \in Seq(S) |-> parts[n + 1 - i] \o t]]
        OBVIOUS
    <2>3. IsLoop(n, Seq(S), <<>>, up)
        <3>1. ASSUME NEW i \in 1 .. n, NEW t \in Seq(S) PROVE t \o parts[i] \in Seq(S)
            BY <1>2, ConcatProperties
        <3>2. <<>> \in Seq(S)
            OBVIOUS
        <3> QED
            BY <1>2, <2>1, <3>1, <3>2 DEF IsLoop
    <2>4. IsLoop(n, Seq(S), <<>>, down)
        <3>1. ASSUME NEW i \in 1 .. n, NEW t \in Seq(S) PROVE parts[n + 1 - i] \o t \in Seq(S)
            <4>1. n + 1 - i \in 1 .. n
                BY <1>2
            <4> QED
                BY <1>2, <4>1, ConcatProperties
        <3>2. <<>> \in Seq(S)
            OBVIOUS
        <3> QED
            BY <1>2, <2>2, <3>1, <3>2 DEF IsLoop
    <2>5. PICK g : IsRun(g, n, Seq(S), <<>>, up)
        BY <2>3, LoopRuns
    <2>6. PICK q : IsRun(q, n, Seq(S), <<>>, down)
        BY <2>4, LoopRuns
    <2>7. /\ g \in [0 .. n -> Seq(S)] /\ g[0] = <<>>
          /\ \A i \in 1 .. n : g[i] = g[i - 1] \o parts[i]
        <3>1. ASSUME NEW i \in 1 .. n PROVE g[i] = g[i - 1] \o parts[i]
            <4>1. i - 1 \in 0 .. n
                BY <1>2
            <4>2. g[i - 1] \in Seq(S) /\ g[i] = up[i][g[i - 1]]
                BY <2>5, <4>1 DEF IsRun
            <4> QED
                BY <2>1, <4>2
        <3> QED
            BY <2>5, <3>1 DEF IsRun
    <2>8. PICK r : r = [i \in 0 .. n |-> q[n - i]]
        OBVIOUS
    <2>9. /\ r \in [0 .. n -> Seq(S)] /\ r[n] = <<>>
          /\ \A i \in 1 .. n : r[i - 1] = parts[i] \o r[i]
        <3>1. q \in [0 .. n -> Seq(S)] /\ q[0] = <<>>
            BY <2>6 DEF IsRun
        <3>2. r \in [0 .. n -> Seq(S)] /\ r[n] = <<>>
            BY <1>2, <2>8, <3>1
        <3>3. ASSUME NEW i \in 1 .. n PROVE r[i - 1] = parts[i] \o r[i]
            <4>1. PICK j : j = n + 1 - i
                OBVIOUS
            <4>2. j \in 1 .. n /\ j - 1 = n - i /\ j = n - (i - 1) /\ n + 1 - j = i
                BY <1>2, <4>1
            <4>3. j - 1 \in 0 .. n /\ q[j - 1] \in Seq(S) /\ q[j] = down[j][q[j - 1]]
                BY <1>2, <2>6, <3>1, <4>2 DEF IsRun
            <4>4. q[j] = parts[i] \o q[j - 1]
                BY <2>2, <4>2, <4>3
            <4>5. i - 1 \in 0 .. n /\ i \in 0 .. n
                BY <1>2
            <4> QED
                BY <2>8, <4>2, <4>4, <4>5
        <3> QED
            BY <3>2, <3>3
    <2>10. FlattenSeq(parts) = g[n]
        <3>1. g[1] = parts[1]
            <4>1. 1 \in 1 .. n /\ 1 - 1 = 0 /\ parts[1] \in Seq(S)
                BY <1>2, <1>4
            <4>2. <<>> \o parts[1] = parts[1]
                BY <4>1
            <4> QED
                BY <2>7, <4>1, <4>2
        <3>2. \A i \in 1 .. Len(parts) : g[i] = IF i = 1 THEN parts[i] ELSE g[i - 1] \o parts[i]
            BY <1>1, <2>7, <3>1
        <3>3. Len(parts) \in Nat \ {0}
            BY <1>1, <1>2, <1>4
        <3> QED
            BY <1>1, <3>2, <3>3, FlattenBy
    <2>11. PICK Good : Good = {i \in 0 .. n : g[i] \o r[i] = r[0]}
        OBVIOUS
    <2>12. 0 \in Good
        <3>1. 0 \in 0 .. n /\ r[0] \in Seq(S)
            BY <1>2, <2>9
        <3>2. <<>> \o r[0] = r[0]
            BY <3>1
        <3> QED
            BY <2>7, <2>11, <3>1, <3>2
    <2>13. ASSUME NEW i \in 1 .. n, i - 1 \in Good PROVE i \in Good
        <3>1. i \in 0 .. n /\ i - 1 \in 0 .. n
            BY <1>2
        <3>2. g[i - 1] \in Seq(S) /\ parts[i] \in Seq(S) /\ r[i] \in Seq(S)
            BY <1>2, <2>7, <2>9, <3>1
        <3>3. (g[i - 1] \o parts[i]) \o r[i] = g[i - 1] \o (parts[i] \o r[i])
            <4>1. PICK u, v, w \in Seq(S) : u = g[i - 1] /\ v = parts[i] /\ w = r[i]
                BY <3>2
            <4>2. (u \o v) \o w = u \o (v \o w)
                BY ConcatAssociative
            <4> QED
                BY <4>1, <4>2
        <3> QED
            BY <2>7, <2>9, <2>11, <2>13, <3>1, <3>3
    <2>14. n \in Good
        <3>1. Good \in SUBSET (0 .. n)
            BY <2>11
        <3>2. Good = 0 .. n
            BY <1>2, <2>12, <2>13, <3>1, Upwards
        <3> QED
            BY <1>2, <3>2
    <2>15. g[n] = r[0]
        <3>1. g[n] \in Seq(S) /\ g[n] \o r[n] = r[0]
            BY <1>2, <2>7, <2>11, <2>14
        <3>2. g[n] \o <<>> = g[n]
            BY <3>1
        <3> QED
            BY <2>9, <3>1, <3>2
    <2> QED
        BY <1>1, <2>9, <2>10, <2>15
<1> QED
    BY <1>3, <1>4

\* As many mentions as were written are read, and are what they were.
LEMMA MentionsReadBack ==
    ASSUME NEW ms \in Seq(Seq(Nat)), \A i \in DOMAIN ms : Len(ms[i]) <= U8,
           NEW b, b = FlattenSeq([i \in DOMAIN ms |-> With8(ms[i])])
    PROVE  /\ b \in Seq(Nat) /\ ReadMentions(Len(ms), b) = [ok |-> TRUE, val |-> ms]
           /\ ms = <<>> => b = <<>>
<1>1. PICK n : n = Len(ms)
    OBVIOUS
<1>2. n \in Nat /\ DOMAIN ms = 1 .. n /\ \A i \in 1 .. n : ms[i] \in Seq(Nat) /\ Len(ms[i]) <= U8
    <2>1. n \in Nat /\ DOMAIN ms = 1 .. n
        BY <1>1
    <2>2. \A i \in 1 .. n : ms[i] \in Seq(Nat)
        BY <1>1
    <2> QED
        BY <2>1, <2>2
<1>3. PICK parts : parts = [i \in 1 .. n |-> With8(ms[i])]
    OBVIOUS
<1>4. parts \in Seq(Seq(Nat)) /\ Len(parts) = n
    <2>1. ASSUME NEW i \in 1 .. n PROVE With8(ms[i]) \in Seq(Nat)
        <3>1. ms[i] \in Seq(Nat) /\ Len(ms[i]) <= U8 /\ <<>> \in Seq(Nat)
            BY <1>2
        <3> QED
            BY <3>1, Read8Is
    <2>2. parts \in [1 .. n -> Seq(Nat)]
        BY <1>3, <2>1
    <2> QED
        BY <1>2, <2>2
<1>5. PICK r \in [0 .. n -> Seq(Nat)] :
          r[n] = <<>> /\ r[0] = b /\ \A i \in 1 .. n : r[i - 1] = parts[i] \o r[i]
    <2>1. b = FlattenSeq(parts)
        BY <1>2, <1>3
    <2>2. PICK r \in [0 .. Len(parts) -> Seq(Nat)] :
              /\ r[Len(parts)] = <<>> /\ r[0] = FlattenSeq(parts)
              /\ \A i \in 1 .. Len(parts) : r[i - 1] = parts[i] \o r[i]
        <3>1. parts \in Seq(Seq(Nat))
            BY <1>4
        <3> QED
            BY <3>1, FlattenFromRight
    <2> QED
        BY <1>4, <2>1, <2>2
<1>6. ASSUME NEW i \in 1 .. n
      PROVE  Read8(r[i - 1]) = ReadAs(ms[i], r[i])
    <2>1. ms[i] \in Seq(Nat) /\ Len(ms[i]) <= U8 /\ r[i] \in Seq(Nat)
        BY <1>2
    <2>2. r[i - 1] = With8(ms[i]) \o r[i]
        BY <1>3, <1>5
    <2> QED
        BY <2>1, <2>2, Read8Is
<1> DEFINE Is(f) == f = [i \in 0 .. n |-> IF i = 0 THEN [ok |-> TRUE, val |-> <<>>, rest |-> b]
                                          ELSE Read8(f[i - 1].rest)]
<1>7. PICK h : h = [i \in 0 .. n |-> ReadAs(IF i = 0 THEN <<>> ELSE ms[i], r[i])]
    OBVIOUS
<1>8. Is(h)
    <2>1. ASSUME NEW i \in 0 .. n
          PROVE  h[i] = IF i = 0 THEN [ok |-> TRUE, val |-> <<>>, rest |-> b] ELSE Read8(h[i - 1].rest)
        <3>1. CASE i = 0
            BY <1>5, <1>7, <3>1 DEF ReadAs
        <3>2. CASE i # 0
            <4>1. i \in 1 .. n /\ i - 1 \in 0 .. n
                BY <1>2, <3>2
            <4>2. h[i - 1].rest = r[i - 1]
                BY <1>7, <4>1 DEF ReadAs
            <4>3. Read8(r[i - 1]) = ReadAs(ms[i], r[i])
                BY <1>6, <4>1
            <4> QED
                BY <1>7, <3>2, <4>2, <4>3
        <3> QED
            BY <3>1, <3>2
    <2> QED
        BY <1>7, <2>1, Zenon
<1>9. PICK m : /\ Is(m)
               /\ ReadMentions(n, b) = [ok |-> \A i \in 0 .. n : m[i].ok, val |-> [i \in 1 .. n |-> m[i].val]]
    <2>1. Is(CHOOSE f : Is(f))
        BY <1>8, Zenon
    <2>2. ReadMentions(n, b) = [ok |-> \A i \in 0 .. n : (CHOOSE f : Is(f))[i].ok,
                                val |-> [i \in 1 .. n |-> (CHOOSE f : Is(f))[i].val]]
        BY Zenon DEF ReadMentions
    <2> QED
        BY <2>1, <2>2, Zenon
<1>10. PICK Good : Good = {i \in 0 .. n : m[i] = h[i]}
    OBVIOUS
<1>11. 0 \in Good
    <2>1. 0 \in 0 .. n
        BY <1>2
    <2> QED
        BY <1>8, <1>9, <1>10, <2>1
<1>12. ASSUME NEW i \in 1 .. n, i - 1 \in Good PROVE i \in Good
    <2>1. i \in 0 .. n /\ i # 0 /\ m[i - 1] = h[i - 1]
        BY <1>2, <1>10, <1>12
    <2>2. m[i] = Read8(m[i - 1].rest) /\ h[i] = Read8(h[i - 1].rest)
        BY <1>8, <1>9, <2>1
    <2> QED
        BY <1>10, <2>1, <2>2
<1>13. Good = 0 .. n
    <2>1. Good \in SUBSET (0 .. n)
        BY <1>10
    <2> QED
        BY <1>2, <1>11, <1>12, <2>1, Upwards
<1>14. \A i \in 0 .. n : m[i].ok /\ m[i].val = IF i = 0 THEN <<>> ELSE ms[i]
    <2>1. ASSUME NEW i \in 0 .. n PROVE m[i].ok /\ m[i].val = IF i = 0 THEN <<>> ELSE ms[i]
        <3>1. PICK v : v = IF i = 0 THEN <<>> ELSE ms[i]
            OBVIOUS
        <3>2. m[i] = ReadAs(v, r[i])
            BY <1>7, <1>10, <1>13, <3>1
        <3>3. m[i].ok = TRUE /\ m[i].val = v
            BY <3>2 DEF ReadAs
        <3> QED
            BY <3>1, <3>3
    <2> QED
        BY <2>1
<1>15. \A i \in 0 .. n : m[i].ok
    BY <1>14
<1>16. [i \in 1 .. n |-> m[i].val] = ms
    <2>1. ASSUME NEW i \in 1 .. n PROVE m[i].val = ms[i]
        <3>1. i \in 0 .. n /\ i # 0
            BY <1>2
        <3> QED
            BY <1>14, <3>1
    <2>2. ms = [i \in 1 .. n |-> ms[i]]
        BY <1>2
    <2> QED
        BY <2>1, <2>2
<1>17. b \in Seq(Nat) /\ (ms = <<>> => b = <<>>)
    <2>1. 0 \in 0 .. n /\ (ms = <<>> => n = 0)
        BY <1>1, <1>2
    <2> QED
        BY <1>5, <2>1
<1> QED
    BY <1>1, <1>9, <1>15, <1>16, <1>17

\* An optional field x under a flag of F, what is written of it, and how it is read when b
\* stands behind it.
Written8(flag, F, x, p, b) ==
    /\ b \in Seq(Nat) /\ p = IF flag \in F THEN With8(x) ELSE <<>>
    /\ IF flag \in F THEN x \in Seq(Nat) /\ Len(x) <= U8 ELSE x = Missing
Written1(flag, F, x, p, b) ==
    /\ b \in Seq(Nat) /\ p = IF flag \in F THEN x ELSE <<>>
    /\ IF flag \in F THEN x \in {<<k>> : k \in Nat} ELSE x = Missing
IsRead8(flag, F, x, p, b) ==
    p \in Seq(Nat) /\ p \o b \in Seq(Nat) /\ Optional8(flag, F, p \o b) = ReadAs(x, b)
IsRead1(flag, F, x, p, b) ==
    p \in Seq(Nat) /\ p \o b \in Seq(Nat) /\ Optional1(flag, F, p \o b) = ReadAs(x, b)

LEMMA OptionalIs ==
    ASSUME NEW flag, NEW F, NEW x, NEW p, NEW b, Written8(flag, F, x, p, b)
    PROVE  IsRead8(flag, F, x, p, b)
<1>1. CASE flag \in F
    <2>1. x \in Seq(Nat) /\ Len(x) <= U8 /\ p = With8(x) /\ b \in Seq(Nat)
        BY <1>1 DEF Written8
    <2>2. p \in Seq(Nat) /\ p \o b \in Seq(Nat) /\ Read8(p \o b) = ReadAs(x, b)
        BY <2>1, Read8Is
    <2> QED
        BY <1>1, <2>2 DEF Optional8, IsRead8
<1>2. CASE flag \notin F
    <2>1. p = <<>> /\ x = Missing /\ b \in Seq(Nat)
        BY <1>2 DEF Written8
    <2>2. p \o b = b /\ p \in Seq(Nat)
        BY <2>1
    <2> QED
        BY <1>2, <2>1, <2>2 DEF Optional8, Absent, ReadAs, IsRead8
<1> QED
    BY <1>1, <1>2

LEMMA OptionalByteIs ==
    ASSUME NEW flag, NEW F, NEW x, NEW p, NEW b, Written1(flag, F, x, p, b)
    PROVE  IsRead1(flag, F, x, p, b)
<1>1. CASE flag \in F
    <2>1. x \in Seq(Nat) /\ Len(x) = 1 /\ p = x /\ b \in Seq(Nat)
        <3>1. PICK k \in Nat : x = <<k>>
            BY <1>1 DEF Written1
        <3> QED
            BY <1>1, <3>1 DEF Written1
    <2>2. ReadN(x \o b, 1) = ReadAs(x, b)
        BY <2>1, ReadNIs
    <2>3. x \o b \in Seq(Nat)
        BY <2>1, ConcatProperties
    <2> QED
        BY <1>1, <2>1, <2>2, <2>3 DEF Optional1, IsRead1
<1>2. CASE flag \notin F
    <2>1. p = <<>> /\ x = Missing /\ b \in Seq(Nat)
        BY <1>2 DEF Written1
    <2>2. p \o b = b /\ p \in Seq(Nat)
        BY <2>1
    <2> QED
        BY <1>2, <2>1, <2>2 DEF Optional1, Absent, ReadAs, IsRead1
<1> QED
    BY <1>1, <1>2

\* A message whose flags tell which optional fields it has.
FlagName ==
    {"IS_RELAY", "HAS_ORIGINAL_SENDER", "HAS_RECIPIENT_NICKNAME", "HAS_SENDER_PEER_ID", "HAS_MENTIONS"}
ChatMessage ==
    [state : {"built"}, flags : SUBSET FlagName, id : Seq(Nat), sender : Seq(Nat), content : Seq(Nat),
     original_sender : Seq(Nat) \cup {Missing}, recipient_nickname : Seq(Nat) \cup {Missing},
     sender_peer_id : {<<k>> : k \in Nat} \cup {Missing}, mentions : Seq(Seq(Nat))]
Composable(m) ==
    /\ m \in ChatMessage
    /\ IF "HAS_ORIGINAL_SENDER" \in m.flags THEN m.original_sender \in Seq(Nat) ELSE m.original_sender = Missing
    /\ IF "HAS_RECIPIENT_NICKNAME" \in m.flags THEN m.recipient_nickname \in Seq(Nat)
       ELSE m.recipient_nickname = Missing
    /\ IF "HAS_SENDER_PEER_ID" \in m.flags THEN m.sender_peer_id \in {<<k>> : k \in Nat}
       ELSE m.sender_peer_id = Missing
    /\ "HAS_MENTIONS" \in m.flags <=> m.mentions # <<>>

\* Concatenation without the axioms of the provers about it: here they only need to know
\* that it may be regrouped.
Cat(u, v) == u \o v
Over(S, u) == u \in Seq(S)

LEMMA CatOver ==
    ASSUME NEW S, NEW u, NEW v, Over(S, u), Over(S, v)
    PROVE  Over(S, Cat(u, v))
    BY ConcatProperties DEF Cat, Over

LEMMA Regroup ==
    ASSUME NEW S, NEW u, NEW v, NEW w, Over(S, u), Over(S, v), Over(S, w)
    PROVE  Cat(Cat(u, v), w) = Cat(u, Cat(v, w))
    BY ConcatAssociative DEF Cat, Over

\* Pieces that were put together one after the other come off from the left.
LEMMA ThreeFromTheLeft ==
    ASSUME NEW S, NEW a, NEW b, NEW c, NEW d, Over(S, a), Over(S, b), Over(S, c), Over(S, d)
    PROVE  Cat(Cat(Cat(a, b), c), d) = Cat(a, Cat(b, Cat(c, d)))
<1>1. PICK ab, cd : ab = Cat(a, b) /\ cd = Cat(c, d)
    OBVIOUS
<1>2. Over(S, ab) /\ Over(S, cd)
    BY <1>1, CatOver
<1>3. Cat(Cat(ab, c), d) = Cat(ab, cd)
    BY <1>1, <1>2, Regroup
<1>4. Cat(Cat(a, b), cd) = Cat(a, Cat(b, cd))
    BY <1>2, Regroup
<1> QED
    BY <1>1, <1>3, <1>4

LEMMA FromTheLeft ==
    ASSUME NEW S, NEW a, NEW b, NEW c, NEW d, NEW e, NEW f, NEW g, Over(S, a), Over(S, b),
           Over(S, c), Over(S, d), Over(S, e), Over(S, f), Over(S, g)
    PROVE  Cat(Cat(Cat(Cat(Cat(Cat(a, b), c), d), e), f), g)
               = Cat(a, Cat(b, Cat(c, Cat(d, Cat(e, Cat(f, g))))))
<1>1. PICK abc, efg : abc = Cat(Cat(a, b), c) /\ efg = Cat(e, Cat(f, g))
    OBVIOUS
<1>2. Over(S, abc)
    <2>1. Over(S, Cat(a, b))
        BY CatOver
    <2> QED
        BY <1>1, <2>1, CatOver
<1>3. Over(S, Cat(f, g)) /\ Over(S, efg) /\ Over(S, Cat(d, efg))
    <2>1. Over(S, Cat(f, g))
        BY CatOver
    <2>2. Over(S, efg)
        BY <1>1, <2>1, CatOver
    <2>3. Over(S, Cat(d, efg))
        BY <2>2, CatOver
    <2> QED
        BY <2>1, <2>2, <2>3
<1>4. Cat(Cat(Cat(abc, d), e), Cat(f, g)) = Cat(abc, Cat(d, efg))
    BY <1>1, <1>2, <1>3, ThreeFromTheLeft
<1>5. Cat(Cat(Cat(Cat(abc, d), e), f), g) = Cat(Cat(Cat(abc, d), e), Cat(f, g))
    <2>1. PICK abcde : abcde = Cat(Cat(abc, d), e)
        OBVIOUS
    <2>2. Over(S, Cat(abc, d))
        BY <1>2, CatOver
    <2>3. Over(S, abcde)
        BY <2>1, <2>2, CatOver
    <2>4. Cat(Cat(abcde, f), g) = Cat(abcde, Cat(f, g))
        BY <2>3, Regroup
    <2> QED
        BY <2>1, <2>4
<1>6. Cat(Cat(Cat(a, b), c), Cat(d, efg)) = Cat(a, Cat(b, Cat(c, Cat(d, efg))))
    BY <1>3, ThreeFromTheLeft
<1> QED
    BY <1>1, <1>4, <1>5, <1>6

\* Whichever optional fields a message has, and whatever it mentions as long as it fits,
\* it is read back as it was (message.rs, to_binary and from_binary).
THEOREM MessagesReadBack ==
    ASSUME NEW m, Composable(m), message_validate(m),
           Len(m.mentions) <= U8, \A i \in DOMAIN m.mentions : Len(m.mentions[i]) <= U8
    PROVE  from_binary(to_binary(m)) = m
<1>1. PICK F, ms, flat : /\ F = m.flags /\ ms = m.mentions
                         /\ flat = FlattenSeq([i \in DOMAIN ms |-> With8(ms[i])])
    OBVIOUS
<1>2. /\ m.id \in Seq(Nat) /\ m.sender \in Seq(Nat) /\ m.content \in Seq(Nat) /\ ms \in Seq(Seq(Nat))
      /\ Len(m.id) <= U8 /\ Len(m.sender) <= U8 /\ Len(m.content) <= U16
    BY <1>1 DEF Composable, ChatMessage, message_validate
<1>3. flat \in Seq(Nat) /\ ReadMentions(Len(ms), flat) = [ok |-> TRUE, val |-> ms] /\ (ms = <<>> => flat = <<>>)
    BY <1>1, <1>2, MentionsReadBack
<1>4. PICK a, b, c, d, e, f, g, n :
          /\ a = With8(m.id) /\ b = With8(m.sender) /\ c = With16(m.content)
          /\ d = IF "HAS_ORIGINAL_SENDER" \in F THEN With8(m.original_sender) ELSE <<>>
          /\ e = IF "HAS_RECIPIENT_NICKNAME" \in F THEN With8(m.recipient_nickname) ELSE <<>>
          /\ f = IF "HAS_SENDER_PEER_ID" \in F THEN m.sender_peer_id ELSE <<>>
          /\ g = IF "HAS_MENTIONS" \in F THEN <<n>> \o flat ELSE <<>>
          /\ n = Len(ms) % (U8 + 1)
    OBVIOUS
<1>5. n = Len(ms) /\ n \in Nat
    <2>1. PICK l, k : l = Len(ms) /\ k = U8 + 1
        OBVIOUS
    <2>2. l \in Nat /\ k \in Nat \ {0} /\ l < k
        BY <1>1, <1>2, <2>1, PayloadConstants
    <2>3. l % k = l
        BY <2>2
    <2> QED
        BY <1>4, <2>1, <2>2, <2>3
<1>6. to_binary(m) = [flags |-> F, bytes |-> a \o b \o c \o d \o e \o f \o g]
    BY <1>1, <1>4, Zenon DEF to_binary
<1>7. g \in Seq(Nat)
    BY <1>3, <1>4, <1>5, HeadAndTail
<1>8. PICK t5 : t5 = f \o g
    OBVIOUS
<1>9. /\ f \in Seq(Nat) /\ t5 \in Seq(Nat)
      /\ Optional1("HAS_SENDER_PEER_ID", F, t5) = ReadAs(m.sender_peer_id, g)
    <2>1. Written1("HAS_SENDER_PEER_ID", F, m.sender_peer_id, f, g)
        BY <1>1, <1>4, <1>7 DEF Composable, Written1
    <2>2. IsRead1("HAS_SENDER_PEER_ID", F, m.sender_peer_id, f, g)
        BY <2>1, OptionalByteIs
    <2> QED
        BY <1>8, <2>2 DEF IsRead1
<1>10. Len(m.original_sender) <= U8 /\ Len(m.recipient_nickname) <= U8
    BY DEF message_validate
<1>11. PICK t4 : t4 = e \o t5
    OBVIOUS
<1>12. /\ e \in Seq(Nat) /\ t4 \in Seq(Nat)
       /\ Optional8("HAS_RECIPIENT_NICKNAME", F, t4) = ReadAs(m.recipient_nickname, t5)
    <2>1. Written8("HAS_RECIPIENT_NICKNAME", F, m.recipient_nickname, e, t5)
        BY <1>1, <1>4, <1>9, <1>10 DEF Composable, Written8
    <2>2. IsRead8("HAS_RECIPIENT_NICKNAME", F, m.recipient_nickname, e, t5)
        BY <2>1, OptionalIs
    <2> QED
        BY <1>11, <2>2 DEF IsRead8
<1>13. PICK t3 : t3 = d \o t4
    OBVIOUS
<1>14. /\ d \in Seq(Nat) /\ t3 \in Seq(Nat)
       /\ Optional8("HAS_ORIGINAL_SENDER", F, t3) = ReadAs(m.original_sender, t4)
    <2>1. Written8("HAS_ORIGINAL_SENDER", F, m.original_sender, d, t4)
        BY <1>1, <1>4, <1>10, <1>12 DEF Composable, Written8
    <2>2. IsRead8("HAS_ORIGINAL_SENDER", F, m.original_sender, d, t4)
        BY <2>1, OptionalIs
    <2> QED
        BY <1>13, <2>2 DEF IsRead8
<1>15. PICK t2 : t2 = c \o t3
    OBVIOUS
<1>16. c \in Seq(Nat) /\ t2 \in Seq(Nat) /\ Read16(t2) = ReadAs(m.content, t3)
    BY <1>2, <1>4, <1>14, <1>15, Read16Is
<1>17. PICK t1 : t1 = b \o t2
    OBVIOUS
<1>18. b \in Seq(Nat) /\ t1 \in Seq(Nat) /\ Read8(t1) = ReadAs(m.sender, t2)
    BY <1>2, <1>4, <1>16, <1>17, Read8Is
<1>19. PICK t0 : t0 = a \o t1
    OBVIOUS
<1>20. a \in Seq(Nat) /\ Read8(t0) = ReadAs(m.id, t1)
    BY <1>2, <1>4, <1>18, <1>19, Read8Is
<1>21. PICK w : w = to_binary(m)
    OBVIOUS
<1>22. w.flags = F /\ w.bytes = t0
    <2>1. /\ Over(Nat, a) /\ Over(Nat, b) /\ Over(Nat, c) /\ Over(Nat, d)
          /\ Over(Nat, e) /\ Over(Nat, f) /\ Over(Nat, g)
        BY <1>7, <1>9, <1>12, <1>14, <1>16, <1>18, <1>20 DEF Over
    <2>2. PICK left : left = Cat(Cat(Cat(Cat(Cat(Cat(a, b), c), d), e), f), g)
        OBVIOUS
    <2>3. left = Cat(a, Cat(b, Cat(c, Cat(d, Cat(e, Cat(f, g))))))
        BY <2>1, <2>2, FromTheLeft
    <2>4. left = t0
        BY <1>8, <1>11, <1>13, <1>15, <1>17, <1>19, <2>3, Zenon DEF Cat
    <2>5. left = a \o b \o c \o d \o e \o f \o g
        BY <2>2, Zenon DEF Cat
    <2> QED
        BY <1>6, <1>21, <2>4, <2>5
<1>23. PICK count : count = Optional1("HAS_MENTIONS", F, g)
    OBVIOUS
<1>24. /\ count.ok /\ count.rest = flat
       /\ (IF "HAS_MENTIONS" \in F /\ count.ok THEN count.val[1] ELSE 0) = Len(ms)
    <2>1. CASE "HAS_MENTIONS" \in F
        <3>1. PICK x : x = <<n>>
            OBVIOUS
        <3>2. x \in Seq(Nat) /\ Len(x) = 1 /\ x[1] = n /\ g = x \o flat
            BY <1>4, <1>5, <2>1, <3>1
        <3>3. ReadN(g, 1) = ReadAs(x, flat)
            BY <1>3, <3>2, ReadNIs
        <3>4. count = ReadAs(x, flat)
            BY <1>23, <2>1, <3>3 DEF Optional1
        <3> QED
            BY <1>5, <2>1, <3>2, <3>4 DEF ReadAs
    <2>2. CASE "HAS_MENTIONS" \notin F
        <3>1. ms = <<>> /\ g = <<>>
            BY <1>1, <1>4, <2>2 DEF Composable
        <3>2. count = Absent(g)
            BY <1>23, <2>2 DEF Optional1
        <3>3. Len(ms) = 0 /\ flat = <<>>
            BY <1>3, <3>1
        <3> QED
            BY <2>2, <3>1, <3>2, <3>3 DEF Absent
    <2> QED
        BY <2>1, <2>2
<1>25. PICK read :
          read = [state |-> "built", flags |-> F, id |-> m.id, sender |-> m.sender,
                  content |-> m.content, original_sender |-> m.original_sender,
                  recipient_nickname |-> m.recipient_nickname, sender_peer_id |-> m.sender_peer_id,
                  mentions |-> ms]
    OBVIOUS
<1>26. read = m
    BY <1>1, <1>25 DEF Composable, ChatMessage
<1>27. from_binary(w) = IF message_validate(read) THEN read ELSE Invalid
    <2>1. PICK r1, r2, r3, r4, r5, r6, r7 :
              /\ r1 = Read8(w.bytes) /\ r2 = Read8(r1.rest) /\ r3 = Read16(r2.rest)
              /\ r4 = Optional8("HAS_ORIGINAL_SENDER", w.flags, r3.rest)
              /\ r5 = Optional8("HAS_RECIPIENT_NICKNAME", w.flags, r4.rest)
              /\ r6 = Optional1("HAS_SENDER_PEER_ID", w.flags, r5.rest)
              /\ r7 = Optional1("HAS_MENTIONS", w.flags, r6.rest)
        OBVIOUS
    <2>2. PICK r8 : r8 = ReadMentions(IF "HAS_MENTIONS" \in w.flags /\ r7.ok THEN r7.val[1] ELSE 0, r7.rest)
        OBVIOUS
    <2>3. PICK r : r = [state |-> "built", flags |-> w.flags, id |-> r1.val, sender |-> r2.val,
                        content |-> r3.val, original_sender |-> r4.val,
                        recipient_nickname |-> r5.val, sender_peer_id |-> r6.val, mentions |-> r8.val]
        OBVIOUS
    <2>4. from_binary(w) = IF /\ r1.ok /\ r2.ok /\ r3.ok /\ r4.ok /\ r5.ok /\ r6.ok /\ r7.ok
                              /\ r8.ok /\ message_validate(r)
                           THEN r ELSE Invalid
        BY <2>1, <2>2, <2>3, Zenon DEF from_binary
    <2>5. r1 = ReadAs(m.id, t1)
        BY <1>20, <1>22, <2>1
    <2>6. r2 = ReadAs(m.sender, t2)
        BY <1>18, <2>1, <2>5 DEF ReadAs
    <2>7. r3 = ReadAs(m.content, t3) /\ r3.rest = t3
        BY <1>16, <2>1, <2>6 DEF ReadAs
    <2>8. r4 = ReadAs(m.original_sender, t4) /\ r4.rest = t4
        <3>1. r4 = Optional8("HAS_ORIGINAL_SENDER", F, t3)
            BY <1>22, <2>1, <2>7
        <3>2. r4 = ReadAs(m.original_sender, t4)
            BY <1>14, <3>1
        <3> QED
            BY <3>2 DEF ReadAs
    <2>9. r5 = ReadAs(m.recipient_nickname, t5) /\ r5.rest = t5
        <3>1. r5 = Optional8("HAS_RECIPIENT_NICKNAME", F, t4)
            BY <1>22, <2>1, <2>8
        <3>2. r5 = ReadAs(m.recipient_nickname, t5)
            BY <1>12, <3>1
        <3> QED
            BY <3>2 DEF ReadAs
    <2>10. r6 = ReadAs(m.sender_peer_id, g) /\ r6.rest = g
        <3>1. r6 = Optional1("HAS_SENDER_PEER_ID", F, t5)
            BY <1>22, <2>1, <2>9
        <3>2. r6 = ReadAs(m.sender_peer_id, g)
            BY <1>9, <3>1
        <3> QED
            BY <3>2 DEF ReadAs
    <2>11. r7 = count
        BY <1>22, <1>23, <2>1, <2>10
    <2>12. r8 = [ok |-> TRUE, val |-> ms]
        BY <1>3, <1>22, <1>24, <2>2, <2>11
    <2>13. r = read
        BY <1>22, <1>25, <2>3, <2>5, <2>6, <2>7, <2>8, <2>9, <2>10, <2>12 DEF ReadAs
    <2> QED
        BY <1>24, <2>4, <2>5, <2>6, <2>7, <2>8, <2>9, <2>10, <2>11, <2>12, <2>13 DEF ReadAs
<1> QED
    BY <1>21, <1>26, <1>27

-----------------------------------------------------------------------------
(* Entries of type, length and value *)

\* r[i] is what is left of a list of k entries behind the first i of them.
EntryList(k, types, vals, r) ==
    /\ k \in Nat /\ types \in [1 .. k -> Nat] /\ vals \in [1 .. k -> Seq(Nat)] /\ r \in [0 .. k -> Seq(Nat)]
    /\ \A i \in 1 .. k : types[i] \in Range(TlvType) /\ Len(vals[i]) <= U16
    /\ r[k] = <<>>
    /\ \A i \in 1 .. k : r[i - 1] = (<<types[i]>> \o With16(vals[i])) \o r[i]

\* What is read of an entry, and how long it is at least.
LEMMA EntryIs ==
    ASSUME NEW k, NEW types, NEW vals, NEW r, EntryList(k, types, vals, r), NEW i \in 1 .. k
    PROVE  /\ r[i - 1][1] = types[i] /\ Read16(Tail(r[i - 1])) = ReadAs(vals[i], r[i])
           /\ Len(r[i - 1]) >= 3 + Len(r[i])
<1>1. PICK t, v, x : t = types[i] /\ v = vals[i] /\ x = r[i]
    OBVIOUS
<1>2. /\ t \in Nat /\ v \in Seq(Nat) /\ Len(v) <= U16 /\ x \in Seq(Nat)
      /\ r[i - 1] = (<<t>> \o With16(v)) \o x
    <2>1. i \in 0 .. k
        BY DEF EntryList
    <2> QED
        BY <1>1, <2>1 DEF EntryList
<1>3. PICK y, w : y = With16(v) /\ w = y \o x
    OBVIOUS
<1>4. y \in Seq(Nat) /\ w \in Seq(Nat) /\ Read16(w) = ReadAs(v, x) /\ Len(y) >= 2
    BY <1>2, <1>3, Read16Is
<1>5. (<<t>> \o y) \o x = <<t>> \o w
    <2>1. PICK u : u = <<t>>
        OBVIOUS
    <2>2. Over(Nat, u) /\ Over(Nat, y) /\ Over(Nat, x)
        BY <1>2, <1>4, <2>1 DEF Over
    <2>3. Cat(Cat(u, y), x) = Cat(u, Cat(y, x))
        BY <2>2, Regroup
    <2> QED
        BY <1>3, <2>1, <2>3, Zenon DEF Cat
<1>6. PICK z : z = <<t>> \o w
    OBVIOUS
<1>7. z[1] = t /\ Tail(z) = w /\ Len(z) = 1 + Len(w)
    BY <1>2, <1>4, <1>6, HeadAndTail
<1>8. Len(w) = Len(y) + Len(x) /\ Len(y) \in Nat /\ Len(x) \in Nat
    BY <1>2, <1>3, <1>4, Joined
<1>9. r[i - 1] = z
    BY <1>2, <1>3, <1>5, <1>6, Zenon
<1>10. Len(z) >= 3 + Len(x)
    <2>1. PICK p, q : p = Len(y) /\ q = Len(x)
        OBVIOUS
    <2> QED
        BY <1>4, <1>7, <1>8, <2>1
<1> QED
    BY <1>1, <1>3, <1>4, <1>7, <1>9, <1>10

\* A list of entries is at least as long as there are entries.
LEMMA EntriesTakeRoom ==
    ASSUME NEW k, NEW types, NEW vals, NEW r, EntryList(k, types, vals, r)
    PROVE  k <= Len(r[0])
<1>1. k \in Nat /\ \A i \in 0 .. k : Len(r[i]) \in Nat
    BY DEF EntryList
<1>2. PICK Good : Good = {i \in 0 .. k : Len(r[0]) >= i + Len(r[i])}
    OBVIOUS
<1>3. 0 \in Good
    BY <1>1, <1>2
<1>4. ASSUME NEW i \in 1 .. k, i - 1 \in Good PROVE i \in Good
    <2>1. i - 1 \in 0 .. k /\ i \in 0 .. k
        BY <1>1
    <2>2. Len(r[0]) >= (i - 1) + Len(r[i - 1]) /\ Len(r[i - 1]) >= 3 + Len(r[i])
        BY <1>2, <1>4, EntryIs
    <2>3. 0 \in 0 .. k
        BY <1>1
    <2>4. PICK a, b, c : a = Len(r[0]) /\ b = Len(r[i - 1]) /\ c = Len(r[i])
        OBVIOUS
    <2>5. a \in Nat /\ b \in Nat /\ c \in Nat
        BY <1>1, <2>1, <2>3, <2>4
    <2>6. a >= i + c
        BY <1>1, <2>2, <2>4, <2>5
    <2> QED
        BY <1>2, <2>1, <2>4, <2>6
<1>5. Good = 0 .. k
    <2>1. Good \in SUBSET (0 .. k)
        BY <1>2
    <2> QED
        BY <1>1, <1>3, <1>4, <2>1, Upwards
<1>6. k \in Good
    BY <1>1, <1>5
<1>7. Len(r[0]) >= k + Len(r[k]) /\ Len(r[k]) \in Nat /\ Len(r[0]) \in Nat
    BY <1>1, <1>2, <1>6
<1> QED
    BY <1>1, <1>7

\* What a list of entries is read as: k entries of these types and values, and nothing else.
EntriesAre(data, k, types, vals) ==
    /\ tlv_codec_decode(data).ok
    /\ \E at : /\ tlv_codec_decode(data).entries = [i \in 1 .. k |-> at[i]]
               /\ \A i \in 1 .. k : at[i].type = types[i] /\ at[i].val = vals[i]

\* A list of entries is read back entry by entry (tlv.rs, TlvCodec::encode and decode).
THEOREM EntriesReadBack ==
    ASSUME NEW k, NEW types, NEW vals, NEW r, EntryList(k, types, vals, r)
    PROVE  EntriesAre(r[0], k, types, vals)
<1>1. PICK data, n : data = r[0] /\ n = Len(data)
    OBVIOUS
<1>2. k \in Nat /\ n \in Nat /\ k <= n /\ data \in Seq(Nat)
    <2>1. k \in Nat /\ r[0] \in Seq(Nat)
        BY DEF EntryList
    <2> QED
        BY <1>1, <2>1, EntriesTakeRoom
<1>3. PICK start : start = [ok |-> TRUE, type |-> 0, val |-> <<>>, rest |-> data]
    OBVIOUS
<1>4. PICK e : e = [i \in 0 .. k |-> IF i = 0 THEN start
                                    ELSE [ok |-> TRUE, type |-> types[i], val |-> vals[i], rest |-> r[i]]]
    OBVIOUS
<1>5. /\ e[0] = start
      /\ \A i \in 1 .. k : e[i] = [ok |-> TRUE, type |-> types[i], val |-> vals[i], rest |-> r[i]]
      /\ \A i \in 0 .. k : e[i].ok = TRUE /\ e[i].rest = r[i]
    <2>1. e[0] = start
        BY <1>2, <1>4
    <2>2. ASSUME NEW i \in 1 .. k
          PROVE  e[i] = [ok |-> TRUE, type |-> types[i], val |-> vals[i], rest |-> r[i]]
        <3>1. i \in 0 .. k /\ i # 0
            BY <1>2
        <3> QED
            BY <1>4, <3>1
    <2>3. ASSUME NEW i \in 0 .. k PROVE e[i].ok = TRUE /\ e[i].rest = r[i]
        <3>1. CASE i = 0
            BY <1>1, <1>3, <2>1, <3>1
        <3>2. CASE i # 0
            <4>1. i \in 1 .. k
                BY <1>2, <3>2
            <4>2. PICK t, v, x : t = types[i] /\ v = vals[i] /\ x = r[i]
                OBVIOUS
            <4>3. e[i] = [ok |-> TRUE, type |-> t, val |-> v, rest |-> x]
                BY <2>2, <4>1, <4>2
            <4> QED
                BY <4>2, <4>3
        <3> QED
            BY <3>1, <3>2
    <2> QED
        BY <2>1, <2>2, <2>3
<1>6. PICK h : h = [i \in 0 .. n |-> IF i <= k THEN e[i] ELSE NoEntry]
    OBVIOUS
<1>7. /\ \A i \in 0 .. k : i \in 0 .. n /\ h[i] = e[i]
      /\ \A i \in 0 .. n : i > k => h[i] = NoEntry
    <2>1. ASSUME NEW i \in 0 .. k PROVE i \in 0 .. n /\ h[i] = e[i]
        <3>1. i \in 0 .. n /\ i <= k
            BY <1>2
        <3> QED
            BY <1>6, <3>1
    <2>2. ASSUME NEW i \in 0 .. n, i > k PROVE h[i] = NoEntry
        <3>1. ~(i <= k)
            BY <1>2, <2>2
        <3> QED
            BY <1>6, <3>1
    <2> QED
        BY <2>1, <2>2
<1>8. ASSUME NEW i \in 1 .. n PROVE h[i] = NextEntry(h[i - 1])
    <2>1. CASE i <= k
        <3>1. i \in 1 .. k /\ i - 1 \in 0 .. k /\ i \in 0 .. k
            BY <1>2, <2>1
        <3>2. PICK p, d, v : p = h[i - 1] /\ d = p.rest /\ v = Read16(Tail(d))
            OBVIOUS
        <3>3. d = r[i - 1] /\ p.ok = TRUE
            BY <1>5, <1>7, <3>1, <3>2
        <3>4. d[1] = types[i] /\ v = ReadAs(vals[i], r[i]) /\ Len(d) >= 3 + Len(r[i])
            BY <3>1, <3>2, <3>3, EntryIs
        <3>5. types[i] \in Range(TlvType) /\ r[i - 1] \in Seq(Nat) /\ r[i] \in Seq(Nat)
            BY <3>1 DEF EntryList
        <3>6. ~(Len(d) < 3)
            <4>1. Len(d) \in Nat /\ Len(r[i]) \in Nat
                BY <3>3, <3>5
            <4> QED
                BY <3>4, <4>1
        <3>7. v.ok = TRUE /\ v.val = vals[i] /\ v.rest = r[i]
            BY <3>4 DEF ReadAs
        <3>8. NextEntry(p) = IF ~p.ok \/ Len(d) < 3 THEN NoEntry
                             ELSE [ok |-> v.ok /\ d[1] \in Range(TlvType), type |-> d[1],
                                   val |-> v.val, rest |-> v.rest]
            BY <3>2, Zenon DEF NextEntry
        <3>9. NextEntry(p) = [ok |-> v.ok /\ d[1] \in Range(TlvType), type |-> d[1],
                              val |-> v.val, rest |-> v.rest]
            BY <3>3, <3>6, <3>8
        <3>10. (v.ok /\ d[1] \in Range(TlvType)) = TRUE
            BY <3>4, <3>5, <3>7
        <3> QED
            BY <1>5, <1>7, <3>1, <3>2, <3>4, <3>7, <3>9, <3>10
    <2>2. CASE i = k + 1
        <3>1. i - 1 = k /\ k \in 0 .. k /\ i > k
            BY <1>2, <2>2
        <3>2. h[k].rest = <<>> /\ Len(h[k].rest) < 3
            <4>1. h[k].rest = <<>>
                BY <1>5, <1>7, <3>1 DEF EntryList
            <4> QED
                BY <4>1
        <3>3. NextEntry(h[k]) = NoEntry
            BY <3>2 DEF NextEntry
        <3> QED
            BY <1>7, <3>1, <3>3
    <2>3. CASE i > k + 1
        <3>1. i - 1 \in 0 .. n /\ i - 1 > k /\ i \in 0 .. n /\ i > k
            BY <1>2, <2>3
        <3>2. h[i - 1] = NoEntry /\ h[i] = NoEntry
            BY <1>7, <3>1
        <3>3. NoEntry.ok = FALSE
            BY DEF NoEntry
        <3>4. NextEntry(NoEntry) = NoEntry
            BY <3>3 DEF NextEntry
        <3> QED
            BY <3>2, <3>4
    <2> QED
        BY <1>2, <2>1, <2>2, <2>3
<1> DEFINE Is(f) == f = [i \in 0 .. n |-> IF i = 0 THEN [ok |-> TRUE, type |-> 0, val |-> <<>>, rest |-> data]
                                          ELSE NextEntry(f[i - 1])]
<1>9. h[0] = start
    <2>1. 0 \in 0 .. k
        BY <1>2
    <2> QED
        BY <1>5, <1>7, <2>1
<1>10. Is(h)
    <2>1. ASSUME NEW i \in 0 .. n
          PROVE  h[i] = IF i = 0 THEN [ok |-> TRUE, type |-> 0, val |-> <<>>, rest |-> data]
                        ELSE NextEntry(h[i - 1])
        <3>1. CASE i = 0
            BY <1>3, <1>9, <3>1
        <3>2. CASE i # 0
            <4>1. i \in 1 .. n
                BY <1>2, <3>2
            <4> QED
                BY <1>8, <3>2, <4>1
        <3> QED
            BY <3>1, <3>2
    <2> QED
        BY <1>6, <2>1, Zenon
<1>11. PICK at : /\ Is(at)
                 /\ tlv_codec_decode(data) =
                        [ok |-> at[Cardinality({i \in 0 .. n : at[i].ok}) - 1].rest = <<>>,
                         entries |-> [i \in 1 .. Cardinality({i \in 0 .. n : at[i].ok}) - 1 |-> at[i]]]
    <2> DEFINE Fits(f) == f = [i \in 0 .. Len(data) |->
                                  IF i = 0 THEN [ok |-> TRUE, type |-> 0, val |-> <<>>, rest |-> data]
                                  ELSE NextEntry(f[i - 1])]
    <2>1. Fits(CHOOSE f : Fits(f))
        BY <1>1, <1>10, Zenon
    <2>2. tlv_codec_decode(data) =
              [ok |-> (CHOOSE f : Fits(f))[Cardinality({i \in 0 .. Len(data) : (CHOOSE f : Fits(f))[i].ok}) - 1].rest = <<>>,
               entries |-> [i \in 1 .. Cardinality({i \in 0 .. Len(data) : (CHOOSE f : Fits(f))[i].ok}) - 1
                                |-> (CHOOSE f : Fits(f))[i]]]
        BY Zenon DEF tlv_codec_decode
    <2>3. PICK at : /\ Fits(at)
                    /\ tlv_codec_decode(data) =
                          [ok |-> at[Cardinality({i \in 0 .. Len(data) : at[i].ok}) - 1].rest = <<>>,
                           entries |-> [i \in 1 .. Cardinality({i \in 0 .. Len(data) : at[i].ok}) - 1 |-> at[i]]]
        BY <2>1, <2>2, Zenon
    <2> QED
        BY <1>1, <2>3, Zenon
<1>12. PICK Good : Good = {i \in 0 .. n : at[i] = h[i]}
    OBVIOUS
<1>13. 0 \in Good
    <2>1. 0 \in 0 .. n
        BY <1>2
    <2>2. at[0] = start
        BY <1>3, <1>11, <2>1
    <2> QED
        BY <1>9, <1>12, <2>1, <2>2
<1>14. ASSUME NEW i \in 1 .. n, i - 1 \in Good PROVE i \in Good
    <2>1. i \in 0 .. n /\ i # 0 /\ at[i - 1] = h[i - 1]
        BY <1>2, <1>12, <1>14
    <2>2. at[i] = NextEntry(at[i - 1]) /\ h[i] = NextEntry(h[i - 1])
        BY <1>8, <1>11, <2>1
    <2> QED
        BY <1>12, <2>1, <2>2
<1>15. Good = 0 .. n
    <2>1. Good \in SUBSET (0 .. n)
        BY <1>12
    <2> QED
        BY <1>2, <1>13, <1>14, <2>1, Upwards
<1>16. \A i \in 0 .. n : at[i] = h[i]
    BY <1>12, <1>15
<1>17. PICK c : c = Cardinality({i \in 0 .. n : at[i].ok}) - 1
    OBVIOUS
<1>18. c = k
    <2>1. PICK found : found = {i \in 0 .. n : at[i].ok}
        OBVIOUS
    <2>2. ASSUME NEW i \in 0 .. k PROVE i \in found
        <3>1. at[i].ok = TRUE /\ i \in 0 .. n
            BY <1>5, <1>7, <1>16
        <3> QED
            BY <2>1, <3>1
    <2>3. ASSUME NEW i \in found PROVE i \in 0 .. k
        <3>1. i \in 0 .. n /\ at[i].ok
            BY <2>1
        <3>2. i > k => at[i].ok = FALSE
            BY <1>7, <1>16, <3>1 DEF NoEntry
        <3> QED
            BY <1>2, <3>1, <3>2
    <2>4. found = 0 .. k
        BY <2>2, <2>3
    <2>5. 0 \in Int /\ k \in Int /\ ~(0 > k)
        BY <1>2
    <2>6. Cardinality(0 .. k) = k - 0 + 1
        BY <2>5, FS_Interval
    <2>7. c = Cardinality(0 .. k) - 1
        BY <1>17, <2>1, <2>4, Zenon
    <2> QED
        BY <1>2, <2>6, <2>7
<1>19. at[k].rest = <<>>
    <2>1. k \in 0 .. k
        BY <1>2
    <2>2. r[k] = <<>>
        BY DEF EntryList
    <2> QED
        BY <1>5, <1>7, <1>16, <2>1, <2>2
<1>20. tlv_codec_decode(data) = [ok |-> at[c].rest = <<>>, entries |-> [i \in 1 .. c |-> at[i]]]
    BY <1>11, <1>17, Zenon
<1>21. tlv_codec_decode(data).ok /\ tlv_codec_decode(data).entries = [i \in 1 .. k |-> at[i]]
    <2>1. PICK x : x = tlv_codec_decode(data)
        OBVIOUS
    <2>2. x.ok = (at[k].rest = <<>>) /\ x.entries = [i \in 1 .. k |-> at[i]]
        BY <1>18, <1>20, <2>1
    <2> QED
        BY <1>19, <2>1, <2>2
<1>22. \A i \in 1 .. k : at[i].type = types[i] /\ at[i].val = vals[i]
    <2>1. ASSUME NEW i \in 1 .. k PROVE at[i].type = types[i] /\ at[i].val = vals[i]
        <3>1. i \in 0 .. k /\ i \in 0 .. n /\ i # 0
            BY <1>2
        <3>2. at[i] = [ok |-> TRUE, type |-> types[i], val |-> vals[i], rest |-> r[i]]
            BY <1>5, <1>7, <1>16, <3>1
        <3> QED
            BY <3>2
    <2> QED
        BY <2>1
<1>23. EntriesAre(data, k, types, vals)
    BY <1>21, <1>22, Zenon DEF EntriesAre
<1> QED
    BY <1>1, <1>23

-----------------------------------------------------------------------------
(* Announcements *)

Announcement ==
    [state : {"parsed"}, nickname : Seq(Nat), noise_key : Nat, signing_key : Nat,
     neighbours : Seq(Nat) \cup {Missing}]
WrittenAnnouncement(c) ==
    c \in Announcement /\ Len(c.nickname) <= U16 /\ (c.neighbours # Missing => Len(c.neighbours) <= U16)

\* The entry that is found is the first of its type.
LEMMA FirstIsFound ==
    ASSUME NEW es, NEW type, Len(es) \in Nat, NEW j \in 1 .. Len(es), es[j].type = TlvType[type],
           \A i \in 1 .. Len(es) : i < j => es[i].type # TlvType[type]
    PROVE  find_entry(es, type) = ReadAs(es[j].val, <<>>)
<1>1. PICK I : I = {i \in 1 .. Len(es) : es[i].type = TlvType[type]}
    OBVIOUS
<1>2. j \in I /\ \A i \in I : j <= i
    BY <1>1
<1>3. Min(I) = j
    <2>1. PICK m : m = Min(I)
        OBVIOUS
    <2>2. m \in I /\ \A i \in I : m <= i
        <3>1. \E x \in I : \A y \in I : x <= y
            BY <1>2, Zenon
        <3> QED
            BY <2>1, <3>1, Zenon DEF Min
    <2>3. m \in Int /\ j \in Int /\ m <= j /\ j <= m
        BY <1>1, <1>2, <2>2
    <2>4. m = j
        BY <2>3
    <2> QED
        BY <2>1, <2>4
<1>4. SelectInSeq(es, LAMBDA e : e.type = TlvType[type]) = j
    <2>1. I # {}
        BY <1>2
    <2> QED
        BY <1>1, <1>3, <2>1, Zenon DEF SelectInSeq
<1>5. j # 0
    OBVIOUS
<1> QED
    BY <1>4, <1>5, Zenon DEF find_entry, ReadAs

LEMMA NoneIsFound ==
    ASSUME NEW es, NEW type, \A i \in 1 .. Len(es) : es[i].type # TlvType[type]
    PROVE  find_entry(es, type) = TooShort
<1>1. PICK I : I = {i \in 1 .. Len(es) : es[i].type = TlvType[type]}
    OBVIOUS
<1>2. I = {}
    BY <1>1
<1>3. SelectInSeq(es, LAMBDA e : e.type = TlvType[type]) = 0
    BY <1>1, <1>2, Zenon DEF SelectInSeq
<1> QED
    BY <1>3, Zenon DEF find_entry

LEMMA TypesOfEntries ==
    /\ TlvType["Nickname"] = 1 /\ TlvType["NoisePublicKey"] = 2
    /\ TlvType["SigningPublicKey"] = 3 /\ TlvType["DirectNeighbors"] = 4
    /\ \A i \in 1 .. 4 : i \in Range(TlvType)
<1>1. /\ TlvType["Nickname"] = 1 /\ TlvType["NoisePublicKey"] = 2
      /\ TlvType["SigningPublicKey"] = 3 /\ TlvType["DirectNeighbors"] = 4
    BY DEF TlvType
<1>2. DOMAIN TlvType = {"Nickname", "NoisePublicKey", "SigningPublicKey", "DirectNeighbors"}
    BY DEF TlvType
<1>3. 1 \in Range(TlvType) /\ 2 \in Range(TlvType) /\ 3 \in Range(TlvType) /\ 4 \in Range(TlvType)
    BY <1>1, <1>2, Zenon DEF Range
<1>4. \A i \in 1 .. 4 : i = 1 \/ i = 2 \/ i = 3 \/ i = 4
    OBVIOUS
<1> QED
    BY <1>1, <1>3, <1>4

LEMMA EntryIsWritten ==
    ASSUME NEW type, NEW v, TlvType[type] \in Nat, v \in Seq(Nat), Len(v) <= U16
    PROVE  Over(Nat, tlv_encode(type, v)) /\ tlv_encode(type, v) = <<TlvType[type]>> \o With16(v)
<1>1. <<>> \in Seq(Nat)
    OBVIOUS
<1>2. PICK y, t : y = With16(v) /\ t = <<TlvType[type]>>
    OBVIOUS
<1>3. y \in Seq(Nat)
    BY <1>1, <1>2, Read16Is
<1>4. t \in Seq(Nat)
    BY <1>2
<1>5. t \o y \in Seq(Nat)
    BY <1>3, <1>4, ConcatProperties
<1> QED
    BY <1>2, <1>5 DEF tlv_encode, Over

\* An announcement is a list of its three or four entries.
Listed(c, k, types, vals, r) ==
    /\ EntryList(k, types, vals, r) /\ r[0] = announce_encode(c)
    /\ k = IF c.neighbours = Missing THEN 3 ELSE 4
    /\ \A i \in 1 .. k : types[i] = i
    /\ vals[1] = c.nickname /\ vals[2] = <<c.noise_key>> /\ vals[3] = <<c.signing_key>>
    /\ k = 4 => vals[4] = c.neighbours

LEMMA AnnouncementIsListed ==
    ASSUME NEW c, WrittenAnnouncement(c)
    PROVE  \E k, types, vals, r : Listed(c, k, types, vals, r)
<1>1. PICK v1, v2, v3 : v1 = c.nickname /\ v2 = <<c.noise_key>> /\ v3 = <<c.signing_key>>
    OBVIOUS
<1>2. /\ v1 \in Seq(Nat) /\ Len(v1) <= U16 /\ v2 \in Seq(Nat) /\ Len(v2) = 1
      /\ v3 \in Seq(Nat) /\ Len(v3) = 1
      /\ c.neighbours # Missing => c.neighbours \in Seq(Nat) /\ Len(c.neighbours) <= U16
    BY <1>1 DEF WrittenAnnouncement, Announcement
<1>3. 1 <= U16
    <2>1. PICK d : d = U8 + 1
        OBVIOUS
    <2>2. d \in Nat /\ d >= 3
        BY <2>1, PayloadConstants
    <2>3. d * d >= 3 * d
        BY <2>2, MulMonotone
    <2>4. d * d \in Int
        BY <2>2
    <2> QED
        BY <2>1, <2>2, <2>3, <2>4 DEF U16
<1>4. PICK p1, p2, p3 :
          /\ p1 = tlv_encode("Nickname", v1) /\ p2 = tlv_encode("NoisePublicKey", v2)
          /\ p3 = tlv_encode("SigningPublicKey", v3)
    OBVIOUS
<1>5. /\ Over(Nat, p1) /\ p1 = <<1>> \o With16(v1) /\ Over(Nat, p2) /\ p2 = <<2>> \o With16(v2)
      /\ Over(Nat, p3) /\ p3 = <<3>> \o With16(v3)
    <2>1. 1 \in Nat /\ 2 \in Nat /\ 3 \in Nat
        OBVIOUS
    <2>2. Over(Nat, p1) /\ p1 = <<1>> \o With16(v1)
        BY <1>2, <1>4, <2>1, TypesOfEntries, EntryIsWritten
    <2>3. Over(Nat, p2) /\ p2 = <<2>> \o With16(v2)
        BY <1>2, <1>3, <1>4, <2>1, TypesOfEntries, EntryIsWritten
    <2>4. Over(Nat, p3) /\ p3 = <<3>> \o With16(v3)
        BY <1>2, <1>3, <1>4, <2>1, TypesOfEntries, EntryIsWritten
    <2> QED
        BY <2>2, <2>3, <2>4
<1>6. PICK x3 : x3 = IF c.neighbours = Missing THEN <<>> ELSE tlv_encode("DirectNeighbors", c.neighbours)
    OBVIOUS
<1>7. Over(Nat, x3) /\ (c.neighbours # Missing => x3 = <<4>> \o With16(c.neighbours))
    <2>1. CASE c.neighbours = Missing
        <3>1. <<>> \in Seq(Nat)
            OBVIOUS
        <3> QED
            BY <1>6, <2>1, <3>1 DEF Over
    <2>2. CASE c.neighbours # Missing
        <3>1. 4 \in Nat
            OBVIOUS
        <3> QED
            BY <1>2, <1>6, <2>2, <3>1, TypesOfEntries, EntryIsWritten
    <2> QED
        BY <2>1, <2>2
<1>8. PICK x2, x1, x0 : x2 = Cat(p3, x3) /\ x1 = Cat(p2, x2) /\ x0 = Cat(p1, x1)
    OBVIOUS
<1>9. Over(Nat, x2) /\ Over(Nat, x1) /\ Over(Nat, x0)
    <2>1. Over(Nat, x2)
        BY <1>5, <1>7, <1>8, CatOver
    <2>2. Over(Nat, x1)
        BY <1>5, <1>8, <2>1, CatOver
    <2>3. Over(Nat, x0)
        BY <1>5, <1>8, <2>2, CatOver
    <2> QED
        BY <2>1, <2>2, <2>3
<1>10. x0 = announce_encode(c)
    <2>1. announce_encode(c) = Cat(Cat(Cat(p1, p2), p3), x3)
        BY <1>1, <1>4, <1>6, Zenon DEF announce_encode, Cat
    <2>2. PICK q : q = Cat(p1, p2)
        OBVIOUS
    <2>3. Cat(Cat(q, p3), x3) = Cat(q, x2)
        <3>1. Over(Nat, q)
            BY <1>5, <2>2, CatOver
        <3>2. Over(Nat, p3) /\ Over(Nat, x3)
            BY <1>5, <1>7
        <3>3. Cat(Cat(q, p3), x3) = Cat(q, Cat(p3, x3))
            BY <3>1, <3>2, Regroup
        <3> QED
            BY <1>8, <3>3, Zenon
    <2>4. Cat(Cat(p1, p2), x2) = x0
        BY <1>5, <1>8, <1>9, Regroup
    <2> QED
        BY <2>1, <2>2, <2>3, <2>4
<1>11. PICK k, types : k = (IF c.neighbours = Missing THEN 3 ELSE 4) /\ types = [i \in 1 .. k |-> i]
    OBVIOUS
<1>12. PICK vals : vals = [i \in 1 .. k |-> IF i = 1 THEN v1 ELSE IF i = 2 THEN v2 ELSE IF i = 3 THEN v3
                                            ELSE c.neighbours]
    OBVIOUS
<1>13. PICK r : r = [i \in 0 .. k |-> IF i = 0 THEN x0 ELSE IF i = 1 THEN x1 ELSE IF i = 2 THEN x2
                                      ELSE IF i = 3 THEN x3 ELSE <<>>]
    OBVIOUS
<1>14. /\ k \in Nat /\ (k = 3 \/ k = 4) /\ (k = 3 => c.neighbours = Missing) /\ (k = 4 => c.neighbours # Missing)
       /\ \A i \in 1 .. k : i = 1 \/ i = 2 \/ i = 3 \/ (i = 4 /\ k = 4)
       /\ \A i \in 0 .. k : i = 0 \/ i = 1 \/ i = 2 \/ i = 3 \/ (i = 4 /\ k = 4)
    BY <1>11
<1>15. /\ \A i \in 1 .. k : types[i] = i
       /\ vals[1] = v1 /\ vals[2] = v2 /\ vals[3] = v3 /\ (k = 4 => vals[4] = c.neighbours)
    BY <1>11, <1>12, <1>14
<1>16. r[0] = x0 /\ r[1] = x1 /\ r[2] = x2 /\ r[3] = x3 /\ (k = 4 => r[4] = <<>>)
    BY <1>13, <1>14
<1>17. r[k] = <<>>
    BY <1>6, <1>14, <1>16
<1>18. types \in [1 .. k -> Nat] /\ vals \in [1 .. k -> Seq(Nat)] /\ r \in [0 .. k -> Seq(Nat)]
    <2>1. types \in [1 .. k -> Nat]
        BY <1>11, <1>14
    <2>2. ASSUME NEW i \in 1 .. k PROVE vals[i] \in Seq(Nat)
        BY <1>2, <1>14, <1>15
    <2>3. x0 \in Seq(Nat) /\ x1 \in Seq(Nat) /\ x2 \in Seq(Nat) /\ x3 \in Seq(Nat) /\ <<>> \in Seq(Nat)
        BY <1>7, <1>9 DEF Over
    <2>4. ASSUME NEW i \in 0 .. k PROVE r[i] \in Seq(Nat)
        BY <1>14, <1>16, <2>3
    <2> QED
        BY <1>12, <1>13, <2>1, <2>2, <2>4
<1>19. \A i \in 1 .. k : types[i] \in Range(TlvType) /\ Len(vals[i]) <= U16
    <2>1. ASSUME NEW i \in 1 .. k PROVE types[i] \in Range(TlvType) /\ Len(vals[i]) <= U16
        <3>1. types[i] \in Range(TlvType)
            <4>1. i \in 1 .. 4
                BY <1>14
            <4> QED
                BY <1>15, <4>1, TypesOfEntries
        <3>2. Len(vals[i]) <= U16
            BY <1>2, <1>3, <1>14, <1>15
        <3> QED
            BY <3>1, <3>2
    <2> QED
        BY <2>1
<1>20. \A i \in 1 .. k : r[i - 1] = (<<types[i]>> \o With16(vals[i])) \o r[i]
    <2>1. r[1 - 1] = (<<types[1]>> \o With16(vals[1])) \o r[1]
        <3>1. types[1] = 1 /\ vals[1] = v1 /\ r[1] = x1 /\ r[1 - 1] = x0
            BY <1>14, <1>15, <1>16
        <3> QED
            BY <1>5, <1>8, <3>1, Zenon DEF Cat
    <2>2. r[2 - 1] = (<<types[2]>> \o With16(vals[2])) \o r[2]
        <3>1. types[2] = 2 /\ vals[2] = v2 /\ r[2] = x2 /\ r[2 - 1] = x1
            BY <1>14, <1>15, <1>16
        <3> QED
            BY <1>5, <1>8, <3>1, Zenon DEF Cat
    <2>3. r[3 - 1] = (<<types[3]>> \o With16(vals[3])) \o r[3]
        <3>1. types[3] = 3 /\ vals[3] = v3 /\ r[3] = x3 /\ r[3 - 1] = x2
            BY <1>14, <1>15, <1>16
        <3> QED
            BY <1>5, <1>8, <3>1, Zenon DEF Cat
    <2>4. ASSUME k = 4 PROVE r[4 - 1] = (<<types[4]>> \o With16(vals[4])) \o r[4]
        <3>1. types[4] = 4 /\ vals[4] = c.neighbours /\ r[4] = <<>> /\ r[4 - 1] = x3
            BY <1>14, <1>15, <1>16, <2>4
        <3>2. x3 = <<4>> \o With16(c.neighbours)
            BY <1>7, <1>14, <2>4
        <3>3. x3 \o <<>> = x3
            BY <1>7 DEF Over
        <3> QED
            BY <3>1, <3>2, <3>3, Zenon
    <2> QED
        BY <1>14, <2>1, <2>2, <2>3, <2>4
<1>21. EntryList(k, types, vals, r)
    BY <1>14, <1>17, <1>18, <1>19, <1>20 DEF EntryList
<1>22. Listed(c, k, types, vals, r)
    BY <1>1, <1>10, <1>11, <1>15, <1>16, <1>21 DEF Listed
<1> QED
    BY <1>22

\* What is written of an announcement is read back (announce.rs, encode and decode).
THEOREM AnnouncementsReadBack ==
    ASSUME NEW c, WrittenAnnouncement(c)
    PROVE  announce_decode(announce_encode(c)) = c
<1>1. PICK k, types, vals, r : Listed(c, k, types, vals, r)
    BY AnnouncementIsListed
<1>2. EntryList(k, types, vals, r)
    BY <1>1 DEF Listed
<1>3. PICK codec : codec = tlv_codec_decode(announce_encode(c))
    OBVIOUS
<1>4. PICK at : /\ codec.ok /\ codec.entries = [i \in 1 .. k |-> at[i]]
                /\ \A i \in 1 .. k : at[i].type = types[i] /\ at[i].val = vals[i]
    <2>1. codec = tlv_codec_decode(r[0])
        BY <1>1, <1>3 DEF Listed
    <2>2. /\ tlv_codec_decode(r[0]).ok
          /\ \E at : /\ tlv_codec_decode(r[0]).entries = [i \in 1 .. k |-> at[i]]
                     /\ \A i \in 1 .. k : at[i].type = types[i] /\ at[i].val = vals[i]
        <3>1. EntriesAre(r[0], k, types, vals)
            BY <1>2, EntriesReadBack
        <3> QED
            BY <3>1, Zenon DEF EntriesAre
    <2> QED
        BY <2>1, <2>2, Zenon
<1>5. PICK es : es = codec.entries
    OBVIOUS
<1>6. /\ k = (IF c.neighbours = Missing THEN 3 ELSE 4)
      /\ vals[1] = c.nickname /\ vals[2] = <<c.noise_key>> /\ vals[3] = <<c.signing_key>>
      /\ k = 4 => vals[4] = c.neighbours
    BY <1>1 DEF Listed
<1>7. Len(es) = k /\ k \in Nat /\ \A i \in 1 .. k : es[i].type = i /\ es[i].val = vals[i]
    <2>1. \A i \in 1 .. k : types[i] = i
        BY <1>1 DEF Listed
    <2>2. k \in Nat
        BY <1>6
    <2>3. es = [i \in 1 .. k |-> at[i]]
        BY <1>4, <1>5
    <2> QED
        BY <1>4, <2>1, <2>2, <2>3
<1>8. PICK e1, e2, e3, e4 :
          /\ e1 = find_entry(es, "Nickname") /\ e2 = find_entry(es, "NoisePublicKey")
          /\ e3 = find_entry(es, "SigningPublicKey") /\ e4 = find_entry(es, "DirectNeighbors")
    OBVIOUS
<1>9. e1 = ReadAs(c.nickname, <<>>)
    <2>1. 1 \in 1 .. Len(es) /\ Len(es) \in Nat /\ es[1].type = 1 /\ es[1].val = c.nickname
        BY <1>6, <1>7
    <2>2. \A i \in 1 .. Len(es) : i < 1 => es[i].type # 1
        OBVIOUS
    <2> QED
        BY <1>8, <2>1, <2>2, TypesOfEntries, FirstIsFound
<1>10. e2 = ReadAs(<<c.noise_key>>, <<>>)
    <2>1. 2 \in 1 .. Len(es) /\ Len(es) \in Nat /\ es[2].type = 2 /\ es[2].val = <<c.noise_key>>
        BY <1>6, <1>7
    <2>2. \A i \in 1 .. Len(es) : i < 2 => es[i].type # 2
        BY <1>7
    <2> QED
        BY <1>8, <2>1, <2>2, TypesOfEntries, FirstIsFound
<1>11. e3 = ReadAs(<<c.signing_key>>, <<>>)
    <2>1. 3 \in 1 .. Len(es) /\ Len(es) \in Nat /\ es[3].type = 3 /\ es[3].val = <<c.signing_key>>
        BY <1>6, <1>7
    <2>2. \A i \in 1 .. Len(es) : i < 3 => es[i].type # 3
        BY <1>7
    <2> QED
        BY <1>8, <2>1, <2>2, TypesOfEntries, FirstIsFound
<1>12. IF c.neighbours = Missing THEN e4 = TooShort ELSE e4 = ReadAs(c.neighbours, <<>>)
    <2>1. CASE c.neighbours = Missing
        <3>1. \A i \in 1 .. Len(es) : es[i].type # 4
            BY <1>6, <1>7, <2>1
        <3>2. e4 = TooShort
            BY <1>8, <3>1, TypesOfEntries, NoneIsFound
        <3> QED
            BY <2>1, <3>2
    <2>2. CASE c.neighbours # Missing
        <3>1. 4 \in 1 .. Len(es) /\ Len(es) \in Nat /\ es[4].type = 4 /\ es[4].val = c.neighbours
            BY <1>6, <1>7, <2>2
        <3>2. \A i \in 1 .. Len(es) : i < 4 => es[i].type # 4
            BY <1>7
        <3>3. e4 = ReadAs(c.neighbours, <<>>)
            BY <1>8, <3>1, <3>2, TypesOfEntries, FirstIsFound
        <3> QED
            BY <2>2, <3>3
    <2> QED
        BY <2>1, <2>2
<1>13. announce_decode(announce_encode(c)) =
          IF /\ codec.ok
             /\ \A t \in {"Nickname", "NoisePublicKey", "SigningPublicKey"} : find_entry(es, t).ok
             /\ Len(e2.val) = 1 /\ Len(e3.val) = 1
          THEN [state |-> "parsed", nickname |-> e1.val, noise_key |-> e2.val[1], signing_key |-> e3.val[1],
                neighbours |-> IF e4.ok THEN e4.val ELSE Missing]
          ELSE Invalid
    BY <1>3, <1>5, <1>8, Zenon DEF announce_decode
<1>14. PICK x, y : x = <<c.noise_key>> /\ y = <<c.signing_key>>
    OBVIOUS
<1>15. Len(x) = 1 /\ x[1] = c.noise_key /\ Len(y) = 1 /\ y[1] = c.signing_key
    BY <1>14
<1>16. /\ e1.ok = TRUE /\ e1.val = c.nickname /\ e2.ok = TRUE /\ e2.val = x
       /\ e3.ok = TRUE /\ e3.val = y
    BY <1>9, <1>10, <1>11, <1>14 DEF ReadAs
<1>17. (IF e4.ok THEN e4.val ELSE Missing) = c.neighbours
    <2>1. CASE c.neighbours = Missing
        <3>1. e4.ok = FALSE
            BY <1>12, <2>1 DEF TooShort
        <3> QED
            BY <2>1, <3>1
    <2>2. CASE c.neighbours # Missing
        <3>1. e4.ok = TRUE /\ e4.val = c.neighbours
            BY <1>12, <2>2 DEF ReadAs
        <3> QED
            BY <3>1
    <2> QED
        BY <2>1, <2>2
<1>18. \A t \in {"Nickname", "NoisePublicKey", "SigningPublicKey"} : find_entry(es, t).ok
    BY <1>8, <1>16
<1>19. announce_decode(announce_encode(c)) =
           [state |-> "parsed", nickname |-> c.nickname, noise_key |-> c.noise_key,
            signing_key |-> c.signing_key, neighbours |-> c.neighbours]
    BY <1>4, <1>13, <1>15, <1>16, <1>17, <1>18
<1> QED
    BY <1>19 DEF WrittenAnnouncement, Announcement

-----------------------------------------------------------------------------
(* The inductive invariant of the payloads *)

AnnounceOf(s, c) ==
    [state |-> "announce", sender |-> s, signed_by |-> c.signing_key, payload |-> announce_encode(c), about |-> c]

MessageAsBuilt(m) == Composable(m) /\ Len(m.mentions) <= 2
PayloadInv ==
    /\ message = NoMessage \/ MessageAsBuilt(message)
    /\ message_out # NoBytes =>
          message # NoMessage /\ message_validate(message) /\ message_out = to_binary(message)
    /\ message_in # NoMessage => message_out # NoBytes /\ message_in = from_binary(message_out)
    /\ announced # NoMessage => \E s, c : WrittenAnnouncement(c) /\ announced = AnnounceOf(s, c)
    /\ discovered # NoMessage => announced # NoMessage /\ discovered = from_announce_packet(announced)

LEMMA FlaggedIs ==
    ASSUME NEW m \in ChatMessage, NEW names \in SUBSET FlagName
    PROVE  /\ Flagged(m, names) \in ChatMessage /\ Flagged(m, names).flags = m.flags \cup names
           /\ Flagged(m, names).original_sender = m.original_sender
           /\ Flagged(m, names).recipient_nickname = m.recipient_nickname
           /\ Flagged(m, names).sender_peer_id = m.sender_peer_id
           /\ Flagged(m, names).mentions = m.mentions
<1>1. PICK f : f = m.flags \cup names
    OBVIOUS
<1>2. f \in SUBSET FlagName
    BY <1>1 DEF ChatMessage
<1>3. PICK w : w = [m EXCEPT !.flags = f]
    OBVIOUS
<1>4. w = Flagged(m, names)
    BY <1>1, <1>3 DEF Flagged
<1>5. /\ w \in ChatMessage /\ w.flags = f
      /\ w.original_sender = m.original_sender /\ w.recipient_nickname = m.recipient_nickname
      /\ w.sender_peer_id = m.sender_peer_id /\ w.mentions = m.mentions
    BY <1>2, <1>3 DEF ChatMessage
<1> QED
    BY <1>1, <1>4, <1>5

LEMMA NewMessageIsBuilt ==
    ASSUME NEW id \in Seq(Nat), NEW sender \in Seq(Nat), NEW content \in Seq(Nat)
    PROVE  MessageAsBuilt(message_new(id, sender, content))
<1>1. PICK m : m = message_new(id, sender, content)
    OBVIOUS
<1>2. PICK none, nobody : none = <<>> /\ nobody = {}
    OBVIOUS
<1>3. none \in Seq(Seq(Nat)) /\ Len(none) = 0 /\ nobody \in SUBSET FlagName
    BY <1>2
<1>4. m = [state |-> "built", flags |-> nobody, id |-> id, sender |-> sender, content |-> content,
           original_sender |-> Missing, recipient_nickname |-> Missing, sender_peer_id |-> Missing,
           mentions |-> none]
    BY <1>1, <1>2 DEF message_new
<1>5. m \in ChatMessage
    BY <1>3, <1>4 DEF ChatMessage
<1>6. /\ m.flags = nobody /\ m.original_sender = Missing /\ m.recipient_nickname = Missing
      /\ m.sender_peer_id = Missing /\ m.mentions = none
    BY <1>4
<1> QED
    BY <1>1, <1>2, <1>3, <1>5, <1>6 DEF MessageAsBuilt, Composable

LEMMA RelayIsBuilt ==
    ASSUME NEW m, MessageAsBuilt(m), NEW s \in Seq(Nat)
    PROVE  MessageAsBuilt(Flagged([m EXCEPT !.original_sender = s], {"IS_RELAY", "HAS_ORIGINAL_SENDER"}))
<1>1. PICK x, names, w : /\ x = [m EXCEPT !.original_sender = s] /\ names = {"IS_RELAY", "HAS_ORIGINAL_SENDER"}
                         /\ w = Flagged(x, names)
    OBVIOUS
<1>2. m \in ChatMessage
    BY DEF MessageAsBuilt, Composable
<1>3. /\ x \in ChatMessage /\ x.flags = m.flags /\ x.original_sender = s
      /\ x.recipient_nickname = m.recipient_nickname /\ x.sender_peer_id = m.sender_peer_id
      /\ x.mentions = m.mentions
    BY <1>1, <1>2 DEF ChatMessage
<1>4. /\ w \in ChatMessage /\ w.flags = x.flags \cup names
      /\ w.original_sender = x.original_sender /\ w.recipient_nickname = x.recipient_nickname
      /\ w.sender_peer_id = x.sender_peer_id /\ w.mentions = x.mentions
    <2>1. names \in SUBSET FlagName
        BY <1>1 DEF FlagName
    <2> QED
        BY <1>1, <1>3, <2>1, FlaggedIs
<1>5. "HAS_ORIGINAL_SENDER" \in w.flags
    BY <1>1, <1>4
<1>6. \A f \in {"HAS_RECIPIENT_NICKNAME", "HAS_SENDER_PEER_ID", "HAS_MENTIONS"} :
          f \in w.flags <=> f \in m.flags
    BY <1>1, <1>3, <1>4
<1>7. MessageAsBuilt(w)
    BY <1>3, <1>4, <1>5, <1>6 DEF MessageAsBuilt, Composable
<1> QED
    BY <1>1, <1>7

LEMMA RecipientIsBuilt ==
    ASSUME NEW m, MessageAsBuilt(m), NEW s \in Seq(Nat)
    PROVE  MessageAsBuilt(Flagged([m EXCEPT !.recipient_nickname = s], {"HAS_RECIPIENT_NICKNAME"}))
<1>1. PICK x, names, w : /\ x = [m EXCEPT !.recipient_nickname = s] /\ names = {"HAS_RECIPIENT_NICKNAME"}
                         /\ w = Flagged(x, names)
    OBVIOUS
<1>2. m \in ChatMessage
    BY DEF MessageAsBuilt, Composable
<1>3. /\ x \in ChatMessage /\ x.flags = m.flags /\ x.recipient_nickname = s
      /\ x.original_sender = m.original_sender /\ x.sender_peer_id = m.sender_peer_id
      /\ x.mentions = m.mentions
    BY <1>1, <1>2 DEF ChatMessage
<1>4. /\ w \in ChatMessage /\ w.flags = x.flags \cup names
      /\ w.original_sender = x.original_sender /\ w.recipient_nickname = x.recipient_nickname
      /\ w.sender_peer_id = x.sender_peer_id /\ w.mentions = x.mentions
    <2>1. names \in SUBSET FlagName
        BY <1>1 DEF FlagName
    <2> QED
        BY <1>1, <1>3, <2>1, FlaggedIs
<1>5. "HAS_RECIPIENT_NICKNAME" \in w.flags
    BY <1>1, <1>4
<1>6. \A f \in {"HAS_ORIGINAL_SENDER", "HAS_SENDER_PEER_ID", "HAS_MENTIONS"} :
          f \in w.flags <=> f \in m.flags
    BY <1>1, <1>3, <1>4
<1>7. MessageAsBuilt(w)
    BY <1>3, <1>4, <1>5, <1>6 DEF MessageAsBuilt, Composable
<1> QED
    BY <1>1, <1>7

LEMMA PeerIdIsBuilt ==
    ASSUME NEW m, MessageAsBuilt(m), NEW n \in Nat
    PROVE  MessageAsBuilt(Flagged([m EXCEPT !.sender_peer_id = <<n>>], {"HAS_SENDER_PEER_ID"}))
<1>1. PICK x, names, w : /\ x = [m EXCEPT !.sender_peer_id = <<n>>] /\ names = {"HAS_SENDER_PEER_ID"}
                         /\ w = Flagged(x, names)
    OBVIOUS
<1>2. m \in ChatMessage
    BY DEF MessageAsBuilt, Composable
<1>3. /\ x \in ChatMessage /\ x.flags = m.flags /\ x.sender_peer_id = <<n>>
      /\ x.original_sender = m.original_sender /\ x.recipient_nickname = m.recipient_nickname
      /\ x.mentions = m.mentions
    BY <1>1, <1>2 DEF ChatMessage
<1>4. /\ w \in ChatMessage /\ w.flags = x.flags \cup names
      /\ w.original_sender = x.original_sender /\ w.recipient_nickname = x.recipient_nickname
      /\ w.sender_peer_id = x.sender_peer_id /\ w.mentions = x.mentions
    <2>1. names \in SUBSET FlagName
        BY <1>1 DEF FlagName
    <2> QED
        BY <1>1, <1>3, <2>1, FlaggedIs
<1>5. "HAS_SENDER_PEER_ID" \in w.flags
    BY <1>1, <1>4
<1>6. \A f \in {"HAS_ORIGINAL_SENDER", "HAS_RECIPIENT_NICKNAME", "HAS_MENTIONS"} :
          f \in w.flags <=> f \in m.flags
    BY <1>1, <1>3, <1>4
<1>7. MessageAsBuilt(w)
    BY <1>3, <1>4, <1>5, <1>6 DEF MessageAsBuilt, Composable
<1> QED
    BY <1>1, <1>7

LEMMA MentionsAreBuilt ==
    ASSUME NEW m, MessageAsBuilt(m), NEW ms \in Seq(Seq(Nat)), ms # <<>>, Len(ms) <= 2
    PROVE  MessageAsBuilt(Flagged([m EXCEPT !.mentions = ms], {"HAS_MENTIONS"}))
<1>1. PICK x, names, w : /\ x = [m EXCEPT !.mentions = ms] /\ names = {"HAS_MENTIONS"}
                         /\ w = Flagged(x, names)
    OBVIOUS
<1>2. m \in ChatMessage
    BY DEF MessageAsBuilt, Composable
<1>3. /\ x \in ChatMessage /\ x.flags = m.flags /\ x.mentions = ms
      /\ x.original_sender = m.original_sender /\ x.recipient_nickname = m.recipient_nickname
      /\ x.sender_peer_id = m.sender_peer_id
    BY <1>1, <1>2 DEF ChatMessage
<1>4. /\ w \in ChatMessage /\ w.flags = x.flags \cup names
      /\ w.original_sender = x.original_sender /\ w.recipient_nickname = x.recipient_nickname
      /\ w.sender_peer_id = x.sender_peer_id /\ w.mentions = x.mentions
    <2>1. names \in SUBSET FlagName
        BY <1>1 DEF FlagName
    <2> QED
        BY <1>1, <1>3, <2>1, FlaggedIs
<1>5. "HAS_MENTIONS" \in w.flags
    BY <1>1, <1>4
<1>6. \A f \in {"HAS_ORIGINAL_SENDER", "HAS_RECIPIENT_NICKNAME", "HAS_SENDER_PEER_ID"} :
          f \in w.flags <=> f \in m.flags
    BY <1>1, <1>3, <1>4
<1>7. MessageAsBuilt(w)
    BY <1>3, <1>4, <1>5, <1>6 DEF MessageAsBuilt, Composable
<1> QED
    BY <1>1, <1>7

LEMMA PayloadStep == PayloadInv /\ [PayloadNext]_payloadVars => PayloadInv'
<1> SUFFICES ASSUME PayloadInv, [PayloadNext]_payloadVars PROVE PayloadInv'
    OBVIOUS
\* A step of the composer leaves everything but the message, which was not serialized.
<1>1. ASSUME NEW m, MessageAsBuilt(m), message = NoMessage \/ message_out = NoBytes, Composed(m)
      PROVE  PayloadInv'
    <2>1. message_out = NoBytes
        BY <1>1 DEF PayloadInv
    <2>2. /\ message' = m /\ message_out' = message_out /\ message_in' = message_in
          /\ announced' = announced /\ discovered' = discovered
        BY <1>1 DEF Composed
    <2>3. message_out' = NoBytes /\ message_in' = NoMessage
        BY <2>1, <2>2 DEF PayloadInv
    <2> QED
        BY <1>1, <2>2, <2>3 DEF PayloadInv
<1>2. \A s \in Text : s \in Seq(Nat)
    BY PayloadConstants
<1>3. Composing => MessageAsBuilt(message) /\ message_out = NoBytes
    BY DEF Composing, PayloadInv
<1>4. ASSUME NEW id \in Text, NEW sender \in Text, NEW content \in Text, Compose(id, sender, content)
      PROVE  PayloadInv'
    <2>1. MessageAsBuilt(message_new(id, sender, content))
        BY <1>2, NewMessageIsBuilt
    <2> QED
        BY <1>1, <1>4, <2>1 DEF Compose
<1>5. ASSUME NEW s \in Text, with_relay(s) PROVE PayloadInv'
    <2>1. PICK m : m = message
        OBVIOUS
    <2>2. MessageAsBuilt(m) /\ s \in Seq(Nat)
        BY <1>2, <1>3, <1>5, <2>1 DEF with_relay
    <2>3. MessageAsBuilt(Flagged([m EXCEPT !.original_sender = s], {"IS_RELAY", "HAS_ORIGINAL_SENDER"}))
        BY <2>2, RelayIsBuilt
    <2> QED
        BY <1>1, <1>3, <1>5, <2>1, <2>3 DEF with_relay
<1>6. ASSUME NEW s \in Text, with_recipient_nickname(s) PROVE PayloadInv'
    <2>1. PICK m : m = message
        OBVIOUS
    <2>2. MessageAsBuilt(m) /\ s \in Seq(Nat)
        BY <1>2, <1>3, <1>6, <2>1 DEF with_recipient_nickname
    <2>3. MessageAsBuilt(Flagged([m EXCEPT !.recipient_nickname = s], {"HAS_RECIPIENT_NICKNAME"}))
        BY <2>2, RecipientIsBuilt
    <2> QED
        BY <1>1, <1>3, <1>6, <2>1, <2>3 DEF with_recipient_nickname
<1>7. ASSUME NEW n \in KeyOwner, with_sender_peer_id(n) PROVE PayloadInv'
    <2>1. PICK m : m = message
        OBVIOUS
    <2>2. MessageAsBuilt(m) /\ n \in Nat
        BY <1>3, <1>7, <2>1, PayloadConstants DEF with_sender_peer_id
    <2>3. MessageAsBuilt(Flagged([m EXCEPT !.sender_peer_id = <<n>>], {"HAS_SENDER_PEER_ID"}))
        BY <2>2, PeerIdIsBuilt
    <2> QED
        BY <1>1, <1>3, <1>7, <2>1, <2>3 DEF with_sender_peer_id
<1>8. ASSUME NEW ms \in Seq(Seq(Nat)), Len(ms) <= 2, with_mentions(ms) PROVE PayloadInv'
    <2>1. PICK m : m = message
        OBVIOUS
    <2>2. MessageAsBuilt(m) /\ Composing
        BY <1>3, <1>8, <2>1 DEF with_mentions
    <2>3. CASE ms = <<>>
        BY <1>1, <1>3, <1>8, <2>1, <2>2, <2>3 DEF with_mentions
    <2>4. CASE ms # <<>>
        <3>1. MessageAsBuilt(Flagged([m EXCEPT !.mentions = ms], {"HAS_MENTIONS"}))
            BY <1>8, <2>2, <2>4, MentionsAreBuilt
        <3> QED
            BY <1>1, <1>3, <1>8, <2>1, <2>2, <2>4, <3>1 DEF with_mentions
    <2> QED
        BY <2>3, <2>4
<1>9. CASE Serialize
    <2>1. MessageAsBuilt(message) /\ message # NoMessage /\ message_out = NoBytes /\ message_validate(message)
        BY <1>3, <1>9 DEF Serialize, Composing
    <2>2. message_in = NoMessage
        BY <2>1 DEF PayloadInv
    <2>3. /\ message_out' = to_binary(message) /\ message' = message /\ message_in' = message_in
          /\ announced' = announced /\ discovered' = discovered
        BY <1>9 DEF Serialize
    <2> QED
        BY <2>1, <2>2, <2>3 DEF PayloadInv
<1>10. CASE Deserialize
    <2>1. /\ message_out # NoBytes /\ message_in' = from_binary(message_out) /\ message' = message
          /\ message_out' = message_out /\ announced' = announced /\ discovered' = discovered
        BY <1>10 DEF Deserialize
    <2> QED
        BY <2>1 DEF PayloadInv
<1>11. CASE Discover
    <2>1. /\ announced # NoMessage /\ discovered' = from_announce_packet(announced) /\ message' = message
          /\ message_out' = message_out /\ announced' = announced /\ message_in' = message_in
        BY <1>11 DEF Discover
    <2> QED
        BY <2>1 DEF PayloadInv
<1>12. ASSUME NEW s \in KeyOwner, NEW k \in KeyOwner, NEW i \in KeyOwner, NEW t \in Text,
              NEW ns \in NeighbourList, Announce(s, t, k, i, ns)
       PROVE  PayloadInv'
    <2>1. PICK c : c = [state |-> "parsed", nickname |-> t, noise_key |-> k, signing_key |-> i, neighbours |-> ns]
        OBVIOUS
    <2>2. WrittenAnnouncement(c)
        <3>1. t \in Seq(Nat) /\ k \in Nat /\ i \in Nat
            BY <1>2, PayloadConstants
        <3>2. ns = Missing \/ (ns \in Seq(Nat) /\ Len(ns) <= U16)
            BY PayloadConstants
        <3>3. Len(t) <= U16
            <4>1. Len(t) \in Nat /\ Len(t) <= U8
                BY <1>12, <3>1 DEF Announce
            <4>2. PICK d : d = U8 + 1
                OBVIOUS
            <4>3. d \in Nat /\ 1 <= d /\ U8 = d - 1
                BY <4>2, PayloadConstants
            <4>4. 1 * d <= d * d /\ d * d \in Int
                BY <4>3, MulMonotone
            <4> QED
                BY <4>1, <4>2, <4>3, <4>4 DEF U16
        <3>4. c \in Announcement
            BY <2>1, <3>1, <3>2 DEF Announcement
        <3> QED
            BY <2>1, <3>2, <3>3, <3>4 DEF WrittenAnnouncement
    <2>3. announced' = AnnounceOf(s, c)
        <3>1. c.signing_key = i
            BY <2>1
        <3> QED
            BY <1>12, <2>1, <3>1, Zenon DEF Announce, create_announce, AnnounceOf
    <2>4. discovered = NoMessage
        BY <1>12 DEF Announce, PayloadInv
    <2>5. /\ message' = message /\ message_out' = message_out /\ message_in' = message_in
          /\ discovered' = discovered
        BY <1>12 DEF Announce
    <2>6. \E u, v : WrittenAnnouncement(v) /\ announced' = AnnounceOf(u, v)
        BY <2>2, <2>3
    <2> QED
        BY <2>4, <2>5, <2>6 DEF PayloadInv
<1>13. CASE UNCHANGED payloadVars
    BY <1>13 DEF payloadVars, PayloadInv
<1>14. \A a, b \in Text :
          /\ <<>> \in Seq(Seq(Nat)) /\ Len(<<>>) <= 2 /\ <<a>> \in Seq(Seq(Nat)) /\ Len(<<a>>) <= 2
          /\ <<a, b>> \in Seq(Seq(Nat)) /\ Len(<<a, b>>) <= 2
    BY <1>2
<1>15. ASSUME NEW a \in Text, NEW b \in Text, with_mentions(<<>>) \/ with_mentions(<<a>>) \/ with_mentions(<<a, b>>)
       PROVE  PayloadInv'
    BY <1>8, <1>14, <1>15
<1> QED
    BY <1>4, <1>5, <1>6, <1>7, <1>9, <1>10, <1>11, <1>12, <1>13, <1>15 DEF PayloadNext

\* Whatever was read of a message or an announcement is what was written of it.
LEMMA PayloadInvIsEnough == PayloadInv => PayloadsSurvive
<1> SUFFICES ASSUME PayloadInv PROVE PayloadsSurvive
    OBVIOUS
<1>1. MessagesSurvive
    <2>1. SUFFICES ASSUME message_in # NoMessage, \A i \in DOMAIN message.mentions : Len(message.mentions[i]) <= U8
                   PROVE  message_in = message
        BY DEF MessagesSurvive
    <2>2. PICK m : m = message
        OBVIOUS
    <2>3. /\ message_validate(m) /\ message_in = from_binary(to_binary(m)) /\ MessageAsBuilt(m)
        BY <2>1, <2>2 DEF PayloadInv
    <2>4. Len(m.mentions) <= U8
        <3>1. m.mentions \in Seq(Seq(Nat)) /\ Len(m.mentions) <= 2
            BY <2>3 DEF MessageAsBuilt, Composable, ChatMessage
        <3>2. Len(m.mentions) \in Nat /\ U8 \in Nat /\ U8 >= 2
            BY <3>1, PayloadConstants
        <3> QED
            BY <3>1, <3>2
    <2>5. Composable(m)
        BY <2>3 DEF MessageAsBuilt
    <2>6. from_binary(to_binary(m)) = m
        BY <2>1, <2>2, <2>3, <2>4, <2>5, MessagesReadBack
    <2> QED
        BY <2>2, <2>3, <2>6
<1>2. AnnouncedIsDiscovered
    <2>1. SUFFICES ASSUME discovered # NoMessage
                   PROVE  discovered = IF announced.about.noise_key = announced.sender THEN announced.about
                                       ELSE Invalid
        BY DEF AnnouncedIsDiscovered
    <2>2. PICK s, c : WrittenAnnouncement(c) /\ announced = AnnounceOf(s, c)
        BY <2>1 DEF PayloadInv
    <2>3. PICK p : p = announced
        OBVIOUS
    <2>4. /\ p.sender = s /\ p.signed_by = c.signing_key /\ p.payload = announce_encode(c) /\ p.about = c
        BY <2>2, <2>3 DEF AnnounceOf
    <2>5. announce_decode(p.payload) = c
        BY <2>2, <2>4, AnnouncementsReadBack
    <2>6. c # Invalid
        BY <2>2 DEF WrittenAnnouncement, Announcement, Invalid
    <2>7. verify_and_parse_announce(p) = c
        BY <2>4, <2>5, <2>6 DEF verify_and_parse_announce
    <2>8. from_announce_packet(p) = IF s # c.noise_key THEN Invalid ELSE c
        BY <2>4, <2>6, <2>7 DEF from_announce_packet
    <2>9. discovered = from_announce_packet(p)
        BY <2>1, <2>3 DEF PayloadInv
    <2> QED
        BY <2>3, <2>4, <2>8, <2>9
<1> QED
    BY <1>1, <1>2 DEF PayloadsSurvive

\* Payloads survive their encodings, in every reachable state (message.rs, to_binary and
\* from_binary; announce.rs, encode, decode and from_announce_packet).
THEOREM PayloadsSurviveEncoding == PayloadSpec => []PayloadsSurvive
<1>1. PayloadInit => PayloadInv
    BY DEF PayloadInit, PayloadInv
<1>2. PayloadInv /\ [PayloadNext]_payloadVars => PayloadInv'
    BY PayloadStep
<1>3. PayloadInv => PayloadsSurvive
    BY PayloadInvIsEnough
<1> QED
    BY <1>1, <1>2, <1>3, PTL DEF PayloadSpec
=============================================================================
