----------------------------- MODULE NetworkProofs -----------------------------
(***************************************************************************)
(* Proofs about the links between nodes, each for any instance: packets    *)
(* forwarded through the mesh, the connection manager, the peer table of   *)
(* the BLE transport, the scenarios played on the virtual network, the     *)
(* choice of a transport, and the rate limiter.                            *)
(***************************************************************************)
EXTENDS MeshForwarding, ConnectionManager, BleLink, SimulationRun, Failover, RateLimiter, TLAPS,
        FiniteSetTheorems

-----------------------------------------------------------------------------
(* Forwarding through the mesh *)


\* Every copy has left its origin. This is what HopsBounded lacks to be
\* inductive: a copy's last two nodes exist.
OnTheWay == \A c \in inbox \cup delivered : Len(c.path) >= 2

IInv == TypeOK /\ OnTheWay /\ HopsBounded /\ NoBounce

\* What is true of a copy, whatever variable holds it.
CopyOK(c, s) ==
    /\ c \in Copy
    /\ Len(c.path) >= 2
    /\ s[c.id] # Unsent
    /\ c.ttl + Len(c.path) = s[c.id].ttl + 2
    /\ \A i \in 1 .. Len(c.path) - 2 : c.path[i] # c.path[i + 2]

\* A sum that stays bounds its parts.
LEMMA PathBounded ==
    ASSUME NEW s \in [Id -> Sent \cup {Unsent}], NEW c, CopyOK(c, s)
    PROVE  Len(c.path) <= s[c.id].ttl + 2
<1>1. c.ttl \in Nat /\ Len(c.path) \in Nat /\ c.id \in Id
  BY DEF CopyOK, Copy
<1>2. s[c.id].ttl \in Nat
  BY <1>1 DEF CopyOK, Sent
<1> QED BY <1>1, <1>2 DEF CopyOK

\* The invariant gives what is true of each copy.
LEMMA CopyByCopy == IInv => \A c \in inbox \cup delivered : CopyOK(c, sent)
BY DEF IInv, TypeOK, CopyOK, OnTheWay, HopsBounded, NoBounce

\* A forwarded copy: one node longer, one TTL smaller, not back where it came
\* from (forward_packet).
LEMMA ForwardedOK ==
    ASSUME NEW s \in [Id -> Sent \cup {Unsent}], NEW c, CopyOK(c, s), c.ttl > 0,
           NEW m \in Node, m # From(c)
    PROVE  CopyOK([id |-> c.id, ttl |-> decrement(c.ttl), path |-> Append(c.path, m)], s)
<1> DEFINE new == [id |-> c.id, ttl |-> decrement(c.ttl), path |-> Append(c.path, m)]
<1>1. c.id \in Id /\ c.ttl \in Nat /\ c.path \in Seq(Node) /\ Len(c.path) \in Nat
  BY DEF CopyOK, Copy
<1>2. /\ Len(new.path) = Len(c.path) + 1
      /\ \A i \in 1 .. Len(c.path) : new.path[i] = c.path[i]
      /\ new.path[Len(c.path) + 1] = m
      /\ new.path \in Seq(Node)
  BY <1>1
<1>3. new.ttl = c.ttl - 1 /\ new.ttl \in Nat
  BY <1>1 DEF decrement
<1>4. s[c.id].ttl \in Nat
  BY <1>1 DEF CopyOK, Sent
<1>5. new \in Copy /\ new.id = c.id
  BY <1>1, <1>2, <1>3 DEF Copy
<1>6. new.ttl + Len(new.path) = s[new.id].ttl + 2
  BY <1>1, <1>2, <1>3, <1>4, <1>5 DEF CopyOK
<1>7. ASSUME NEW i \in 1 .. Len(new.path) - 2
      PROVE  new.path[i] # new.path[i + 2]
  <2>1. CASE i = Len(c.path) - 1
    <3>1. new.path[i] = From(c) /\ new.path[i + 2] = m
      BY <1>1, <1>2, <2>1 DEF CopyOK, From
    <3> QED BY <3>1
  <2>2. CASE i # Len(c.path) - 1
    <3>1. i \in 1 .. Len(c.path) - 2 /\ i \in 1 .. Len(c.path) /\ i + 2 \in 1 .. Len(c.path)
      BY <1>1, <1>2, <2>2
    <3> QED BY <1>2, <3>1 DEF CopyOK
  <2> QED BY <2>1, <2>2
<1>8. Len(new.path) >= 2 /\ s[new.id] # Unsent
  BY <1>1, <1>2, <1>5 DEF CopyOK
<1> HIDE DEF new
<1>9. CopyOK(new, s)
  BY <1>5, <1>6, <1>7, <1>8 DEF CopyOK
<1> QED BY <1>9 DEF new

\* A copy just sent: two nodes long, with the TTL the packet starts with.
LEMMA SentOK ==
    ASSUME NEW s, NEW id \in Id, NEW n \in Node, NEW m \in Node, NEW ttl \in Nat,
           s[id] # Unsent, s[id].ttl = ttl
    PROVE  CopyOK([id |-> id, ttl |-> ttl, path |-> Append(<<n>>, m)], s)
<1>1. Append(<<n>>, m) \in Seq(Node) /\ Len(Append(<<n>>, m)) = 2
  OBVIOUS
<1> QED BY <1>1 DEF CopyOK, Copy

\* Sending packets leaves the copies of other packets as they were.
LEMMA StaysOK ==
    ASSUME NEW s \in [Id -> Sent \cup {Unsent}], NEW c, CopyOK(c, s),
           NEW id \in Id, s[id] = Unsent, NEW r
    PROVE  CopyOK(c, [s EXCEPT ![id] = r])
<1>1. c.id \in Id /\ c.id # id
  BY DEF CopyOK, Copy
<1>2. [s EXCEPT ![id] = r][c.id] = s[c.id]
  BY <1>1
<1> QED BY <1>2 DEF CopyOK

\* The copies a write leads to are copies for the peers written to.
LEMMA CopiesAre ==
    ASSUME NEW id, NEW ttl, NEW path, NEW targets,
           NEW new \in Copies(id, ttl, path, targets), NEW c \in new
    PROVE  \E m \in targets : c = [id |-> id, ttl |-> ttl, path |-> Append(path, m)]
<1>1. PICK reached \in IF faulty THEN SUBSET targets ELSE {targets} :
         new = {[id |-> id, ttl |-> ttl, path |-> Append(path, m)] : m \in reached}
  BY DEF Copies
<1>2. reached \subseteq targets
  BY <1>1
<1> QED BY <1>1, <1>2

\* Initially there is no copy.
LEMMA InitInv == Init => IInv
<1> SUFFICES ASSUME Init PROVE IInv
  OBVIOUS
<1>1. TypeOK
  BY MeshAssumption DEF Init, TypeOK
<1>2. OnTheWay /\ HopsBounded /\ NoBounce
  BY DEF Init, OnTheWay, HopsBounded, NoBounce
<1> QED BY <1>1, <1>2 DEF IInv

\* Sending a new packet, to one peer or to several, keeps the invariant.
LEMMA SendInv ==
    ASSUME IInv, NEW n \in Node, NEW id \in Id, NEW to \in Node \cup {Broadcast},
           NEW ttl \in InitialTtl, NEW targets \in SUBSET Node, sent[id] = Unsent,
           sent' = [sent EXCEPT ![id] = [to |-> to, origin |-> n, ttl |-> ttl, first |-> targets]],
           NEW new \in Copies(id, ttl, <<n>>, targets), inbox' = inbox \cup new,
           UNCHANGED <<faulty, links, delivered, flaps>>
    PROVE  IInv'
<1>1. ttl \in Nat
  BY MeshAssumption
<1>2. [to |-> to, origin |-> n, ttl |-> ttl, first |-> targets] \in Sent
  BY <1>1 DEF Sent
<1>3. sent' \in [Id -> Sent \cup {Unsent}] /\ sent \in [Id -> Sent \cup {Unsent}]
  BY <1>2 DEF IInv, TypeOK
<1>4. sent'[id].ttl = ttl /\ sent'[id] # Unsent
  <2>1. sent'[id] = [to |-> to, origin |-> n, ttl |-> ttl, first |-> targets]
    BY <1>3
  <2> QED BY <2>1 DEF Unsent
<1>5. \A c \in inbox \cup delivered : CopyOK(c, sent)
  BY CopyByCopy
<1>6. ASSUME NEW c \in inbox' \cup delivered' PROVE CopyOK(c, sent')
  <2>1. CASE c \in inbox \cup delivered
    <3>1. CopyOK(c, sent)
      BY <1>5, <2>1
    <3>2. PICK r : sent' = [sent EXCEPT ![id] = r]
      OBVIOUS
    <3>3. CopyOK(c, [sent EXCEPT ![id] = r])
      BY <1>3, <3>1, StaysOK
    <3> QED BY <3>2, <3>3
  <2>2. CASE c \in new
    <3>0. PICK start : start = <<n>>
      OBVIOUS
    <3>1. PICK m \in targets : c = [id |-> id, ttl |-> ttl, path |-> Append(start, m)]
      <4>1. new \in Copies(id, ttl, start, targets)
        BY <3>0
      <4> QED BY <2>2, <4>1, CopiesAre
    <3>2. m \in Node
      OBVIOUS
    <3> QED BY <1>1, <1>4, <3>0, <3>1, <3>2, SentOK
  <2> QED BY <2>1, <2>2
<1>7. links' \in [Node -> SUBSET Node] /\ flaps' \in 0 .. MaxFlaps
  BY DEF IInv, TypeOK
<1>8. inbox' \subseteq Copy /\ delivered' \subseteq Copy
  BY <1>6 DEF CopyOK
<1>9. OnTheWay' /\ NoBounce'
  BY <1>6 DEF CopyOK, OnTheWay, NoBounce
<1>10. HopsBounded'
  BY <1>3, <1>6, PathBounded DEF CopyOK, HopsBounded
<1>11. faulty' \in BOOLEAN
  BY Zenon DEF IInv, TypeOK
<1> QED BY <1>3, <1>7, <1>8, <1>9, <1>10, <1>11 DEF IInv, TypeOK

\* Handling a copy keeps the invariant: it is delivered as it is, or forwarded.
LEMMA HandleInv ==
    ASSUME IInv, NEW c \in inbox, handle_incoming_packet(c)
    PROVE  IInv'
<1>1. sent' = sent /\ links' = links /\ flaps' = flaps /\ faulty' = faulty
  BY DEF handle_incoming_packet
<1>2. sent \in [Id -> Sent \cup {Unsent}] /\ links \in [Node -> SUBSET Node]
  BY DEF IInv, TypeOK
<1>3. \A x \in inbox \cup delivered : CopyOK(x, sent)
  BY CopyByCopy
<1>4. delivered' \subseteq inbox \cup delivered
  BY DEF handle_incoming_packet
<1>5. ASSUME NEW x \in inbox', x \notin inbox PROVE CopyOK(x, sent)
  <2>1. c.ttl > 0 /\ forward_packet(c)
    BY <1>5 DEF handle_incoming_packet
  <2>2. PICK new \in Copies(c.id, decrement(c.ttl), c.path, Onward(c)) :
           inbox' = (inbox \ {c}) \cup new
    BY <2>1 DEF forward_packet
  <2>3. x \in new
    BY <1>5, <2>2
  <2>4. PICK m \in Onward(c) :
           x = [id |-> c.id, ttl |-> decrement(c.ttl), path |-> Append(c.path, m)]
    BY <2>2, <2>3, CopiesAre
  <2>5. CopyOK(c, sent)
    BY <1>3
  <2>6. At(c) \in Node
    BY <2>5 DEF CopyOK, Copy, At
  <2>7. m \in Node /\ m # From(c)
    BY <1>2, <2>4, <2>6 DEF Onward
  <2> QED BY <1>2, <2>1, <2>4, <2>5, <2>7, ForwardedOK
<1>6. \A x \in inbox' \cup delivered' : CopyOK(x, sent')
  BY <1>1, <1>3, <1>4, <1>5
<1>7. inbox' \subseteq Copy /\ delivered' \subseteq Copy
  BY <1>6 DEF CopyOK
<1>8. OnTheWay' /\ NoBounce'
  BY <1>6 DEF CopyOK, OnTheWay, NoBounce
<1>9. HopsBounded'
  BY <1>1, <1>2, <1>6, PathBounded DEF CopyOK, HopsBounded
<1> QED BY <1>1, <1>7, <1>8, <1>9 DEF IInv, TypeOK

\* The invariant is inductive.
LEMMA NextInv == IInv /\ [Next]_vars => IInv'
<1> SUFFICES ASSUME IInv, [Next]_vars PROVE IInv'
  OBVIOUS
<1>1. ASSUME NEW n \in Node, NEW peer \in Node, NEW to \in Node, NEW id \in Id,
             NEW ttl \in InitialTtl, send_bitchat_packet_to_peer(n, peer, id, to, ttl)
      PROVE  IInv'
  <2>1. PICK new \in Copies(id, ttl, <<n>>, {peer}) : inbox' = inbox \cup new
    BY <1>1 DEF send_bitchat_packet_to_peer
  <2> QED BY <1>1, <2>1, SendInv DEF send_bitchat_packet_to_peer
<1>2. ASSUME NEW n \in Node, NEW id \in Id, NEW ttl \in InitialTtl,
             broadcast_bitchat_packet(n, id, ttl)
      PROVE  IInv'
  <2>1. PICK new \in Copies(id, ttl, <<n>>, links[n]) : inbox' = inbox \cup new
    BY <1>2 DEF broadcast_bitchat_packet
  <2>2. links[n] \in SUBSET Node
    BY DEF IInv, TypeOK
  <2> QED BY <1>2, <2>1, <2>2, SendInv DEF broadcast_bitchat_packet
<1>3. ASSUME NEW n \in Node, Handle(n) PROVE IInv'
  BY <1>3, HandleInv DEF Handle
<1>4. ASSUME NEW n \in Node, NEW m \in Node, LinkUp(n, m) \/ LinkDown(n, m) PROVE IInv'
  <2>1. inbox' = inbox /\ delivered' = delivered /\ sent' = sent
    BY <1>4 DEF LinkUp, LinkDown
  <2>2. OnTheWay' /\ HopsBounded' /\ NoBounce'
    BY <2>1 DEF IInv, OnTheWay, HopsBounded, NoBounce
  <2>3. flaps' \in 0 .. MaxFlaps
    BY <1>4, MeshAssumption DEF LinkUp, LinkDown, IInv, TypeOK
  <2>4. links' \in [Node -> SUBSET Node]
    BY <1>4 DEF LinkUp, LinkDown, IInv, TypeOK
  <2>5. faulty' = faulty
    BY <1>4 DEF LinkUp, LinkDown
  <2> QED BY <2>1, <2>2, <2>3, <2>4, <2>5 DEF IInv, TypeOK
<1>5. CASE UNCHANGED vars
  BY <1>5 DEF vars, IInv, TypeOK, OnTheWay, HopsBounded, NoBounce
<1> QED BY <1>1, <1>2, <1>3, <1>4, <1>5 DEF Next

\* The invariant holds throughout: copies in flight or delivered are packets
\* really sent, with every hop paid for.
THEOREM Invariance == Spec => []IInv
BY InitInv, NextInv, PTL DEF Spec

\* Every variable keeps its type; in particular a TTL is never negative, so the
\* u8 of the code never wraps around (decrement).
THEOREM TypeCorrect == Spec => []TypeOK
<1>1. IInv => TypeOK
  BY DEF IInv
<1> QED BY <1>1, Invariance, PTL

\* In every mesh, with every cycle and every change of links, a packet makes at
\* most one hop more than its first TTL (forward_packet).
THEOREM HopsAreBounded == Spec => []HopsBounded
<1>1. IInv => HopsBounded
  BY DEF IInv
<1> QED BY <1>1, Invariance, PTL

\* No copy ever bounces between two nodes (forward_packet).
THEOREM NeverBounces == Spec => []NoBounce
<1>1. IInv => NoBounce
  BY DEF IInv
<1> QED BY <1>1, Invariance, PTL

\* Copies of packets stay sound in every mesh: typed, bounded in their hops and
\* never sent straight back (forward_packet).
THEOREM CopiesAreSound == Spec => []CopiesSound
BY TypeCorrect, HopsAreBounded, NeverBounces, PTL DEF CopiesSound

-----------------------------------------------------------------------------
(* The connection manager *)

\* The trail as such: what it says of a peer hangs together, and its last word on
\* a peer that is there is the state the peer is in.
SamePeer(trail, i, j) == trail[i].peer_id = trail[j].peer_id

Adjacent(trail, i, j) ==
    /\ i < j /\ SamePeer(trail, i, j)
    /\ \A k \in 1 .. Len(trail) : i < k /\ k < j => ~SamePeer(trail, i, k)

LastOf(trail, i) == \A k \in 1 .. Len(trail) : SamePeer(trail, i, k) => k <= i

Hangs(trail) ==
    \A i, j \in 1 .. Len(trail) :
        Adjacent(trail, i, j) => trail[j].from_state \in {trail[i].to_state, "Disconnected"}

Explained(s, entry) ==
    s = NoConnection \/ s.name = entry.to_state \/ s = new_disconnected

Leads(trail, conns) ==
    \A i \in 1 .. Len(trail) : LastOf(trail, i) => Explained(conns[trail[i].peer_id], trail[i])

LEMMA EntryOfPeer ==
    ASSUME NEW trail \in Seq(AuditRecord), NEW i \in 1 .. Len(trail)
    PROVE  trail[i].peer_id \in Peer
<1>1. trail[i] \in AuditRecord
    OBVIOUS
<1>2. ASSUME NEW K, NEW r \in [peer_id : Peer, from_state : StateName, to_state : StateName, event : K]
      PROVE  r.peer_id \in Peer
    OBVIOUS
<1> QED BY <1>1, <1>2 DEF AuditRecord

LEMMA TrailExplains ==
    ASSUME audit_trail \in Seq(AuditRecord)
    PROVE  AuditExplains <=> Hangs(audit_trail) /\ Leads(audit_trail, connections)
<1> DEFINE n == Len(audit_trail)
<1>1. n \in Nat /\ \A i \in 1 .. n : audit_trail[i].peer_id \in Peer
    BY EntryOfPeer
<1>2. ASSUME AuditExplains PROVE Hangs(audit_trail) /\ Leads(audit_trail, connections)
    <2>1. ASSUME NEW i \in 1 .. n, NEW j \in 1 .. n, Adjacent(audit_trail, i, j)
          PROVE  audit_trail[j].from_state \in {audit_trail[i].to_state, "Disconnected"}
        <3> DEFINE p == audit_trail[i].peer_id
        <3>1. p \in Peer /\ i \in EntriesOf(p) /\ j \in EntriesOf(p) /\ i < j
            BY <1>1, <2>1 DEF Adjacent, SamePeer, EntriesOf
        <3>2. \A k \in EntriesOf(p) : ~(i < k /\ k < j)
            BY <2>1 DEF Adjacent, SamePeer, EntriesOf
        <3> QED BY <3>1, <3>2, <1>2, Zenon DEF AuditExplains
    <2>2. ASSUME NEW i \in 1 .. n, LastOf(audit_trail, i)
          PROVE  Explained(connections[audit_trail[i].peer_id], audit_trail[i])
        <3> DEFINE p == audit_trail[i].peer_id
        <3>1. p \in Peer /\ i \in EntriesOf(p)
            BY <1>1 DEF EntriesOf
        <3>2. \A k \in EntriesOf(p) : k <= i
            BY <2>2 DEF LastOf, SamePeer, EntriesOf
        <3> QED BY <3>1, <3>2, <1>2, Zenon DEF AuditExplains, Explained, Known
    <2> QED BY <2>1, <2>2 DEF Hangs, Leads
<1>3. ASSUME Hangs(audit_trail), Leads(audit_trail, connections) PROVE AuditExplains
    <2> SUFFICES ASSUME NEW p \in Peer
                 PROVE  /\ \A i, j \in EntriesOf(p) :
                               (i < j /\ \A k \in EntriesOf(p) : ~(i < k /\ k < j)) =>
                                   audit_trail[j].from_state \in {audit_trail[i].to_state, "Disconnected"}
                        /\ \A i \in EntriesOf(p) :
                               (Known(p) /\ \A k \in EntriesOf(p) : k <= i) =>
                                   \/ connections[p].name = audit_trail[i].to_state
                                   \/ connections[p] = new_disconnected
        BY Zenon DEF AuditExplains
    <2>1. ASSUME NEW i \in EntriesOf(p), NEW j \in EntriesOf(p), i < j,
                 \A k \in EntriesOf(p) : ~(i < k /\ k < j)
          PROVE  audit_trail[j].from_state \in {audit_trail[i].to_state, "Disconnected"}
        <3>1. i \in 1 .. n /\ j \in 1 .. n /\ audit_trail[i].peer_id = p /\ audit_trail[j].peer_id = p
            BY DEF EntriesOf
        <3>2. Adjacent(audit_trail, i, j)
            BY <2>1, <3>1 DEF Adjacent, SamePeer, EntriesOf
        <3> QED BY <3>1, <3>2, <1>3, Zenon DEF Hangs
    <2>2. ASSUME NEW i \in EntriesOf(p), Known(p), \A k \in EntriesOf(p) : k <= i
          PROVE  connections[p].name = audit_trail[i].to_state \/ connections[p] = new_disconnected
        <3>1. i \in 1 .. n /\ audit_trail[i].peer_id = p
            BY DEF EntriesOf
        <3>2. LastOf(audit_trail, i)
            BY <2>2, <3>1 DEF LastOf, SamePeer, EntriesOf
        <3>3. Explained(connections[audit_trail[i].peer_id], audit_trail[i])
            BY <3>1, <3>2, <1>3, Zenon DEF Leads
        <3> QED BY <3>1, <3>3, <2>2, Zenon DEF Explained, Known
    <2> QED BY <2>1, <2>2, Zenon
<1> QED BY <1>2, <1>3

\* Forgetting the oldest entry.
LEMMA TrailTrimmed ==
    ASSUME NEW trail \in Seq(AuditRecord), NEW conns, Len(trail) > 0,
           Hangs(trail), Leads(trail, conns)
    PROVE  Hangs(Tail(trail)) /\ Leads(Tail(trail), conns)
<1> DEFINE n == Len(trail)
           t == Tail(trail)
<1>1. n \in Nat /\ n > 0 /\ Len(t) = n - 1
      /\ \A i \in 1 .. n - 1 : t[i] = trail[i + 1]
    OBVIOUS
<1> HIDE DEF t
<1>2. ASSUME NEW i \in 1 .. Len(t), NEW j \in 1 .. Len(t), Adjacent(t, i, j)
      PROVE  t[j].from_state \in {t[i].to_state, "Disconnected"}
    <2>1. i + 1 \in 1 .. n /\ j + 1 \in 1 .. n /\ t[i] = trail[i + 1] /\ t[j] = trail[j + 1]
        BY <1>1
    <2>2. i + 1 < j + 1 /\ SamePeer(trail, i + 1, j + 1)
        BY <2>1, <1>2, <1>1 DEF Adjacent, SamePeer
    <2>3. ASSUME NEW k \in 1 .. n, i + 1 < k, k < j + 1 PROVE ~SamePeer(trail, i + 1, k)
        <3>1. k - 1 \in 1 .. Len(t) /\ i < k - 1 /\ k - 1 < j /\ t[k - 1] = trail[k]
            BY <1>1, <2>1, <2>3
        <3>2. ~SamePeer(t, i, k - 1)
            BY <3>1, <1>2 DEF Adjacent
        <3> QED BY <3>1, <3>2, <2>1, Zenon DEF SamePeer
    <2>4. Adjacent(trail, i + 1, j + 1)
        BY <2>2, <2>3, Zenon DEF Adjacent
    <2> QED BY <2>1, <2>4, Zenon DEF Hangs
<1>3. ASSUME NEW i \in 1 .. Len(t), LastOf(t, i) PROVE Explained(conns[t[i].peer_id], t[i])
    <2>1. i + 1 \in 1 .. n /\ t[i] = trail[i + 1]
        BY <1>1
    <2>2. ASSUME NEW k \in 1 .. n, SamePeer(trail, i + 1, k) PROVE k <= i + 1
        <3>1. CASE k = 1
            BY <3>1, <2>1
        <3>2. CASE k # 1
            <4>1. k - 1 \in 1 .. Len(t) /\ t[k - 1] = trail[k]
                BY <1>1, <3>2
            <4>2. SamePeer(t, i, k - 1)
                BY <4>1, <2>1, <2>2, Zenon DEF SamePeer
            <4>3. k - 1 <= i
                BY <4>1, <4>2, <1>3, Zenon DEF LastOf
            <4> QED BY <4>3
        <3> QED BY <3>1, <3>2
    <2>3. LastOf(trail, i + 1)
        BY <2>2, Zenon DEF LastOf
    <2> QED BY <2>1, <2>3, Zenon DEF Leads
<1> QED BY <1>2, <1>3, Zenon DEF Hangs, Leads, t

\* Noting a transition: the entry starts where the peer was.
LEMMA TrailNoted ==
    ASSUME NEW trail \in Seq(AuditRecord), NEW conns, NEW after, NEW a \in AuditRecord,
           Hangs(trail), Leads(trail, conns),
           conns[a.peer_id] = NoConnection => a.from_state = "Disconnected",
           conns[a.peer_id] # NoConnection => a.from_state = conns[a.peer_id].name,
           after[a.peer_id].name = a.to_state,
           \A q \in Peer : q # a.peer_id => after[q] = conns[q]
    PROVE  Hangs(Append(trail, a)) /\ Leads(Append(trail, a), after)
<1> DEFINE n == Len(trail)
           t == Append(trail, a)
<1>1. /\ n \in Nat /\ Len(t) = n + 1 /\ t[n + 1] = a
      /\ \A i \in 1 .. n : t[i] = trail[i] /\ i \in 1 .. n + 1
      /\ \A i \in 1 .. n + 1 : i \in 1 .. n \/ i = n + 1
      /\ \A i \in 1 .. n : trail[i].peer_id \in Peer
    BY EntryOfPeer
<1> HIDE DEF t
<1>2. ASSUME NEW i \in 1 .. Len(t), NEW j \in 1 .. Len(t), Adjacent(t, i, j)
      PROVE  t[j].from_state \in {t[i].to_state, "Disconnected"}
    <2>0. i < j
        BY <1>2 DEF Adjacent
    <2>1. i \in 1 .. n /\ t[i] = trail[i]
        BY <1>1, <2>0
    <2>2. CASE j \in 1 .. n
        <3>1. SamePeer(trail, i, j)
            BY <1>1, <1>2, <2>1, <2>2, Zenon DEF Adjacent, SamePeer
        <3>2. \A k \in 1 .. n : i < k /\ k < j => ~SamePeer(trail, i, k)
            BY <1>1, <1>2, <2>1, Zenon DEF Adjacent, SamePeer
        <3>3. Adjacent(trail, i, j)
            BY <2>0, <3>1, <3>2, Zenon DEF Adjacent
        <3> QED BY <1>1, <2>1, <2>2, <3>3, Zenon DEF Hangs
    <2>3. CASE j = n + 1
        <3>1. trail[i].peer_id = a.peer_id
            BY <1>1, <1>2, <2>1, <2>3, Zenon DEF Adjacent, SamePeer
        <3>2. ASSUME NEW k \in 1 .. n, SamePeer(trail, i, k) PROVE k <= i
            <4>1. ~(i < k /\ k < j)
                BY <1>1, <1>2, <2>1, <3>2, Zenon DEF Adjacent, SamePeer
            <4> QED BY <4>1, <2>3, <1>1
        <3>3. LastOf(trail, i)
            BY <3>2, Zenon DEF LastOf
        <3>4. Explained(conns[a.peer_id], trail[i])
            BY <2>1, <3>1, <3>3, Zenon DEF Leads
        <3>5. a.from_state \in {trail[i].to_state, "Disconnected"}
            BY <3>4 DEF Explained, new_disconnected, Disconnected
        <3> QED BY <1>1, <2>1, <2>3, <3>5, Zenon
    <2> QED BY <1>1, <2>2, <2>3
<1>3. ASSUME NEW i \in 1 .. Len(t), LastOf(t, i) PROVE Explained(after[t[i].peer_id], t[i])
    <2>1. CASE i = n + 1
        BY <1>1, <2>1, Zenon DEF Explained
    <2>2. CASE i \in 1 .. n
        <3>1. t[i] = trail[i] /\ trail[i].peer_id \in Peer
            BY <1>1, <2>2
        <3>2. trail[i].peer_id # a.peer_id
            <4>1. SUFFICES ASSUME trail[i].peer_id = a.peer_id PROVE FALSE
                OBVIOUS
            <4>2. SamePeer(t, i, n + 1) /\ n + 1 \in 1 .. Len(t)
                BY <1>1, <3>1, <4>1 DEF SamePeer
            <4>3. n + 1 <= i
                BY <4>2, <1>3, Zenon DEF LastOf
            <4> QED BY <4>3, <2>2, <1>1
        <3>3. LastOf(trail, i)
            BY <1>1, <1>3, <2>2, <3>1, Zenon DEF LastOf, SamePeer
        <3>4. Explained(conns[trail[i].peer_id], trail[i])
            BY <2>2, <3>3, Zenon DEF Leads
        <3> QED BY <3>1, <3>2, <3>4, Zenon
    <2> QED BY <1>1, <2>1, <2>2
<1> QED BY <1>2, <1>3, Zenon DEF Hangs, Leads, t

\* Peers that go, and peers that come as new, need no entry.
LEMMA TrailStands ==
    ASSUME NEW trail \in Seq(AuditRecord), NEW conns, NEW after,
           Leads(trail, conns),
           \A q \in Peer : after[q] \in {conns[q], NoConnection, new_disconnected}
    PROVE  Leads(trail, after)
<1> SUFFICES ASSUME NEW i \in 1 .. Len(trail), LastOf(trail, i)
             PROVE  Explained(after[trail[i].peer_id], trail[i])
    BY Zenon DEF Leads
<1>1. trail[i].peer_id \in Peer
    BY EntryOfPeer
<1>2. Explained(conns[trail[i].peer_id], trail[i])
    BY Zenon DEF Leads
<1> QED BY <1>1, <1>2, Zenon DEF Explained

\* Every arm of the transition leads to a state again.
LEMMA NewStateOK ==
    ASSUME NEW s \in State, NEW e \in ConnectionEvent, NEW now \in Nat, MayTransition(s, e)
    PROVE  NewState(s, e, now) \in State
<1> USE DEF State, OptionTime, Never
<1>1. CASE e.kind = "StartDiscovery"
    <2>1. e.timeout_seconds \in TimeoutSeconds \cup {Never}
        BY <1>1 DEF ConnectionEvent, PlainKind
    <2>2. ASSUME NEW secs \in Nat \cup {Never} PROVE Deadline(now, secs) \in OptionTime
        BY DEF Deadline
    <2>3. Deadline(now, e.timeout_seconds) \in OptionTime
        BY <2>1, <2>2, TimeoutAssumption
    <2> QED BY <1>1, <2>3 DEF NewState, Discovering
<1>2. CASE e.kind = "PeerDiscovered"
    <2>1. e.transport \in TransportType
        BY <1>2 DEF ConnectionEvent, PlainKind
    <2>2. s \in [name : {"Discovering"}, discovered_transports : SUBSET TransportType,
                 discovery_timeout : OptionTime]
        BY <1>2 DEF MayTransition, Handles
    <2>3. NewState(s, e, now) = [s EXCEPT !.discovered_transports = @ \cup {e.transport}]
        BY <1>2 DEF NewState
    <2> QED BY <2>1, <2>2, <2>3
<1>3. CASE e.kind = "InitiateConnection"
    <2>1. e.transport \in TransportType /\ e.timeout_seconds \in TimeoutSeconds
        BY <1>3 DEF ConnectionEvent, PlainKind
    <2>2. ASSUME NEW secs \in Nat PROVE Deadline(now, secs) \in Nat
        BY DEF Deadline
    <2>3. Deadline(now, e.timeout_seconds) \in Nat
        BY <2>1, <2>2, TimeoutAssumption
    <2> QED BY <1>3, <2>1, <2>3 DEF NewState, Connecting
<1>4. CASE e.kind = "ConnectionEstablished"
    <2>1. s.transport \in TransportType
        BY <1>4 DEF MayTransition, Handles
    <2> QED BY <1>4, <2>1 DEF NewState, Connected
<1>5. CASE e.kind = "ActivityDetected"
    <2>1. s \in [name : {"Connected"}, transport : TransportType, last_activity : Nat]
        BY <1>5 DEF MayTransition, Handles
    <2>2. NewState(s, e, now) = [s EXCEPT !.last_activity = now]
        BY <1>5 DEF NewState
    <2> QED BY <2>1, <2>2
<1>6. CASE e.kind = "Timeout"
    BY <1>6 DEF NewState, Failed
<1>7. CASE e.kind \in {"ConnectionFailed", "ConnectionLost"}
    <2>1. s.transport \in TransportType
        BY <1>7 DEF MayTransition, Handles
    <2> QED BY <1>7, <2>1 DEF NewState, Failed
<1>8. CASE e.kind = "Disconnect"
    BY <1>8 DEF NewState, Disconnected
<1>9. CASE e.kind = "Retry"
    BY <1>9 DEF NewState, Disconnected
<1> QED
    BY <1>1, <1>2, <1>3, <1>4, <1>5, <1>6, <1>7, <1>8, <1>9 DEF ConnectionEvent, PlainKind

LEMMA StateNamed ==
    ASSUME NEW s \in State
    PROVE  s.name \in StateName /\ s # NoConnection
    BY DEF State, StateName, NoConnection

Held(conns) == {p \in Peer : conns[p] # NoConnection}

\* The peers held and those removed are no more than came; the map is finite, as
\* the counters can only say of a finite one.
CountsOK(conns, came, removed) ==
    IsFiniteSet(Held(conns)) /\ removed + Cardinality(Held(conns)) <= came

Stats == [peers_initialized : Nat, peers_removed : Nat,
          state_transitions : Nat, peers_cleaned_up : Nat]

MapsOK ==
    /\ connections \in [Peer -> State \cup {NoConnection}]
    /\ audit_trail \in Seq(AuditRecord) /\ Len(audit_trail) <= AuditLimit
    /\ stats \in Stats
    /\ Hangs(audit_trail) /\ Leads(audit_trail, connections)
    /\ CountsOK(connections, stats.peers_initialized, stats.peers_removed)

ConnInv == MapsOK /\ polled \subseteq Peer /\ conn_time \in Nat

LEMMA ConnInitInv == ConnInit => ConnInv
<1> SUFFICES ASSUME ConnInit PROVE ConnInv
    OBVIOUS
<1>1. Held(connections) = {}
    BY DEF ConnInit, Held
<1>2. stats \in Stats /\ stats.peers_removed = 0 /\ stats.peers_initialized = 0
    BY DEF ConnInit, Stats
<1>3. CountsOK(connections, stats.peers_initialized, stats.peers_removed)
    BY <1>1, <1>2, FS_EmptySet DEF CountsOK
<1>4. Hangs(audit_trail) /\ Leads(audit_trail, connections)
    BY DEF ConnInit, Hangs, Leads
<1>5. audit_trail \in Seq(AuditRecord) /\ Len(audit_trail) <= AuditLimit
    BY ManagerAssumption DEF ConnInit
<1>6. connections \in [Peer -> State \cup {NoConnection}] /\ polled \subseteq Peer /\ conn_time \in Nat
    BY DEF ConnInit
<1> QED BY <1>2, <1>3, <1>4, <1>5, <1>6 DEF ConnInv, MapsOK

\* A poll returns peers whose states take the Timeout event.
LEMMA PollAccepted == ConnInv => TimeoutAccepted
<1> SUFFICES ASSUME ConnInv, NEW p \in Peer, TimedOut(p)
             PROVE  MayTransition(connections[p], Plain("Timeout"))
    BY DEF TimeoutAccepted
<1>1. connections[p] \in State
    BY DEF ConnInv, MapsOK, TimedOut, Known
<1>2. connections[p].name \in {"Discovering", "Connecting"}
    BY <1>1, StateNamed DEF TimedOut, has_timeout, StateName
<1> QED BY <1>2 DEF MayTransition, Handles, Plain

LEMMA ConnInvSound == ConnInv => ConnectionsSound
<1> SUFFICES ASSUME ConnInv PROVE ConnectionsSound
    OBVIOUS
<1>1. ConnTypeOK
    BY DEF ConnInv, MapsOK, ConnTypeOK, Stats
<1>2. AuditExplains
    BY TrailExplains DEF ConnInv, MapsOK
<1>3. {p \in Peer : Known(p)} = Held(connections)
    BY DEF Held, Known
<1>4. RemovedOnce
    BY <1>3 DEF RemovedOnce, ConnInv, MapsOK, CountsOK
<1> QED BY <1>1, <1>2, <1>4, PollAccepted DEF ConnectionsSound

\* One peer changes; it is counted if it was not there.
LEMMA PeerComes ==
    ASSUME NEW conns, NEW after, NEW p \in Peer, NEW came \in Nat, NEW removed \in Nat,
           CountsOK(conns, came, removed),
           \A q \in Peer : q # p => after[q] = conns[q],
           NEW counted, counted = (IF conns[p] = NoConnection THEN came + 1 ELSE came)
    PROVE  CountsOK(after, counted, removed)
<1>1. Held(after) \in SUBSET (Held(conns) \cup {p})
    BY DEF Held
<1>2. IsFiniteSet(Held(conns)) /\ Cardinality(Held(conns)) \in Nat
    BY FS_CardinalityType DEF CountsOK
<1>3. /\ IsFiniteSet(Held(conns) \cup {p})
      /\ Cardinality(Held(conns) \cup {p}) =
             IF p \in Held(conns) THEN Cardinality(Held(conns)) ELSE Cardinality(Held(conns)) + 1
    BY <1>2, FS_AddElement
<1>4. /\ IsFiniteSet(Held(after)) /\ Cardinality(Held(after)) \in Nat
      /\ Cardinality(Held(after)) <= Cardinality(Held(conns) \cup {p})
    BY <1>1, <1>3, FS_Subset, FS_CardinalityType
<1>5. p \in Held(conns) <=> conns[p] # NoConnection
    BY DEF Held
<1>6. removed + Cardinality(Held(conns)) <= came
    BY DEF CountsOK
<1>7. removed + Cardinality(Held(after)) <= counted
    <2>1. CASE conns[p] = NoConnection
        BY <2>1, <1>2, <1>3, <1>4, <1>5, <1>6
    <2>2. CASE conns[p] # NoConnection
        BY <2>2, <1>2, <1>3, <1>4, <1>5, <1>6
    <2> QED BY <2>1, <2>2
<1> QED BY <1>4, <1>7 DEF CountsOK

\* Peers that are there go, and are counted as removed.
LEMMA PeersGo ==
    ASSUME NEW conns, NEW after, NEW gone \in SUBSET Held(conns), NEW came \in Nat, NEW removed \in Nat,
           CountsOK(conns, came, removed),
           \A q \in Peer : after[q] = IF q \in gone THEN NoConnection ELSE conns[q]
    PROVE  CountsOK(after, came, removed + Cardinality(gone)) /\ Cardinality(gone) \in Nat
<1>1. Held(after) = Held(conns) \ gone /\ Held(conns) \cap gone = gone
    BY DEF Held
<1>2. IsFiniteSet(Held(conns)) /\ Cardinality(Held(conns)) \in Nat
    BY FS_CardinalityType DEF CountsOK
<1>3. IsFiniteSet(gone) /\ Cardinality(gone) \in Nat
    BY <1>2, FS_Subset, FS_CardinalityType
<1>4. IsFiniteSet(Held(after)) /\ Cardinality(Held(after)) = Cardinality(Held(conns)) - Cardinality(gone)
    BY <1>1, <1>2, FS_Difference
<1>5. (removed + Cardinality(gone)) + Cardinality(Held(after)) <= came
    BY <1>2, <1>3, <1>4 DEF CountsOK
<1> QED BY <1>3, <1>4, <1>5 DEF CountsOK

LEMMA StateOfOK ==
    ASSUME ConnInv, NEW p \in Peer
    PROVE  StateOf(p) \in State
    BY DEF ConnInv, MapsOK, StateOf, Known, new_disconnected, Disconnected, State, OptionTime

LEMMA InitializedOK ==
    ASSUME ConnInv, NEW p \in Peer
    PROVE  /\ Initialized(p) \in Stats
           /\ Initialized(p).peers_initialized =
                  IF connections[p] = NoConnection THEN stats.peers_initialized + 1
                  ELSE stats.peers_initialized
           /\ Initialized(p).peers_removed = stats.peers_removed
    BY DEF ConnInv, MapsOK, Stats, Initialized, Known

LEMMA TransitionOK ==
    ASSUME ConnInv, NEW p \in Peer, NEW e \in ConnectionEvent, Transition(p, e)
    PROVE  MapsOK'
<1> DEFINE s == StateOf(p)
           new == NewState(s, e, conn_time)
           a == AuditEntry(p, s, e, conn_time)
           i == Initialized(p)
<1>0. MapsOK /\ conn_time \in Nat /\ s \in State
    BY StateOfOK DEF ConnInv
<1>1. CountsOK(connections, stats.peers_initialized, stats.peers_removed)
      /\ stats.peers_initialized \in Nat /\ stats.peers_removed \in Nat
    BY <1>0 DEF MapsOK, Stats
<1>2. /\ i \in Stats /\ i.peers_removed = stats.peers_removed
      /\ i.peers_initialized = IF connections[p] = NoConnection THEN stats.peers_initialized + 1
                               ELSE stats.peers_initialized
    BY InitializedOK
<1>3. connections \in [Peer -> State \cup {NoConnection}]
    BY <1>0 DEF MapsOK
<1> HIDE DEF s, new, a, i
<1>4. CASE MayTransition(s, e)
    <2>1. /\ connections' = [connections EXCEPT ![p] = new]
          /\ audit_trail' = Trimmed(Append(audit_trail, a))
          /\ stats' = [i EXCEPT !.state_transitions = @ + 1]
        BY <1>4 DEF Transition, s, new, a, i
    <2>2. new \in State
        BY <1>0, <1>4, NewStateOK DEF new
    <2>3. connections' \in [Peer -> State \cup {NoConnection}] /\ connections'[p] = new
          /\ \A q \in Peer : q # p => connections'[q] = connections[q]
        BY <2>1, <2>2, <1>3
    <2>4. stats' \in Stats /\ stats'.peers_removed = i.peers_removed
          /\ stats'.peers_initialized = i.peers_initialized
        BY <2>1, <1>2 DEF Stats
    <2>5. CountsOK(connections', i.peers_initialized, stats.peers_removed)
        BY <1>1, <1>2, <2>3, PeerComes
    <2>6. /\ a.peer_id = p /\ a.from_state = s.name /\ a.to_state = new.name
          /\ a \in AuditRecord
        <3>1. s.name \in StateName /\ new.name \in StateName
            BY <1>0, <2>2, StateNamed
        <3>2. e.kind \in {x.kind : x \in ConnectionEvent}
            OBVIOUS
        <3> QED BY <3>1, <3>2, Zenon DEF a, new, AuditEntry, AuditRecord
    <2>7. connections[p] = NoConnection => a.from_state = "Disconnected"
        BY <2>6 DEF s, StateOf, Known, new_disconnected, Disconnected
    <2>8. connections[p] # NoConnection => a.from_state = connections[p].name
        BY <2>6 DEF s, StateOf, Known
    <2>9. audit_trail \in Seq(AuditRecord) /\ Hangs(audit_trail) /\ Leads(audit_trail, connections)
          /\ Len(audit_trail) <= AuditLimit
        BY <1>0 DEF MapsOK
    <2> DEFINE t == Append(audit_trail, a)
    <2>10. Hangs(t) /\ Leads(t, connections')
        BY <2>3, <2>6, <2>7, <2>8, <2>9, TrailNoted
    <2>11. t \in Seq(AuditRecord) /\ Len(t) = Len(audit_trail) + 1 /\ Len(t) > 0
        BY <2>6, <2>9
    <2> HIDE DEF t
    <2>12. Hangs(Tail(t)) /\ Leads(Tail(t), connections')
        BY <2>10, <2>11, TrailTrimmed
    <2>13. Tail(t) \in Seq(AuditRecord) /\ Len(Tail(t)) = Len(audit_trail)
        BY <2>11, <2>9
    <2>14. Hangs(audit_trail') /\ Leads(audit_trail', connections') /\ audit_trail' \in Seq(AuditRecord)
        BY <2>1, <2>10, <2>11, <2>12, <2>13 DEF Trimmed, t
    <2>15. Len(audit_trail') <= AuditLimit
        BY <2>1, <2>9, <2>11, <2>13, ManagerAssumption DEF Trimmed, t
    <2>16. CountsOK(connections', stats'.peers_initialized, stats'.peers_removed)
        BY <1>2, <2>4, <2>5
    <2> QED BY <2>3, <2>4, <2>16, <2>14, <2>15 DEF MapsOK
<1>5. CASE ~MayTransition(s, e)
    <2>1. /\ connections' = [connections EXCEPT ![p] = NoConnection]
          /\ audit_trail' = audit_trail /\ stats' = i
        BY <1>5 DEF Transition, s, i
    <2>2. connections' \in [Peer -> State \cup {NoConnection}] /\ connections'[p] = NoConnection
          /\ \A q \in Peer : q # p => connections'[q] = connections[q]
        BY <2>1, <1>3
    <2>3. CountsOK(connections', stats'.peers_initialized, stats'.peers_removed)
        BY <1>1, <1>2, <2>1, <2>2, PeerComes
    <2>4. Leads(audit_trail, connections')
        BY <1>0, <2>2, TrailStands DEF MapsOK
    <2> QED BY <1>0, <1>2, <2>1, <2>2, <2>3, <2>4 DEF MapsOK
<1> QED BY <1>4, <1>5

LEMMA ConnStep == ConnInv /\ [ConnNext]_connVars => ConnInv'
<1> SUFFICES ASSUME ConnInv, [ConnNext]_connVars PROVE ConnInv'
    OBVIOUS
<1>0. /\ MapsOK /\ polled \subseteq Peer /\ conn_time \in Nat
      /\ connections \in [Peer -> State \cup {NoConnection}] /\ stats \in Stats
      /\ CountsOK(connections, stats.peers_initialized, stats.peers_removed)
      /\ stats.peers_initialized \in Nat /\ stats.peers_removed \in Nat
    BY DEF ConnInv, MapsOK, Stats
<1>1. ASSUME NEW p \in Peer, initialize_peer(p) PROVE ConnInv'
    <2> DEFINE i == Initialized(p)
    <2>1. /\ connections' = [connections EXCEPT ![p] = StateOf(p)] /\ stats' = i
          /\ audit_trail' = audit_trail /\ polled' = polled /\ conn_time' = conn_time
        BY <1>1 DEF initialize_peer
    <2>2. /\ i \in Stats /\ i.peers_removed = stats.peers_removed
          /\ i.peers_initialized = IF connections[p] = NoConnection THEN stats.peers_initialized + 1
                                   ELSE stats.peers_initialized
        BY InitializedOK
    <2> HIDE DEF i
    <2>3. StateOf(p) \in State /\ StateOf(p) \in {connections[p], new_disconnected}
        BY StateOfOK DEF StateOf
    <2>4. connections' \in [Peer -> State \cup {NoConnection}] /\ connections'[p] = StateOf(p)
          /\ \A q \in Peer : q # p => connections'[q] = connections[q]
        BY <1>0, <2>1, <2>3
    <2>5. CountsOK(connections', stats'.peers_initialized, stats'.peers_removed)
        BY <1>0, <2>1, <2>2, <2>4, PeerComes
    <2>6. Leads(audit_trail, connections')
        BY <1>0, <2>3, <2>4, TrailStands DEF MapsOK
    <2> QED BY <1>0, <2>1, <2>2, <2>4, <2>5, <2>6 DEF ConnInv, MapsOK
<1>2. ASSUME NEW p \in Peer, NEW e \in ConnectionEvent, process_connection_event(p, e) PROVE ConnInv'
    <2>1. MapsOK'
        BY <1>2, TransitionOK DEF process_connection_event
    <2> QED BY <1>0, <1>2, <2>1 DEF process_connection_event, ConnInv
<1>3. ASSUME NEW p \in Peer, remove_peer(p) PROVE ConnInv'
    <2>1. /\ connections' = [connections EXCEPT ![p] = NoConnection]
          /\ stats' = [stats EXCEPT !.peers_removed = @ + 1]
          /\ audit_trail' = audit_trail /\ polled' = polled /\ conn_time' = conn_time
          /\ {p} \in SUBSET Held(connections)
        BY <1>3 DEF remove_peer, Known, Held
    <2>2. connections' \in [Peer -> State \cup {NoConnection}]
          /\ \A q \in Peer : connections'[q] = IF q \in {p} THEN NoConnection ELSE connections[q]
        BY <1>0, <2>1
    <2>3. stats' \in Stats /\ stats'.peers_removed = stats.peers_removed + 1
          /\ stats'.peers_initialized = stats.peers_initialized
        BY <1>0, <2>1 DEF Stats
    <2>4. CountsOK(connections', stats.peers_initialized, stats.peers_removed + Cardinality({p}))
        BY <1>0, <2>1, <2>2, PeersGo
    <2>5. CountsOK(connections', stats'.peers_initialized, stats'.peers_removed)
        BY <2>3, <2>4, FS_Singleton
    <2>6. Leads(audit_trail, connections')
        BY <1>0, <2>2, TrailStands DEF MapsOK
    <2> QED BY <1>0, <2>1, <2>2, <2>3, <2>5, <2>6 DEF ConnInv, MapsOK
<1>4. CASE get_timed_out_peers
    BY <1>0, <1>4 DEF get_timed_out_peers, ConnInv, MapsOK
<1>5. ASSUME NEW p \in Peer, ApplyPolledTimeout(p) PROVE ConnInv'
    <2>1. Plain("Timeout") \in ConnectionEvent
        BY DEF Plain, ConnectionEvent, PlainKind
    <2>2. MapsOK'
        BY <1>5, <2>1, TransitionOK DEF ApplyPolledTimeout
    <2> QED BY <1>0, <1>5, <2>2 DEF ApplyPolledTimeout, ConnInv
<1>6. CASE cleanup_old_peers
    <2> DEFINE gone == {p \in Peer : Known(p) /\ Old(p)}
               n == Cardinality(gone)
    <2>1. /\ connections' = [p \in Peer |-> IF p \in gone THEN NoConnection ELSE connections[p]]
          /\ stats' = [peers_initialized |-> stats.peers_initialized,
                       peers_removed |-> stats.peers_removed + n,
                       state_transitions |-> stats.state_transitions,
                       peers_cleaned_up |-> stats.peers_cleaned_up + n]
          /\ audit_trail' = audit_trail /\ polled' = polled /\ conn_time' = conn_time
          /\ gone \in SUBSET Held(connections)
        BY <1>6 DEF cleanup_old_peers, Known, Held
    <2> HIDE DEF gone
    <2>2. connections' \in [Peer -> State \cup {NoConnection}]
          /\ \A q \in Peer : connections'[q] = IF q \in gone THEN NoConnection ELSE connections[q]
        BY <1>0, <2>1
    <2>3. n \in Nat /\ CountsOK(connections', stats.peers_initialized, stats.peers_removed + n)
        BY <1>0, <2>1, <2>2, PeersGo
    <2> HIDE DEF n
    <2>4. stats' \in Stats /\ stats'.peers_removed = stats.peers_removed + n
          /\ stats'.peers_initialized = stats.peers_initialized
        BY <1>0, <2>1, <2>3 DEF Stats
    <2>5. Leads(audit_trail, connections')
        BY <1>0, <2>2, TrailStands DEF MapsOK
    <2> QED BY <1>0, <2>1, <2>2, <2>3, <2>4, <2>5 DEF ConnInv, MapsOK
<1>7. CASE ConnTick
    BY <1>0, <1>7 DEF ConnTick, ConnInv, MapsOK
<1>8. CASE UNCHANGED connVars
    BY <1>0, <1>8 DEF connVars, ConnInv, MapsOK
<1> QED
    BY <1>1, <1>2, <1>3, <1>4, <1>5, <1>6, <1>7, <1>8 DEF ConnNext

\* For any set of peers, any timeouts and any length of the trail, and though a poll
\* may be applied long after it was made: the trail explains the map, no peer is
\* counted as removed twice, and a timeout that is reported is one the state takes
\* (process_connection_event, cleanup_old_peers, get_timed_out_peers).
THEOREM ConnectionsAreSound == ConnSpec => []ConnectionsSound
<1> QED
    BY ConnInitInv, ConnStep, ConnInvSound, PTL DEF ConnSpec

-----------------------------------------------------------------------------
(* The peer table of the BLE transport *)

BlePeer == [connection_state : {"Disconnected", "Connecting", "Connected", "Failed"},
            attempt_age : Int, retry_count : Nat]
Ad == [peer_id : BPeer, signer : BPeer, signed_name : BPeer, device_name : BPeer, age : Int]

\* A peer that connect_to_peer holds the lock for stays in the table: without that
\* the platform's answer could bring a removed peer back without an advertisement.
TableInv ==
    /\ ble_peers \in [BPeer -> BlePeer \cup {NoPeer}]
    /\ cached_peers \in [BPeer -> Nat]
    /\ ads \subseteq Ad
    /\ table_lock \in BPeer => ble_peers[table_lock] # NoPeer
    /\ CachedMatchesPeers

\* The peers of the table are the same before and after.
TableStands == \A p \in BPeer : ble_peers'[p] = NoPeer <=> ble_peers[p] = NoPeer

LEMMA PeerIsThere == \A b \in BlePeer : b # NoPeer
    BY DEF BlePeer, NoPeer

LEMMA MarkedOK ==
    ASSUME NEW b \in BlePeer, NEW s \in {"Disconnected", "Connecting", "Connected", "Failed"},
           NEW n \in Nat
    PROVE  Marked(b, s, n) \in BlePeer
    BY DEF Marked, BlePeer

\* Each action leaves the table as it is, but for the discovery of a peer and the
\* removal of stale ones.
LEMMA StandingTable ==
    ASSUME TableInv, TableStands, UNCHANGED cached_peers,
           ble_peers' \in [BPeer -> BlePeer \cup {NoPeer}], ads' \subseteq Ad,
           table_lock' \in BPeer => ble_peers[table_lock'] # NoPeer
    PROVE  TableInv' /\ CachedMatchesPeers' /\ PeersGenuine
<1>1. table_lock' \in BPeer => ble_peers'[table_lock'] # NoPeer
    BY DEF TableStands
<1>2. CachedMatchesPeers'
    BY DEF TableInv, CachedMatchesPeers, KnownPeers, TableStands
<1>3. PeersGenuine
    BY DEF PeersGenuine, TableStands
<1> QED BY <1>1, <1>2, <1>3 DEF TableInv

LEMMA OlderOK ==
    ASSUME TableInv
    PROVE  /\ Older \in [BPeer -> BlePeer \cup {NoPeer}]
           /\ \A p \in BPeer : Older[p] = NoPeer <=> ble_peers[p] = NoPeer
           /\ AgedAds \subseteq Ad
<1>1. ASSUME NEW p \in BPeer
      PROVE  Older[p] \in BlePeer \cup {NoPeer} /\ (Older[p] = NoPeer <=> ble_peers[p] = NoPeer)
    <2>0. ble_peers[p] \in BlePeer \cup {NoPeer}
        BY DEF TableInv
    <2>1. CASE p \in KnownPeers /\ ble_peers[p].attempt_age \in 0..(AgeCap - 1)
        <3>1. ble_peers[p] \in BlePeer
            BY <2>0, <2>1 DEF KnownPeers
        <3>2. Older[p] = [ble_peers[p] EXCEPT !.attempt_age = @ + 1]
            BY <2>1, Zenon DEF Older
        <3>3. Older[p] \in BlePeer
            BY <3>1, <3>2 DEF BlePeer
        <3> QED BY <3>1, <3>3, PeerIsThere
    <2>2. CASE ~(p \in KnownPeers /\ ble_peers[p].attempt_age \in 0..(AgeCap - 1))
        <3>1. Older[p] = ble_peers[p]
            BY <2>2, Zenon DEF Older
        <3> QED BY <3>1, <2>0
    <2> QED BY <2>1, <2>2
<1>2. Older \in [BPeer -> BlePeer \cup {NoPeer}]
    <2>1. Older = [p \in BPeer |-> Older[p]]
        BY DEF Older
    <2> QED BY <1>1, <2>1
<1>3. AgedAds \subseteq Ad
    BY DEF TableInv, AgedAds, Ad
<1> QED BY <1>1, <1>2, <1>3

LEMMA HangUpOK ==
    ASSUME TableInv, NEW S \in SUBSET BPeer, HangUp(S)
    PROVE  ble_peers' \in [BPeer -> BlePeer \cup {NoPeer}] /\ TableStands
<1>1. ASSUME NEW p \in BPeer
      PROVE  ble_peers'[p] \in BlePeer \cup {NoPeer} /\ (ble_peers'[p] = NoPeer <=> ble_peers[p] = NoPeer)
    <2>0. ble_peers[p] \in BlePeer \cup {NoPeer}
        BY DEF TableInv
    <2>1. CASE p \in S \cap KnownPeers /\ ble_peers[p].connection_state = "Connected"
        <3>1. ble_peers[p] \in BlePeer
            BY <2>0, <2>1 DEF KnownPeers
        <3>2. ble_peers'[p] = Marked(ble_peers[p], "Disconnected", ble_peers[p].retry_count)
            BY <2>1, Zenon DEF HangUp
        <3>3. ble_peers'[p] \in BlePeer
            BY <3>1, <3>2, MarkedOK DEF BlePeer
        <3> QED BY <3>1, <3>3, PeerIsThere
    <2>2. CASE ~(p \in S \cap KnownPeers /\ ble_peers[p].connection_state = "Connected")
        <3>1. ble_peers'[p] = ble_peers[p]
            BY <2>2, Zenon DEF HangUp
        <3> QED BY <3>1, <2>0
    <2> QED BY <2>1, <2>2
<1>2. ble_peers' = [p \in BPeer |-> ble_peers'[p]]
    BY DEF HangUp
<1> QED BY <1>1, <1>2 DEF TableStands

\* One peer of the table changes and stays.
LEMMA OneChanges ==
    ASSUME TableInv, NEW p \in BPeer, NEW b \in BlePeer, ble_peers[p] # NoPeer,
           ble_peers' = [ble_peers EXCEPT ![p] = b]
    PROVE  ble_peers' \in [BPeer -> BlePeer \cup {NoPeer}] /\ TableStands
    BY PeerIsThere DEF TableInv, TableStands

LEMMA TableInitInv == BleInit => TableInv
<1> SUFFICES ASSUME BleInit PROVE TableInv
    OBVIOUS
<1>1. table_lock \notin BPeer
    BY BleConstants DEF BleInit, Free
<1>2. CachedMatchesPeers
    BY DEF BleInit, CachedMatchesPeers, KnownPeers
<1> QED BY <1>1, <1>2 DEF BleInit, TableInv

LEMMA TableStep ==
    ASSUME TableInv, BleNext
    PROVE  TableInv' /\ CachedMatchesPeers' /\ PeersGenuine
<1>0. /\ ble_peers \in [BPeer -> BlePeer \cup {NoPeer}] /\ cached_peers \in [BPeer -> Nat]
      /\ ads \subseteq Ad /\ Free \notin BPeer
      /\ table_lock \in BPeer => ble_peers[table_lock] # NoPeer
      /\ CachedMatchesPeers
    BY BleConstants DEF TableInv, Free
<1>1. ASSUME UNCHANGED <<ble_peers, cached_peers, table_lock>>, ads' \subseteq Ad
      PROVE  TableInv' /\ CachedMatchesPeers' /\ PeersGenuine
    BY <1>0, <1>1, StandingTable DEF TableStands
<1>2. ASSUME NEW p \in BPeer, device_disconnected(p)
      PROVE  TableInv' /\ CachedMatchesPeers' /\ PeersGenuine
    <2>1. ble_peers[p] \in BlePeer /\ ble_peers[p] # NoPeer
        BY <1>0, <1>2 DEF device_disconnected, KnownPeers
    <2>2. Marked(ble_peers[p], "Disconnected", ble_peers[p].retry_count) \in BlePeer
        BY <2>1, MarkedOK DEF BlePeer
    <2>3. ble_peers' = [ble_peers EXCEPT ![p] = Marked(ble_peers[p], "Disconnected", ble_peers[p].retry_count)]
        BY <1>2, Zenon DEF device_disconnected
    <2>4. ble_peers' \in [BPeer -> BlePeer \cup {NoPeer}] /\ TableStands
        BY <2>1, <2>2, <2>3, OneChanges
    <2> QED BY <1>0, <1>2, <2>4, StandingTable DEF device_disconnected
<1>3. ASSUME NEW p \in BPeer, connect_to_peer(p)
      PROVE  TableInv' /\ CachedMatchesPeers' /\ PeersGenuine
    <2>1. ble_peers[p] \in BlePeer /\ ble_peers[p] # NoPeer
        BY <1>0, <1>3 DEF connect_to_peer, KnownPeers
    <2> DEFINE b == [connection_state |-> "Connecting", attempt_age |-> 0,
                     retry_count |-> ble_peers[p].retry_count + 1]
    <2>2. b \in BlePeer
        BY <2>1 DEF BlePeer
    <2>3. ble_peers' = [ble_peers EXCEPT ![p] = b]
        BY <1>3, Zenon DEF connect_to_peer
    <2> HIDE DEF b
    <2>4. ble_peers' \in [BPeer -> BlePeer \cup {NoPeer}] /\ TableStands
        BY <2>1, <2>2, <2>3, OneChanges
    <2> QED BY <1>0, <1>3, <2>1, <2>4, StandingTable DEF connect_to_peer
<1>4. ASSUME NEW p \in BPeer, NEW o \in {"subscribed", "unsubscribed", "no services", "refused"},
             connect_result(p, o)
      PROVE  TableInv' /\ CachedMatchesPeers' /\ PeersGenuine
    <2>1. ble_peers[p] \in BlePeer /\ ble_peers[p] # NoPeer
        BY <1>0, <1>4 DEF connect_result
    <2> DEFINE b == CASE o \in {"subscribed", "unsubscribed"} -> Marked(ble_peers[p], "Connected", 0)
                      [] o = "no services" -> Marked(ble_peers[p], "Failed", 0)
                      [] OTHER -> Marked(ble_peers[p], "Failed", ble_peers[p].retry_count)
    <2>2. b \in BlePeer
        <3>1. ble_peers[p].retry_count \in Nat
            BY <2>1 DEF BlePeer
        <3>2. /\ Marked(ble_peers[p], "Connected", 0) \in BlePeer
              /\ Marked(ble_peers[p], "Failed", 0) \in BlePeer
              /\ Marked(ble_peers[p], "Failed", ble_peers[p].retry_count) \in BlePeer
            BY <2>1, <3>1, MarkedOK
        <3> QED BY <3>2
    <2>3. ble_peers' = [ble_peers EXCEPT ![p] = b]
        BY <1>4, Zenon DEF connect_result
    <2> HIDE DEF b
    <2>4. ble_peers' \in [BPeer -> BlePeer \cup {NoPeer}] /\ TableStands
        BY <2>1, <2>2, <2>3, OneChanges
    <2> QED BY <1>0, <1>4, <2>4, StandingTable DEF connect_result
<1>5. ASSUME NEW p \in BPeer, disconnect_peer(p)
      PROVE  TableInv' /\ CachedMatchesPeers' /\ PeersGenuine
    <2>1. ble_peers' \in [BPeer -> BlePeer \cup {NoPeer}] /\ TableStands
        BY <1>5, HangUpOK DEF disconnect_peer
    <2> QED BY <1>0, <1>5, <2>1, StandingTable DEF disconnect_peer
<1>6. ASSUME disconnect_all_peers PROVE TableInv' /\ CachedMatchesPeers' /\ PeersGenuine
    <2>1. ble_peers' \in [BPeer -> BlePeer \cup {NoPeer}] /\ TableStands
        BY <1>6, HangUpOK DEF disconnect_all_peers
    <2> QED BY <1>0, <1>6, <2>1, StandingTable DEF disconnect_all_peers
<1>7. ASSUME NEW p \in BPeer, NEW q \in BPeer, NEW r \in BPeer, generate_advertising_data(p, q, r)
      PROVE  TableInv' /\ CachedMatchesPeers' /\ PeersGenuine
    <2>1. ads' \subseteq Ad
        BY <1>0, <1>7 DEF generate_advertising_data, Ad
    <2> QED BY <1>1, <1>7, <2>1 DEF generate_advertising_data
<1>8. ASSUME NEW a \in ads, process_discovery_event(a)
      PROVE  TableInv' /\ CachedMatchesPeers' /\ PeersGenuine
    <2>1. a.peer_id \in BPeer /\ a.signer = a.peer_id /\ a.device_name = a.peer_id
        BY <1>0, <1>8 DEF process_discovery_event, extract_and_verify_peer_id, VerifyAd, Ad
    <2> DEFINE x == a.peer_id
    <2>2. /\ ble_peers' = [ble_peers EXCEPT ![x] = NewPeer]
          /\ cached_peers' = [cached_peers EXCEPT ![x] = cached_peers[x] + 1]
          /\ UNCHANGED <<ads, table_lock>> /\ table_lock = Free /\ ble_peers[x] = NoPeer
        BY <1>8, <2>1 DEF process_discovery_event, KnownPeers
    <2>3. NewPeer \in BlePeer
        BY DEF NewPeer, BlePeer
    <2>4. /\ ble_peers' \in [BPeer -> BlePeer \cup {NoPeer}] /\ ble_peers'[x] # NoPeer
          /\ cached_peers' \in [BPeer -> Nat] /\ cached_peers'[x] = cached_peers[x] + 1
          /\ \A p \in BPeer : p # x => ble_peers'[p] = ble_peers[p] /\ cached_peers'[p] = cached_peers[p]
        BY <1>0, <2>1, <2>2, <2>3, PeerIsThere
    <2>5. CachedMatchesPeers'
        BY <1>0, <2>1, <2>2, <2>4 DEF CachedMatchesPeers, KnownPeers
    <2>6. PeersGenuine
        BY <2>1, <2>2, <2>4 DEF PeersGenuine
    <2> QED BY <1>0, <2>2, <2>4, <2>5, <2>6 DEF TableInv
<1>9. ASSUME perform_maintenance PROVE TableInv' /\ CachedMatchesPeers' /\ PeersGenuine
    <2>1. /\ ble_peers' = [p \in BPeer |-> IF p \in StalePeers THEN NoPeer ELSE ble_peers[p]]
          /\ cached_peers' = [p \in BPeer |-> IF p \in StalePeers THEN 0 ELSE cached_peers[p]]
          /\ UNCHANGED <<ads, table_lock>> /\ table_lock = Free
        BY <1>9 DEF perform_maintenance, RemoveCached
    <2>2. /\ ble_peers' \in [BPeer -> BlePeer \cup {NoPeer}] /\ cached_peers' \in [BPeer -> Nat]
        BY <1>0, <2>1
    <2>3. CachedMatchesPeers'
        BY <1>0, <2>1 DEF CachedMatchesPeers, KnownPeers
    <2>4. PeersGenuine
        BY <2>1 DEF PeersGenuine
    <2> QED BY <1>0, <2>1, <2>2, <2>3, <2>4 DEF TableInv
<1>10. ASSUME BleTick \/ suspended PROVE TableInv' /\ CachedMatchesPeers' /\ PeersGenuine
    <2>1. ble_peers' = Older /\ ads' = AgedAds /\ UNCHANGED <<cached_peers, table_lock>>
        BY <1>10 DEF BleTick, suspended
    <2> QED BY <1>0, <2>1, OlderOK, StandingTable DEF TableStands
<1>11. ASSUME NEW p \in BPeer, link_lost(p) \/ initiate_connection(p) \/ handle_announce_packet(p)
       PROVE  TableInv' /\ CachedMatchesPeers' /\ PeersGenuine
    BY <1>0, <1>1, <1>11 DEF link_lost, initiate_connection, handle_announce_packet
<1>12. ASSUME perform_discovery_scan PROVE TableInv' /\ CachedMatchesPeers' /\ PeersGenuine
    BY <1>0, <1>1, <1>12 DEF perform_discovery_scan
<1> QED
    BY <1>2, <1>3, <1>4, <1>5, <1>6, <1>7, <1>8, <1>9, <1>10, <1>11, <1>12, Zenon DEF BleNext

\* For any peers, and however the radio loses links, shows old or forged
\* advertisements and answers late: a peer enters the table by an advertisement of
\* its own only, and the list kept beside the table names its peers, each once
\* (process_discovery_event, perform_maintenance).
THEOREM PeerTableIsSound == BleSpec => PeerTableSound
<1>1. TableInv /\ [BleNext]_bleVars => TableInv'
    <2>1. ASSUME TableInv, UNCHANGED bleVars PROVE TableInv'
        BY <2>1 DEF bleVars, TableInv, CachedMatchesPeers, KnownPeers
    <2> QED BY <2>1, TableStep
<1>2. TableInv /\ [BleNext]_bleVars => [CachedMatchesPeers' /\ PeersGenuine]_bleVars
    BY TableStep
<1> QED
    BY <1>1, <1>2, TableInitInv, PTL DEF BleSpec, PeerTableSound

-----------------------------------------------------------------------------
(* The executor of scenarios *)

Someone == Player \cup {Stranger}
PlayerState == [sent : Int, received : Seq(Player \X Line), connected : SUBSET Someone,
                session : {"Disconnected", "Established"}]

\* A player has received exactly what was sent to it in this scenario.
HasHeard(ps, said) ==
    \A p \in Player, f \in Player, l \in Line :
        <<f, l>> \in Range(ps[p].received) <=> <<f, p, l>> \in said

\* The connections of all players agree, but for the one between p and q as p sees it.
Agree(ps) ==
    \A p \in Player :
        /\ (ps[p].session = "Established") <=> (ps[p].connected # {})
        /\ \A q \in ps[p].connected \cap Player : p \in ps[q].connected

\* Beside what RunSound says: what was heard was sent, and once checks are made no
\* step follows in the scenario, which is why a verdict cannot go stale.
RunInv ==
    /\ players \in [Player -> PlayerState]
    /\ HasHeard(players, sent_now)
    /\ Agree(players)
    /\ report.checks # {} => exec_state # "Ready" \/ steps_done = MaxSteps
    /\ report = [failed_actions |-> report.failed_actions, checks |-> report.checks, result |-> report.result]
    /\ VerdictIsFresh

LEMMA AppendRange ==
    ASSUME NEW S, NEW s \in Seq(S), NEW x \in S
    PROVE  Range(Append(s, x)) = Range(s) \cup {x}
<1> DEFINE t == Append(s, x)
<1>1. /\ Len(s) \in Nat /\ DOMAIN s = 1 .. Len(s) /\ DOMAIN t = 1 .. Len(s) + 1
      /\ \A i \in 1 .. Len(s) : t[i] = s[i]
      /\ t[Len(s) + 1] = x
    OBVIOUS
<1> HIDE DEF t
<1>2. \A y \in Range(t) : y \in Range(s) \cup {x}
    BY <1>1 DEF Range
<1>3. \A y \in Range(s) : y \in Range(t)
    BY <1>1 DEF Range
<1>4. x \in Range(t)
    BY <1>1 DEF Range
<1> QED BY <1>2, <1>3, <1>4 DEF t

LEMMA DeliverOK ==
    ASSUME RunInv, NEW from \in Player, NEW to \in SUBSET Someone, NEW line \in Line,
           players' = Deliver(from, to, line),
           Cardinality(to) \in Int,
           sent_now' = sent_now \cup {<<from, q, line>> : q \in to}
    PROVE  players' \in [Player -> PlayerState] /\ HasHeard(players', sent_now') /\ Agree(players')
<1>1. ASSUME NEW p \in Player
      PROVE  /\ players[p] \in PlayerState
             /\ players'[p] = [sent |-> players[p].sent + IF p = from THEN Cardinality(to) ELSE 0,
                               received |-> IF p \in to THEN Append(players[p].received, <<from, line>>)
                                            ELSE players[p].received,
                               connected |-> players[p].connected, session |-> players[p].session]
    BY DEF Deliver, RunInv
<1>2. ASSUME NEW p \in Player
      PROVE  /\ players'[p] \in PlayerState
             /\ p \in to => players'[p].received = Append(players[p].received, <<from, line>>)
             /\ p \notin to => players'[p].received = players[p].received
             /\ players'[p].connected = players[p].connected /\ players'[p].session = players[p].session
    <2> DEFINE n == players[p].sent + IF p = from THEN Cardinality(to) ELSE 0
               h == IF p \in to THEN Append(players[p].received, <<from, line>>) ELSE players[p].received
    <2>1. /\ players[p].sent \in Int /\ players[p].received \in Seq(Player \X Line)
          /\ players[p].connected \in SUBSET Someone
          /\ players[p].session \in {"Disconnected", "Established"}
        BY <1>1 DEF PlayerState
    <2>2. n \in Int
        BY <2>1
    <2>3. <<from, line>> \in Player \X Line
        OBVIOUS
    <2>4. h \in Seq(Player \X Line)
        BY <2>1, <2>3
    <2>5. players'[p] = [sent |-> n, received |-> h, connected |-> players[p].connected,
                        session |-> players[p].session]
        BY <1>1, Zenon
    <2> HIDE DEF n, h
    <2>6. players'[p].received = h
        BY <2>5
    <2>7. players'[p] \in PlayerState
          /\ players'[p].connected = players[p].connected /\ players'[p].session = players[p].session
        BY <2>1, <2>2, <2>4, <2>5 DEF PlayerState
    <2> QED BY <2>6, <2>7, Zenon DEF h
<1>3. players' \in [Player -> PlayerState]
    <2>1. players' = [p \in Player |-> players'[p]]
        BY DEF Deliver
    <2> QED BY <1>2, <2>1
<1>4. Agree(players')
    BY <1>2 DEF Agree, RunInv
<1>5. HasHeard(players', sent_now')
    <2> SUFFICES ASSUME NEW p \in Player, NEW f \in Player, NEW l \in Line
                 PROVE  <<f, l>> \in Range(players'[p].received) <=> <<f, p, l>> \in sent_now'
        BY Zenon DEF HasHeard
    <2>1. <<f, l>> \in Range(players[p].received) <=> <<f, p, l>> \in sent_now
        BY DEF RunInv, HasHeard
    <2>2. players[p].received \in Seq(Player \X Line) /\ <<from, line>> \in Player \X Line
        BY <1>1 DEF PlayerState
    <2>3. CASE p \in to
        <3>0. players'[p].received = Append(players[p].received, <<from, line>>)
            BY <1>2, <2>3, Zenon
        <3> DEFINE S == Player \X Line
                   h == players[p].received
                   x == <<from, line>>
        <3>a. h \in Seq(S) /\ x \in S
            BY <2>2
        <3> HIDE DEF S, h, x
        <3>b. Range(Append(h, x)) = Range(h) \cup {x}
            BY <3>a, AppendRange
        <3>1. Range(players'[p].received) = Range(players[p].received) \cup {<<from, line>>}
            BY <3>0, <3>b, Zenon DEF h, x
        <3>2. <<f, p, l>> \in sent_now' <=> <<f, p, l>> \in sent_now \/ (f = from /\ l = line)
            BY <2>3
        <3> QED BY <2>1, <3>1, <3>2
    <2>4. CASE p \notin to
        <3>1. players'[p].received = players[p].received
            BY <1>2, <2>4
        <3>2. <<f, p, l>> \in sent_now' <=> <<f, p, l>> \in sent_now
            BY <2>4
        <3> QED BY <2>1, <3>1, <3>2
    <2> QED BY <2>3, <2>4
<1> QED BY <1>3, <1>4, <1>5

\* One side of a connection or a disconnection.
Touched(ps, after, p, q, on) ==
    /\ after \in [Player -> PlayerState]
    /\ \A r \in Player :
           /\ after[r].received = ps[r].received
           /\ r # p => after[r] = ps[r]
    /\ p \in Player =>
           /\ after[p].connected = IF on = "on" THEN ps[p].connected \cup {q} ELSE ps[p].connected \ {q}
           /\ (ps[p].session = "Established" <=> ps[p].connected # {}) =>
                  (after[p].session = "Established" <=> after[p].connected # {})

LEMMA LinkedTouches ==
    ASSUME NEW ps \in [Player -> PlayerState], NEW p \in Someone, NEW q \in Someone
    PROVE  Touched(ps, PlayersLinked(ps, p, q), p, q, "on")
<1>1. CASE p \notin Player
    BY <1>1 DEF PlayersLinked, Touched
<1>2. CASE p \in Player /\ q \in ps[p].connected
    <2>1. ps[p].connected \cup {q} = ps[p].connected
        BY <1>2
    <2> QED BY <1>2, <2>1 DEF PlayersLinked, Touched
<1>3. CASE p \in Player /\ q \notin ps[p].connected
    <2> DEFINE b == Relinked(ps[p], ps[p].connected \cup {q}, "Established")
    <2>1. PlayersLinked(ps, p, q) = [ps EXCEPT ![p] = b]
        BY <1>3, Zenon DEF PlayersLinked
    <2>2. b \in PlayerState /\ b.received = ps[p].received /\ b.connected = ps[p].connected \cup {q}
          /\ b.session = "Established" /\ b.connected # {}
        BY <1>3 DEF Relinked, PlayerState
    <2> HIDE DEF b
    <2> QED BY <1>3, <2>1, <2>2 DEF Touched
<1> QED BY <1>1, <1>2, <1>3

LEMMA UnlinkedTouches ==
    ASSUME NEW ps \in [Player -> PlayerState], NEW p \in Someone, NEW q \in Someone
    PROVE  Touched(ps, Unlinked(ps, p, q), p, q, "off")
<1>1. CASE p \notin Player
    BY <1>1 DEF Unlinked, Touched
<1>2. CASE p \in Player
    <2> DEFINE b == Relinked(ps[p], ps[p].connected \ {q},
                             IF ps[p].connected \ {q} = {} THEN "Disconnected" ELSE ps[p].session)
    <2>1. Unlinked(ps, p, q) = [ps EXCEPT ![p] = b]
        BY <1>2, Zenon DEF Unlinked
    <2>2. b \in PlayerState /\ b.received = ps[p].received /\ b.connected = ps[p].connected \ {q}
          /\ b.session = (IF b.connected = {} THEN "Disconnected" ELSE ps[p].session)
        BY <1>2 DEF Relinked, PlayerState
    <2>3. (ps[p].session = "Established" <=> ps[p].connected # {}) =>
              (b.session = "Established" <=> b.connected # {})
        BY <2>2
    <2> HIDE DEF b
    <2> QED BY <1>2, <2>1, <2>2, <2>3 DEF Touched
<1> QED BY <1>1, <1>2

LEMMA BothTouched ==
    ASSUME NEW ps \in [Player -> PlayerState], NEW mid, NEW after, NEW on \in {"on", "off"},
           NEW p \in Someone, NEW q \in Someone, p # q,
           Agree(ps), Touched(ps, mid, p, q, on), Touched(mid, after, q, p, on)
    PROVE  /\ after \in [Player -> PlayerState] /\ Agree(after)
           /\ \A r \in Player : after[r].received = ps[r].received
<1>1. after \in [Player -> PlayerState] /\ \A r \in Player : after[r].received = ps[r].received
    BY DEF Touched
<1> DEFINE Now(r) == IF r = p THEN (IF on = "on" THEN ps[r].connected \cup {q} ELSE ps[r].connected \ {q})
                     ELSE IF r = q THEN (IF on = "on" THEN ps[r].connected \cup {p} ELSE ps[r].connected \ {p})
                     ELSE ps[r].connected
<1>2. ASSUME NEW r \in Player
      PROVE  /\ after[r].connected = Now(r)
             /\ (after[r].session = "Established") <=> (after[r].connected # {})
    <2>0. (ps[r].session = "Established") <=> (ps[r].connected # {})
        BY DEF Agree
    <2>1. CASE r = p
        <3>1. after[r] = mid[r]
            BY <2>1 DEF Touched
        <3> QED BY <2>0, <2>1, <3>1 DEF Touched
    <2>2. CASE r = q
        <3>1. mid[r] = ps[r]
            BY <2>2 DEF Touched
        <3> QED BY <2>0, <2>2, <3>1 DEF Touched
    <2>3. CASE r # p /\ r # q
        <3>1. after[r] = ps[r]
            BY <2>3 DEF Touched
        <3> QED BY <2>0, <2>3, <3>1
    <2> QED BY <2>1, <2>2, <2>3
<1>3. ASSUME NEW r \in Player, NEW x \in Player, x \in Now(r) PROVE r \in Now(x)
    <2>1. x \in ps[r].connected => r \in ps[x].connected
        BY DEF Agree
    <2> QED BY <1>3, <2>1
<1> HIDE DEF Now
<1>4. Agree(after)
    BY <1>2, <1>3 DEF Agree
<1> QED BY <1>1, <1>4

LEMMA AgreeIsConnectionsAgree == Agree(players) <=> ConnectionsAgree
    BY DEF Agree, ConnectionsAgree

LEMMA RunInitInv == RunInit => RunInv
<1> SUFFICES ASSUME RunInit PROVE RunInv
    OBVIOUS
<1>1. ASSUME NEW p \in Player
      PROVE  /\ players[p] \in PlayerState /\ players[p].received = <<>>
             /\ players[p].connected = {} /\ players[p].session = "Disconnected"
    BY DEF RunInit, NewPlayer, PlayerState
<1>2. players \in [Player -> PlayerState]
    BY <1>1 DEF RunInit
<1>3. HasHeard(players, sent_now)
    BY <1>1 DEF RunInit, HasHeard, Range
<1>4. Agree(players)
    BY <1>1 DEF Agree
<1>5. report.checks = {} /\ report = [failed_actions |-> report.failed_actions, checks |-> report.checks,
                                      result |-> report.result]
    BY DEF RunInit, NewReport
<1> QED BY <1>2, <1>3, <1>4, <1>5 DEF RunInv, VerdictIsFresh

\* A step of a scenario: it changes no check, and none was made.
LEMMA StepKeeps ==
    ASSUME RunInv, NEW t, NEW d, Step(t, d),
           players' \in [Player -> PlayerState], HasHeard(players', sent_now'), Agree(players'),
           report' = report \/ report' = [report EXCEPT !.failed_actions = @ + 1]
    PROVE  RunInv'
<1>1. report.checks = {}
    BY RunConstants DEF RunInv, Step
<1>2. report'.checks = {}
      /\ report' = [failed_actions |-> report'.failed_actions, checks |-> report'.checks,
                    result |-> report'.result]
    BY <1>1 DEF RunInv
<1> QED BY <1>2 DEF RunInv, VerdictIsFresh

LEMMA SameMap ==
    ASSUME RunInv, UNCHANGED <<players, sent_now>>
    PROVE  players' \in [Player -> PlayerState] /\ HasHeard(players', sent_now') /\ Agree(players')
    BY DEF RunInv

LEMMA SameHeard ==
    ASSUME RunInv, NEW after, sent_now' = sent_now, players' = after,
           \A r \in Player : after[r].received = players[r].received
    PROVE  HasHeard(players', sent_now')
    BY DEF RunInv, HasHeard

LEMMA VerdictMade ==
    ASSUME RunInv, NEW c \in Check, final_check(c)
    PROVE  VerdictIsFresh'
<1>1. sent_now' = sent_now
      /\ report'.checks = {[check |-> c, passed |-> CheckPasses(c)]}
    BY DEF final_check
<1>2. ASSUME c.kind = "MessageDelivered"
      PROVE  CheckPasses(c) <=> <<c.from, c.of, c.line>> \in sent_now /\ c.of \in Player
    <2>1. c.from \in Player /\ c.line \in Line
        BY <1>2 DEF Check, AlwaysPassed
    <2>2. CheckPasses(c) <=> c.of \in Player /\ <<c.from, c.line>> \in Range(players[c.of].received)
        BY <1>2 DEF CheckPasses, AlwaysPassed
    <2> QED BY <2>1, <2>2 DEF RunInv, HasHeard
<1>3. ASSUME NEW r \in report'.checks, r.check.kind = "MessageDelivered"
      PROVE  r.passed <=> <<r.check.from, r.check.of, r.check.line>> \in sent_now' /\ r.check.of \in Player
    <2>1. r = [check |-> c, passed |-> CheckPasses(c)]
        BY <1>1, <1>3
    <2>2. r.check = c /\ r.passed = CheckPasses(c)
        BY <2>1
    <2> QED BY <1>1, <1>2, <1>3, <2>2, Zenon
<1> QED BY <1>3, Zenon DEF VerdictIsFresh

LEMMA RunStep == RunInv /\ [RunNext]_runVars => RunInv'
<1> SUFFICES ASSUME RunInv, [RunNext]_runVars PROVE RunInv'
    OBVIOUS
<1>0. players \in [Player -> PlayerState] /\ Agree(players)
    BY DEF RunInv
<1>1. CASE scenario_setup
    <2>1. ASSUME NEW p \in Player
          PROVE  /\ players'[p] \in PlayerState /\ players'[p].received = <<>>
                 /\ players'[p].connected = {} /\ players'[p].session = "Disconnected"
        BY <1>1 DEF scenario_setup, NewPlayer, PlayerState
    <2>2. players' \in [Player -> PlayerState]
        BY <1>1, <2>1 DEF scenario_setup
    <2>3. HasHeard(players', sent_now')
        BY <1>1, <2>1 DEF scenario_setup, HasHeard, Range
    <2>4. Agree(players')
        BY <2>1 DEF Agree
    <2>5. report'.checks = {} /\ report' = [failed_actions |-> report'.failed_actions,
                                            checks |-> report'.checks, result |-> report'.result]
        BY <1>1 DEF scenario_setup, NewReport
    <2> QED BY <2>2, <2>3, <2>4, <2>5 DEF RunInv, VerdictIsFresh
<1>2. CASE scenario_cleanup
    BY <1>2 DEF scenario_cleanup, RunInv, VerdictIsFresh
<1>3. ASSUME NEW c \in Check, final_check(c) PROVE RunInv'
    <2>1. /\ UNCHANGED <<players, sent_now>> /\ steps_done' = MaxSteps
          /\ report' = [failed_actions |-> report'.failed_actions, checks |-> report'.checks,
                        result |-> report'.result]
        BY <1>3 DEF final_check
    <2> QED BY <1>3, <2>1, SameMap, VerdictMade DEF RunInv
<1>4. ASSUME NEW t \in StepTime, NEW p \in Someone, NEW q \in Someone, p # q, connect_peers(t, p, q)
      PROVE  RunInv'
    <2> DEFINE mid == PlayersLinked(players, p, q)
               after == PlayersLinked(mid, q, p)
    <2>1. Touched(players, mid, p, q, "on")
        BY <1>0, LinkedTouches
    <2>2. mid \in [Player -> PlayerState]
        BY <2>1 DEF Touched
    <2> HIDE DEF mid
    <2>3. Touched(mid, after, q, p, "on")
        BY <2>2, LinkedTouches
    <2>4. players' = after /\ sent_now' = sent_now /\ report' = report /\ Step(t, HandshakeTime)
        BY <1>4 DEF connect_peers, mid
    <2> HIDE DEF after
    <2>5. after \in [Player -> PlayerState] /\ Agree(after)
          /\ \A r \in Player : after[r].received = players[r].received
        BY <1>0, <1>4, <2>1, <2>3, BothTouched
    <2> QED BY <2>4, <2>5, SameHeard, StepKeeps
<1>5. ASSUME NEW t \in StepTime, NEW p \in Someone, NEW q \in Someone, p # q, disconnect_peers(t, p, q)
      PROVE  RunInv'
    <2> DEFINE mid == Unlinked(players, p, q)
               after == Unlinked(mid, q, p)
    <2>1. Touched(players, mid, p, q, "off")
        BY <1>0, UnlinkedTouches
    <2>2. mid \in [Player -> PlayerState]
        BY <2>1 DEF Touched
    <2> HIDE DEF mid
    <2>3. Touched(mid, after, q, p, "off")
        BY <2>2, UnlinkedTouches
    <2>4. players' = after /\ sent_now' = sent_now /\ report' = report /\ Step(t, 0)
        BY <1>5 DEF disconnect_peers, mid
    <2> HIDE DEF after
    <2>5. after \in [Player -> PlayerState] /\ Agree(after)
          /\ \A r \in Player : after[r].received = players[r].received
        BY <1>0, <1>5, <2>1, <2>3, BothTouched
    <2> QED BY <2>4, <2>5, SameHeard, StepKeeps
<1>6. ASSUME NEW t \in StepTime, NEW p \in Someone, NEW q \in Someone, NEW l \in Line,
             send_message(t, p, q, l)
      PROVE  RunInv'
    <2>1. CASE p \notin Player
        <3>1. /\ report' = [report EXCEPT !.failed_actions = @ + 1] /\ UNCHANGED <<players, sent_now>>
              /\ Step(t, 0)
            BY <1>6, <2>1 DEF send_message
        <3> QED BY <3>1, SameMap, StepKeeps
    <2>2. CASE p \in Player
        <3>1. /\ players' = Deliver(p, {q}, l) /\ sent_now' = sent_now \cup {<<p, q, l>>}
              /\ report' = report /\ Step(t, BaseLatency)
            BY <1>6, <2>2 DEF send_message
        <3>2. sent_now' = sent_now \cup {<<p, x, l>> : x \in {q}}
            BY <3>1
        <3>3. Cardinality({q}) \in Int
            <4>1. Cardinality({q}) = 1
                BY FS_Singleton, Zenon
            <4> QED BY <4>1
        <3>4. players' \in [Player -> PlayerState] /\ HasHeard(players', sent_now') /\ Agree(players')
            BY <2>2, <3>1, <3>2, <3>3, DeliverOK
        <3> QED BY <3>1, <3>4, StepKeeps
    <2> QED BY <2>1, <2>2
<1>7. ASSUME NEW t \in StepTime, NEW p \in Someone, NEW l \in Line, send_broadcast(t, p, l)
      PROVE  RunInv'
    <2> DEFINE others == Player \ {p}
    <2>1. CASE p \notin Player
        <3>1. /\ report' = [report EXCEPT !.failed_actions = @ + 1] /\ UNCHANGED <<players, sent_now>>
              /\ Step(t, 0)
            BY <1>7, <2>1 DEF send_broadcast
        <3> QED BY <3>1, SameMap, StepKeeps
    <2>2. CASE p \in Player
        <3>1. /\ players' = Deliver(p, others, l) /\ sent_now' = sent_now \cup {<<p, x, l>> : x \in others}
              /\ report' = report /\ Step(t, BaseLatency * Cardinality(others))
            BY <1>7, <2>2 DEF send_broadcast
        <3>2. Cardinality(others) \in Int /\ others \in SUBSET Someone
            <4>1. IsFiniteSet(others)
                BY RunConstants, FS_RemoveElement, Zenon
            <4>2. Cardinality(others) \in Nat
                BY <4>1, FS_CardinalityType, Zenon
            <4> QED BY <4>2 DEF Someone
        <3> HIDE DEF others
        <3>3. players' \in [Player -> PlayerState] /\ HasHeard(players', sent_now') /\ Agree(players')
            BY <2>2, <3>1, <3>2, DeliverOK
        <3> QED BY <3>1, <3>3, StepKeeps
    <2> QED BY <2>1, <2>2
<1>8. ASSUME NEW t \in StepTime, NEW d \in {0, HandshakeTime}, other_step(t, d) PROVE RunInv'
    <2>1. UNCHANGED <<players, sent_now, report>> /\ Step(t, d)
        BY <1>8 DEF other_step
    <2> QED BY <2>1, SameMap, StepKeeps
<1>9. CASE UNCHANGED runVars
    BY <1>9 DEF runVars, RunInv, VerdictIsFresh
<1> QED
    BY <1>1, <1>2, <1>3, <1>4, <1>5, <1>6, <1>7, <1>8, <1>9 DEF RunNext, Someone

\* For any scenarios, players and lines: a verdict is about what was sent in that
\* very scenario, and the players agree on their connections (setup,
\* validate_checks, execute_action).
THEOREM RunsAreSound == RunSpec => []RunSound
<1>1. RunInv => RunSound
    BY AgreeIsConnectionsAgree DEF RunInv, RunSound
<1> QED
    BY <1>1, RunInitInv, RunStep, PTL DEF RunSpec

-----------------------------------------------------------------------------
(* The choice of a transport *)

Healthy(choice) == \A t \in choice.transports : is_transport_healthy(t)

LEMMA ChoicesHealthy ==
    /\ Healthy(Queue) /\ Healthy(CannotSend)
    /\ \A t : Healthy(UseIfHealthy(t))
    /\ \A t : is_transport_healthy(t) => Healthy(Use({t}))
    BY DEF Healthy, Queue, CannotSend, UseIfHealthy, Use

LEMMA PeerChoiceHealthy ==
    ASSUME NEW p, strategy \in Strategy
    PROVE  Healthy(select_transport_for_peer(p))
<1> PICK r : r = peer_reachability[p]
    OBVIOUS
<1>1. Usable(r) \subseteq Transport /\ \A t \in Usable(r) : is_transport_healthy(t)
    BY DEF Usable
<1>2. Usable(r) # {} /\ "Ble" \notin Usable(r) => "Nostr" \in Usable(r)
    BY <1>1 DEF Transport
<1>3. Healthy(Use(Usable(r)))
    BY <1>1 DEF Healthy, Use
<1>4. CASE strategy = "PreferPrimary"
    BY <1>1, <1>2, <1>4, ChoicesHealthy DEF select_transport_for_peer
<1>5. CASE strategy = "LoadBalance"
    BY <1>5, ChoicesHealthy DEF select_transport_for_peer
<1>6. CASE strategy = "BroadcastAll"
    BY <1>3, <1>6, ChoicesHealthy DEF select_transport_for_peer
<1> QED BY <1>4, <1>5, <1>6 DEF Strategy

LEMMA RoutesHealthy ==
    ASSUME NEW c, strategy \in Strategy
    PROVE  Healthy(route_message(c))
<1>1. Healthy(select_transport(c))
    BY ChoicesHealthy, PeerChoiceHealthy DEF select_transport
<1>2. Healthy(select_by_performance(c))
    BY ChoicesHealthy DEF select_by_performance
<1>3. ASSUME NEW r PROVE Healthy(apply_routing_rule(r))
    BY ChoicesHealthy DEF apply_routing_rule, Trusted
<1>4. Healthy(select_transport_advanced(c))
    BY <1>1, <1>2, <1>3 DEF select_transport_advanced
<1> QED BY <1>1, <1>4 DEF route_message

LEMMA RoutesReach ==
    ASSUME NEW p \in RoutedPeer, ~wrapped, strategy \in Strategy, strategy # "LoadBalance",
           peer_reachability[p] # NoReach
    PROVE  \A t \in route_message(p).transports : Reaches(peer_reachability[p], t)
<1> PICK r : r = peer_reachability[p]
    OBVIOUS
<1>1. route_message(p) = select_transport_for_peer(p)
    BY RoutedAssumption DEF route_message, select_transport
<1>2. Usable(r) \subseteq Transport /\ \A t \in Usable(r) : Reaches(r, t)
    BY DEF Usable
<1>3. Usable(r) # {} /\ "Ble" \notin Usable(r) => "Nostr" \in Usable(r)
    BY <1>2 DEF Transport
<1>4. CASE strategy = "PreferPrimary"
    BY <1>1, <1>2, <1>3, <1>4 DEF select_transport_for_peer, Use, Queue
<1>5. CASE strategy = "BroadcastAll"
    BY <1>1, <1>2, <1>5 DEF select_transport_for_peer, Use, Queue
<1> QED BY <1>4, <1>5 DEF Strategy

\* A transport that is not waited for has no check under way.
RouteInv ==
    /\ strategy \in Strategy
    /\ outstanding \in [Transport -> 0 .. 1]
    /\ \A t \in Transport \ pending_checks : outstanding[t] = 0

LEMMA RouteInitInv == RouteInit => RouteInv
    BY DEF RouteInit, RouteInv, Strategy

LEMMA RouteStep == RouteInv /\ [RouteNext]_routeVars => RouteInv'
<1> SUFFICES ASSUME RouteInv, [RouteNext]_routeVars PROVE RouteInv'
    OBVIOUS
<1>1. ASSUME UNCHANGED <<strategy, outstanding, pending_checks>> PROVE RouteInv'
    BY <1>1 DEF RouteInv
<1>2. ASSUME NEW t \in Transport, UNCHANGED strategy, outstanding[t] > 0,
             outstanding' = [outstanding EXCEPT ![t] = @ - 1],
             pending_checks' \in {pending_checks, pending_checks \ {t}}
      PROVE  RouteInv'
    BY <1>2 DEF RouteInv
<1>3. ASSUME NEW t \in Transport, NEW ok, NEW l, process_health_check_result(t, ok, l) PROVE RouteInv'
    BY <1>2, <1>3 DEF process_health_check_result, settings
<1>4. ASSUME NEW t \in Transport, CheckLost(t) PROVE RouteInv'
    BY <1>2, <1>4 DEF CheckLost, settings
<1>5. CASE check_health_monitoring
    BY <1>5 DEF check_health_monitoring, settings, RouteInv, Triggered
<1>6. ASSUME NEW t, NEW ok, update_transport_status(t, ok) \/ process_transport_status(t, ok)
      PROVE  RouteInv'
    BY <1>1, <1>6 DEF update_transport_status, process_transport_status, settings, monitorVars
<1>7. ASSUME NEW p, NEW ble, NEW nostr, update_peer_reachability(p, ble, nostr) PROVE RouteInv'
    BY <1>1, <1>7 DEF update_peer_reachability, settings, monitorVars
<1>8. ASSUME NEW r, add_routing_rule(r) PROVE RouteInv'
    BY <1>1, <1>8 DEF add_routing_rule, settings
<1>9. ASSUME NEW c, queue_message(c) PROVE RouteInv'
    BY <1>1, <1>9 DEF queue_message, settings
<1>10. CASE process_message_queue \/ RouteTick
    BY <1>1, <1>10 DEF process_message_queue, RouteTick, settings, monitorVars
<1>11. CASE UNCHANGED routeVars
    BY <1>1, <1>11 DEF routeVars
<1> QED
    BY <1>3, <1>4, <1>5, <1>6, <1>7, <1>8, <1>9, <1>10, <1>11 DEF RouteNext

\* Whichever manager, strategy, rule or score decides, and however reports and health
\* checks arrive: messages go to transports that are up and, where that is known and
\* asked for, reach the peer, and no transport is checked twice at a time
\* (route_message, check_health_monitoring).
THEOREM RoutesAreSound == RouteSpec => []RoutingSound
<1>1. RouteInv => RoutingSound
    <2> SUFFICES ASSUME RouteInv PROVE RoutingSound
        OBVIOUS
    <2>1. RoutedToHealthy
        BY RoutesHealthy DEF RouteInv, RoutedToHealthy, Healthy, is_transport_healthy
    <2>2. RoutedToReachable
        BY RoutesReach DEF RouteInv, RoutedToReachable
    <2>3. OneCheckAtATime
        BY DEF RouteInv, OneCheckAtATime
    <2> QED BY <2>1, <2>2, <2>3 DEF RoutingSound
<1> QED
    BY <1>1, RouteInitInv, RouteStep, PTL DEF RouteSpec

-----------------------------------------------------------------------------
(* The rate limiter *)

\* Windows are finite, so that counting them means something.
FiniteWindows ==
    /\ \A k \in Kind : IsFiniteSet(global[k])
    /\ \A p \in Tracked, k \in Kind : IsFiniteSet(peers[p].windows[k])

\* No event of a tracked peer is later than its last access.
AccessKept ==
    /\ \A p \in RatePeer, k \in Kind : \A e \in accepted[k][p] : e.at <= rate_time
    /\ \A p \in Tracked, k \in Kind : \A e \in accepted[k][p] : e.at <= peers[p].last_access
    /\ \A p \in Tracked : peers[p].last_access <= rate_time

\* What was allowed and still counts is in the global window, and in the window of its
\* peer as long as that was not evicted.
Covered ==
    /\ \A k \in Kind : InWindow(Allowed(k), rate_time) \subseteq global[k]
    /\ \A p \in RatePeer \ evicted, k \in Kind :
           InWindow(accepted[k][p], rate_time)
               \subseteq (IF p \in Tracked THEN peers[p].windows[k] ELSE {})

RateInv == RatesKept /\ FiniteWindows /\ AccessKept /\ Covered

\* The assumption, limit by limit.
LEMMA LimitsTyped ==
    /\ PeerLimit \in Nat /\ GlobalLimit \in Nat /\ MaxTracked \in Nat /\ MaxRateTime \in Nat
    /\ MaxCalls \in Nat /\ Window \in Nat /\ Window >= 1 /\ IsFiniteSet(RatePeer)
BY LimiterAssumption

\* An entry of the table is not the absence of one.
LEMMA TrackedIs == \A x \in Limits : x # Untracked /\ x.last_access \in Nat
    /\ x.windows \in [Kind -> SUBSET RateEvent]
<1> TAKE x \in Limits
<1>1. x.last_access \in Nat /\ x.windows \in [Kind -> SUBSET RateEvent]
  BY DEF Limits
<1>2. Untracked.last_access = -1
  BY DEF Untracked
<1>3. x # Untracked
  BY <1>1, <1>2
<1> QED BY <1>1, <1>3

\* Before the first check every window is empty.
LEMMA RateInitInv == RateInit => RateInv
<1> SUFFICES ASSUME RateInit PROVE RateInv
  OBVIOUS
<1> USE DEF RateInit
<1>1. Tracked = {}
  BY DEF Tracked
<1>2. \A k \in Kind : Allowed(k) = {}
  BY DEF Allowed
<1>3. \A k \in Kind, t \in 0 .. rate_time :
          /\ InWindow(Allowed(k), t) = {}
          /\ \A p \in RatePeer : InWindow(accepted[k][p], t) = {}
  BY <1>2 DEF InWindow
<1>4. RateTypeOK
  <2>1. \A k \in Kind : global[k] = {}
    OBVIOUS
  <2>2. global \in [Kind -> SUBSET RateEvent] /\ accepted \in [Kind -> [RatePeer -> SUBSET RateEvent]]
    OBVIOUS
  <2>3. rate_time \in Nat /\ calls \in 0 .. MaxCalls /\ evicted \subseteq RatePeer
    BY LimitsTyped
  <2>4. peers \in [RatePeer -> Limits \cup {Untracked}]
    OBVIOUS
  <2> QED BY <2>1, <2>2, <2>3, <2>4 DEF RateTypeOK
<1>5. GlobalRate /\ PeerRate /\ TrackedBounded
  <2>1. GlobalRate
    <3> SUFFICES ASSUME NEW k \in Kind, NEW t \in 0 .. rate_time
                 PROVE  Cardinality(InWindow(Allowed(k), t)) <= GlobalLimit
      BY DEF GlobalRate
    <3> HIDE DEF RateInit
    <3> QED BY <1>3, FS_EmptySet, LimitsTyped
  <2>2. PeerRate
    <3> SUFFICES ASSUME NEW p \in RatePeer, NEW k \in Kind, NEW t \in 0 .. rate_time
                 PROVE  Cardinality(InWindow(accepted[k][p], t)) <= PeerLimit
      BY DEF PeerRate
    <3> HIDE DEF RateInit
    <3> QED BY <1>3, FS_EmptySet, LimitsTyped
  <2>3. TrackedBounded
    BY <1>1, FS_EmptySet, LimitsTyped DEF TrackedBounded
  <2> QED BY <2>1, <2>2, <2>3
<1>6. FiniteWindows /\ AccessKept
  BY <1>1, FS_EmptySet DEF FiniteWindows, AccessKept
<1>7. Covered
  BY <1>1, <1>3 DEF Covered
<1> QED BY <1>4, <1>5, <1>6, <1>7 DEF RateInv, RatesKept

\* A clean-up leaves recent peers only, and no more than the table has room for.
LEMMA SurvivorsFew ==
    ASSUME RateInv, NEW kept \in Survivors
    PROVE  kept \subseteq Recent /\ IsFiniteSet(kept) /\ Cardinality(kept) <= MaxTracked
<1>1. IsFiniteSet(Recent)
  <2>1. Recent \subseteq RatePeer
    BY DEF Recent, Tracked
  <2> QED BY <2>1, LimitsTyped, FS_Subset
<1> DEFINE excess == IF Cardinality(Recent) > MaxTracked THEN Cardinality(Recent) - MaxTracked ELSE 0
<1>2. PICK out \in SUBSET Recent : kept = Recent \ out /\ Cardinality(out) = excess
  BY DEF Survivors
<1>3. IsFiniteSet(kept) /\ Cardinality(kept) = Cardinality(Recent) - Cardinality(Recent \cap out)
  BY <1>1, <1>2, FS_Difference
<1>4. Recent \cap out = out
  BY <1>2
<1>5. Cardinality(Recent) \in Nat
  BY <1>1, FS_CardinalityType
<1> QED BY <1>2, <1>3, <1>4, <1>5, LimitsTyped

\* A peer that was not recent has nothing left that counts.
LEMMA QuietPeers ==
    ASSUME RateInv, NEW p \in Tracked, p \notin Recent, NEW k \in Kind
    PROVE  InWindow(accepted[k][p], rate_time) = {}
<1>1. p \in RatePeer /\ peers[p] \in Limits /\ peers[p].last_access \in Nat /\ rate_time \in Nat
  BY TrackedIs DEF RateInv, RatesKept, RateTypeOK, Tracked
<1>2. rate_time - peers[p].last_access >= 2 * Window
  BY <1>1, LimitsTyped DEF Recent
<1>3. ASSUME NEW e \in accepted[k][p] PROVE rate_time - e.at > Window
  <2>1. e \in RateEvent
    BY <1>1 DEF RateInv, RatesKept, RateTypeOK
  <2>2. e.at \in Nat /\ e.at <= peers[p].last_access
    BY <2>1 DEF RateInv, AccessKept, RateEvent
  <2> QED BY <1>1, <1>2, <2>2, LimitsTyped
<1>4. \A e \in accepted[k][p] : e.at \in Nat
  BY <1>1 DEF RateInv, RatesKept, RateTypeOK, RateEvent
<1> QED BY <1>1, <1>3, <1>4, LimitsTyped DEF InWindow

\* What a clean-up leaves of the table, and what it still remembers.
LEMMA KeepOK ==
    ASSUME RateInv, NEW kept \in Survivors, NEW q \in RatePeer
    PROVE  /\ Keep(kept)[q] \in Limits \cup {Untracked}
           /\ Keep(kept)[q] # Untracked <=> q \in kept
           /\ q \in kept => q \in Tracked /\ Keep(kept)[q] = peers[q]
           /\ q \notin evicted \cup (Recent \ kept) =>
                  \A k \in Kind : InWindow(accepted[k][q], rate_time)
                                      \subseteq (IF q \in kept THEN peers[q].windows[k] ELSE {})
<1>1. kept \subseteq Recent /\ Recent \subseteq Tracked
  BY SurvivorsFew DEF Recent
<1>2. peers[q] \in Limits \cup {Untracked}
  BY DEF RateInv, RatesKept, RateTypeOK
<1>3. Keep(kept)[q] = IF q \in kept THEN peers[q] ELSE Untracked
  BY DEF Keep
<1>4. q \in kept => peers[q] # Untracked
  BY <1>1 DEF Tracked
<1>5. ASSUME q \notin evicted \cup (Recent \ kept), NEW k \in Kind
      PROVE  InWindow(accepted[k][q], rate_time)
                 \subseteq (IF q \in kept THEN peers[q].windows[k] ELSE {})
  <2>1. CASE q \in kept
    BY <1>1, <1>5, <2>1 DEF RateInv, Covered
  <2>2. CASE q \notin kept /\ q \in Tracked
    BY <1>5, <2>2, QuietPeers
  <2>3. CASE q \notin Tracked
    BY <1>1, <1>5, <2>3 DEF RateInv, Covered
  <2> QED BY <2>1, <2>2, <2>3
<1> QED BY <1>1, <1>2, <1>3, <1>4, <1>5

\* The global window after a check or a clean-up: what is left is what still counts.
LEMMA CleanupOK ==
    ASSUME RateInv, NEW k \in Kind
    PROVE  /\ IsFiniteSet(Cleanup(global[k])) /\ IsFiniteSet(add_event(global[k], NewEvent))
           /\ InWindow(Allowed(k), rate_time) \subseteq Cleanup(global[k])
           /\ Cleanup(global[k]) \subseteq add_event(global[k], NewEvent)
           /\ NewEvent \in add_event(global[k], NewEvent)
           /\ NewEvent \in RateEvent /\ NewEvent.at = rate_time /\ NewEvent.check = calls + 1
           /\ add_event(global[k], NewEvent) \subseteq global[k] \cup {NewEvent}
           /\ Cleanup(global[k]) \subseteq global[k]
<1>1. rate_time \in Nat /\ calls \in Nat /\ IsFiniteSet(global[k])
  BY LimitsTyped DEF RateInv, RatesKept, RateTypeOK, FiniteWindows
<1>2. NewEvent \in RateEvent /\ NewEvent.at = rate_time /\ NewEvent.check = calls + 1
  BY <1>1 DEF NewEvent, RateEvent
<1>3. IsFiniteSet(global[k] \cup {NewEvent})
  BY <1>1, FS_AddElement
<1>4. Cleanup(global[k]) \subseteq global[k]
  BY DEF Cleanup
<1>5. add_event(global[k], NewEvent) \subseteq global[k] \cup {NewEvent}
  BY DEF add_event, Cleanup
<1>6. IsFiniteSet(Cleanup(global[k])) /\ IsFiniteSet(add_event(global[k], NewEvent))
  BY <1>1, <1>3, <1>4, <1>5, FS_Subset
<1>7. InWindow(Allowed(k), rate_time) \subseteq Cleanup(global[k])
  BY DEF RateInv, Covered, InWindow, Cleanup
<1>8. Cleanup(global[k]) \subseteq add_event(global[k], NewEvent)
  BY DEF add_event, Cleanup
<1>9. NewEvent \in add_event(global[k], NewEvent)
  BY <1>1, <1>2, LimitsTyped DEF add_event, Cleanup
<1> QED BY <1>2, <1>4, <1>5, <1>6, <1>7, <1>8, <1>9

\* Time only moves events out of the window, since none is later than now.
LEMMA TickOK == RateInv /\ RateTick => RateInv'
<1> SUFFICES ASSUME RateInv, RateTick PROVE RateInv'
  OBVIOUS
<1> USE DEF RateTick
<1>1. /\ rate_time \in Nat /\ rate_time' = rate_time + 1 /\ calls' = 0
      /\ UNCHANGED <<global, peers, accepted, evicted>>
  BY DEF RateInv, RatesKept, RateTypeOK
<1>2. Tracked' = Tracked /\ \A k \in Kind : Allowed(k)' = Allowed(k)
  BY <1>1 DEF Tracked, Allowed
<1>3. \A k \in Kind, p \in RatePeer : accepted[k][p] \subseteq RateEvent
  BY DEF RateInv, RatesKept, RateTypeOK
<1>4. ASSUME NEW k \in Kind, NEW S, S \subseteq RateEvent, \A e \in S : e.at <= rate_time
      PROVE  InWindow(S, rate_time + 1) \subseteq InWindow(S, rate_time)
  <2>1. \A e \in S : e.at \in Nat
    BY <1>4 DEF RateEvent
  <2> QED BY <1>1, <1>4, <2>1, LimitsTyped DEF InWindow
<1>5. \A k \in Kind : /\ Allowed(k) \subseteq RateEvent
                      /\ \A e \in Allowed(k) : e.at <= rate_time
  BY <1>3 DEF RateInv, AccessKept, Allowed
<1>6. \A k \in Kind : InWindow(Allowed(k), rate_time + 1) \subseteq InWindow(Allowed(k), rate_time)
  BY <1>4, <1>5
<1>7. \A k \in Kind, p \in RatePeer :
          InWindow(accepted[k][p], rate_time + 1) \subseteq InWindow(accepted[k][p], rate_time)
  BY <1>3, <1>4 DEF RateInv, AccessKept
<1>8. Covered'
  <2>1. \A k \in Kind : InWindow(Allowed(k)', rate_time') \subseteq global[k]
    BY <1>1, <1>2, <1>6 DEF RateInv, Covered
  <2>2. \A p \in RatePeer \ evicted, k \in Kind :
            InWindow(accepted[k][p], rate_time + 1)
                \subseteq (IF p \in Tracked THEN peers[p].windows[k] ELSE {})
    BY <1>7 DEF RateInv, Covered
  <2> QED BY <1>1, <1>2, <2>1, <2>2 DEF Covered, InWindow
<1>9. GlobalRate'
  <2> SUFFICES ASSUME NEW k \in Kind, NEW t \in 0 .. rate_time + 1
               PROVE  Cardinality(InWindow(Allowed(k), t)) <= GlobalLimit
    BY <1>1, <1>2 DEF GlobalRate, InWindow
  <2>1. CASE t \in 0 .. rate_time
    BY <2>1 DEF RateInv, RatesKept, GlobalRate
  <2>2. CASE t = rate_time + 1
    <3>1. rate_time \in 0 .. rate_time
      BY <1>1
    <3>2. Cardinality(InWindow(Allowed(k), rate_time)) <= GlobalLimit
      BY <3>1 DEF RateInv, RatesKept, GlobalRate
    <3>3. IsFiniteSet(InWindow(Allowed(k), rate_time))
      BY FS_Subset DEF RateInv, Covered, FiniteWindows
    <3>4. /\ Cardinality(InWindow(Allowed(k), t)) <= Cardinality(InWindow(Allowed(k), rate_time))
          /\ Cardinality(InWindow(Allowed(k), t)) \in Nat
          /\ Cardinality(InWindow(Allowed(k), rate_time)) \in Nat
      BY <1>6, <2>2, <3>3, FS_Subset, FS_CardinalityType
    <3> QED BY <3>2, <3>4, LimitsTyped
  <2> QED BY <1>1, <2>1, <2>2
<1>10. PeerRate'
  <2> SUFFICES ASSUME NEW p \in RatePeer \ evicted, NEW k \in Kind, NEW t \in 0 .. rate_time + 1
               PROVE  Cardinality(InWindow(accepted[k][p], t)) <= PeerLimit
    BY <1>1 DEF PeerRate, InWindow
  <2>1. CASE t \in 0 .. rate_time
    BY <2>1 DEF RateInv, RatesKept, PeerRate
  <2>2. CASE t = rate_time + 1
    <3>1. rate_time \in 0 .. rate_time
      BY <1>1
    <3>2. Cardinality(InWindow(accepted[k][p], rate_time)) <= PeerLimit
      BY <3>1 DEF RateInv, RatesKept, PeerRate
    <3>3. IsFiniteSet(InWindow(accepted[k][p], rate_time))
      <4>1. InWindow(accepted[k][p], rate_time) \subseteq InWindow(Allowed(k), rate_time)
        BY DEF InWindow, Allowed
      <4> QED BY <4>1, FS_Subset DEF RateInv, Covered, FiniteWindows
    <3>4. /\ Cardinality(InWindow(accepted[k][p], t)) <= Cardinality(InWindow(accepted[k][p], rate_time))
          /\ Cardinality(InWindow(accepted[k][p], t)) \in Nat
          /\ Cardinality(InWindow(accepted[k][p], rate_time)) \in Nat
      BY <1>7, <2>2, <3>3, FS_Subset, FS_CardinalityType
    <3> QED BY <3>2, <3>4, LimitsTyped
  <2> QED BY <1>1, <2>1, <2>2
<1>11. TrackedBounded' /\ FiniteWindows'
  BY <1>1, <1>2 DEF RateInv, RatesKept, TrackedBounded, FiniteWindows
<1>12. AccessKept'
  <2>1. \A p \in RatePeer, k \in Kind : \A e \in accepted[k][p] : e.at \in Nat
    BY <1>3 DEF RateEvent
  <2>2. \A p \in Tracked : peers[p].last_access \in Nat
    BY TrackedIs DEF Tracked, RateInv, RatesKept, RateTypeOK
  <2> QED BY <1>1, <1>2, <2>1, <2>2 DEF RateInv, AccessKept
<1>13. RateTypeOK'
  <2>1. \A k \in Kind : \A e \in global[k] : e.at \in Nat /\ e.at < rate_time + 1
    BY <1>1 DEF RateInv, RatesKept, RateTypeOK, RateEvent
  <2> QED BY <1>1, <2>1, LimitsTyped DEF RateInv, RatesKept, RateTypeOK
<1> QED BY <1>8, <1>9, <1>10, <1>11, <1>12, <1>13 DEF RateInv, RatesKept

\* Statistics clean up and count nothing.
LEMMA StatsOK == RateInv /\ get_stats => RateInv'
<1> SUFFICES ASSUME RateInv, get_stats PROVE RateInv'
  OBVIOUS
<1>1. PICK kept \in Survivors : peers' = Keep(kept) /\ evicted' = evicted \cup (Recent \ kept)
  BY DEF get_stats
<1>2. UNCHANGED <<rate_time, calls, accepted>> /\ global' = [k \in Kind |-> Cleanup(global[k])]
  BY DEF get_stats
<1>3. kept \subseteq Recent /\ IsFiniteSet(kept) /\ Cardinality(kept) <= MaxTracked
  BY SurvivorsFew
<1>4. Tracked' = kept /\ kept \subseteq Tracked /\ \A q \in kept : peers'[q] = peers[q]
  <2>1. kept \subseteq RatePeer
    BY <1>3 DEF Recent, Tracked
  <2> QED BY <1>1, <2>1, KeepOK DEF Tracked
<1>5. \A k \in Kind : Allowed(k)' = Allowed(k) /\ global'[k] = Cleanup(global[k])
  BY <1>2 DEF Allowed
<1>6. RateTypeOK'
  <2>1. peers' \in [RatePeer -> Limits \cup {Untracked}]
    <3>1. peers' = [p \in RatePeer |-> Keep(kept)[p]]
      BY <1>1 DEF Keep
    <3> QED BY <3>1, KeepOK
  <2>2. evicted' \subseteq RatePeer
    BY <1>1 DEF Recent, Tracked, RateInv, RatesKept, RateTypeOK
  <2>3. \A k \in Kind : global'[k] \subseteq global[k]
    BY <1>5, CleanupOK
  <2>4. global' \in [Kind -> SUBSET RateEvent]
    BY <1>2, <1>5, <2>3 DEF RateInv, RatesKept, RateTypeOK
  <2> QED BY <1>2, <2>1, <2>2, <2>3, <2>4 DEF RateInv, RatesKept, RateTypeOK
<1>7. GlobalRate' /\ PeerRate'
  <2>2. GlobalRate'
    BY <1>2, <1>5 DEF RateInv, RatesKept, GlobalRate, InWindow
  <2>3. RatePeer \ evicted' \subseteq RatePeer \ evicted
    BY <1>1
  <2>4. PeerRate'
    BY <1>2, <2>3 DEF RateInv, RatesKept, PeerRate, InWindow
  <2> QED BY <2>2, <2>4
<1>8. TrackedBounded'
  BY <1>3, <1>4, LimitsTyped, FS_CardinalityType DEF TrackedBounded
<1>9. FiniteWindows'
  BY <1>4, <1>5, CleanupOK DEF RateInv, FiniteWindows
<1>10. AccessKept'
  BY <1>2, <1>4 DEF RateInv, AccessKept
<1>11. Covered'
  <2>1. \A k \in Kind : InWindow(Allowed(k)', rate_time') \subseteq global'[k]
    BY <1>2, <1>5, CleanupOK
  <2>2. \A q \in RatePeer \ evicted', k \in Kind :
            InWindow(accepted[k][q], rate_time) \subseteq (IF q \in kept THEN peers[q].windows[k] ELSE {})
    BY <1>1, KeepOK
  <2>3. \A q \in RatePeer \ evicted', k \in Kind :
            InWindow(accepted'[k][q], rate_time')
                \subseteq (IF q \in Tracked' THEN peers'[q].windows[k] ELSE {})
    BY <1>2, <1>4, <2>2
  <2> QED BY <2>1, <2>3 DEF Covered, InWindow
<1> QED BY <1>6, <1>7, <1>8, <1>9, <1>10, <1>11 DEF RateInv, RatesKept

\* A check the global limit refuses touches the global window only.
LEMMA RefusedOK ==
    ASSUME RateInv, NEW k \in Kind, calls < MaxCalls, calls' = calls + 1,
           global' = [global EXCEPT ![k] = add_event(global[k], NewEvent)],
           UNCHANGED <<peers, accepted, evicted, rate_time>>
    PROVE  RateInv'
<1>1. Tracked' = Tracked /\ \A j \in Kind : Allowed(j)' = Allowed(j)
  BY DEF Tracked, Allowed
<1>2. \A j \in Kind : global'[j] = IF j = k THEN add_event(global[k], NewEvent) ELSE global[j]
  BY DEF RateInv, RatesKept, RateTypeOK
<1>3. RateTypeOK'
  <2>1. NewEvent \in RateEvent /\ NewEvent.at = rate_time /\ NewEvent.check = calls + 1
    BY CleanupOK
  <2>2. add_event(global[k], NewEvent) \subseteq global[k] \cup {NewEvent}
    BY CleanupOK
  <2>3. calls \in Nat /\ rate_time \in Nat /\ global[k] \subseteq RateEvent
    BY DEF RateInv, RatesKept, RateTypeOK
  <2>4. add_event(global[k], NewEvent) \subseteq RateEvent
    BY <2>1, <2>2, <2>3
  <2>5. global' \in [Kind -> SUBSET RateEvent]
    BY <2>4 DEF RateInv, RatesKept, RateTypeOK
  <2>6. \A j \in Kind : \A e \in global[j] :
            e.at < rate_time \/ (e.at = rate_time /\ e.check <= calls /\ e.check \in Nat)
    BY DEF RateInv, RatesKept, RateTypeOK, RateEvent
  <2>7. \A j \in Kind : \A e \in global'[j] :
            e.at < rate_time' \/ (e.at = rate_time' /\ e.check <= calls')
    BY <1>2, <2>1, <2>2, <2>3, <2>6
  <2>8. calls' \in 0 .. MaxCalls
    BY <2>3, LimitsTyped
  <2> QED BY <2>5, <2>7, <2>8 DEF RateInv, RatesKept, RateTypeOK
<1>4. GlobalRate' /\ PeerRate' /\ TrackedBounded'
  BY <1>1 DEF RateInv, RatesKept, GlobalRate, PeerRate, TrackedBounded, InWindow
<1>5. FiniteWindows'
  BY <1>1, <1>2, CleanupOK DEF RateInv, FiniteWindows
<1>6. AccessKept'
  BY <1>1 DEF RateInv, AccessKept
<1>7. Covered'
  <2>1. InWindow(Allowed(k), rate_time) \subseteq add_event(global[k], NewEvent)
    BY CleanupOK
  <2>2. \A j \in Kind : InWindow(Allowed(j), rate_time) \subseteq global'[j]
    BY <1>2, <2>1 DEF RateInv, Covered
  <2> QED BY <1>1, <2>2 DEF RateInv, Covered, InWindow
<1> QED BY <1>3, <1>4, <1>5, <1>6, <1>7 DEF RateInv, RatesKept

\* A check that gets as far as its peer, after the clean-up left kept.
LEMMA CheckedOK ==
    ASSUME RateInv, NEW p \in RatePeer, NEW k \in Kind, calls < MaxCalls, calls' = calls + 1,
           global' = [global EXCEPT ![k] = add_event(global[k], NewEvent)],
           Cardinality(global'[k]) <= GlobalLimit, UNCHANGED rate_time,
           NEW kept \in Survivors, CheckPeer(p, k, kept)
    PROVE  RateInv'
<1> DEFINE entry == IF p \in kept THEN peers[p] ELSE NewPeerLimits
           window == add_event(entry.windows[k], NewEvent)
           after == [windows |-> [entry.windows EXCEPT ![k] = window], last_access |-> rate_time]
<1>1. /\ peers' = [Keep(kept) EXCEPT ![p] = after]
      /\ accepted' = IF Cardinality(window) > PeerLimit THEN accepted
                     ELSE [accepted EXCEPT ![k] = [accepted[k] EXCEPT ![p] = accepted[k][p] \cup {NewEvent}]]
      /\ evicted' = evicted \cup (Recent \ kept)
  BY DEF CheckPeer
<1>2. kept \subseteq Recent /\ IsFiniteSet(kept) /\ Cardinality(kept) <= MaxTracked
      /\ kept \subseteq Tracked /\ kept \subseteq RatePeer
  BY SurvivorsFew DEF Recent, Tracked
<1>3. rate_time \in Nat /\ calls \in Nat
  BY DEF RateInv, RatesKept, RateTypeOK
<1>4. NewEvent \in RateEvent /\ NewEvent.at = rate_time /\ NewEvent.check = calls + 1
  BY CleanupOK
<1>5. /\ entry.windows \in [Kind -> SUBSET RateEvent]
      /\ \A j \in Kind : IsFiniteSet(entry.windows[j])
  <2>1. CASE p \in kept
    <3>1. peers[p] \in Limits
      BY <1>2, <2>1 DEF Tracked, RateInv, RatesKept, RateTypeOK
    <3> QED BY <1>2, <2>1, <3>1, TrackedIs DEF RateInv, FiniteWindows
  <2>2. CASE p \notin kept
    BY <2>2, FS_EmptySet DEF NewPeerLimits
  <2> QED BY <2>1, <2>2
<1>6. /\ window \subseteq RateEvent /\ IsFiniteSet(window)
      /\ \A e \in entry.windows[k] \cup {NewEvent} : rate_time - e.at <= Window => e \in window
  <2>1. IsFiniteSet(entry.windows[k] \cup {NewEvent})
    BY <1>5, FS_AddElement
  <2>2. window \subseteq entry.windows[k] \cup {NewEvent}
    BY DEF add_event, Cleanup
  <2>3. IsFiniteSet(window)
    BY <2>1, <2>2, FS_Subset
  <2>4. window \subseteq RateEvent
    BY <1>4, <1>5, <2>2
  <2> QED BY <2>3, <2>4 DEF add_event, Cleanup
<1>7. /\ after \in Limits /\ after.last_access = rate_time
      /\ \A j \in Kind : after.windows[j] = IF j = k THEN window ELSE entry.windows[j]
  <2> HIDE DEF entry, window
  <2>1. [entry.windows EXCEPT ![k] = window] \in [Kind -> SUBSET RateEvent]
    BY <1>5, <1>6
  <2>2. after.windows = [entry.windows EXCEPT ![k] = window] /\ after.last_access = rate_time
    OBVIOUS
  <2>3. after \in Limits
    BY <1>3, <2>1 DEF Limits
  <2> QED BY <1>5, <2>2, <2>3
<1> HIDE DEF after
<1>8. \A q \in RatePeer : peers'[q] = IF q = p THEN after ELSE Keep(kept)[q]
  BY <1>1 DEF Keep
<1>9. Tracked' = kept \cup {p}
  BY <1>2, <1>7, <1>8, KeepOK, TrackedIs DEF Tracked
<1>10. \A q \in kept \ {p} : peers'[q] = peers[q] /\ q \in Tracked
  BY <1>2, <1>8, KeepOK
<1>11. \A q \in RatePeer \ evicted', j \in Kind :
           InWindow(accepted[j][q], rate_time) \subseteq (IF q \in kept THEN peers[q].windows[j] ELSE {})
  BY <1>1, KeepOK
<1>12. \A q \in RatePeer, j \in Kind :
           /\ accepted'[j][q] = accepted[j][q]
              \/ (q = p /\ j = k /\ Cardinality(window) <= PeerLimit
                       /\ accepted'[j][q] = accepted[j][q] \cup {NewEvent})
           /\ accepted'[j][q] \subseteq RateEvent
  <2>0. /\ accepted \in [Kind -> [RatePeer -> SUBSET RateEvent]]
        /\ Cardinality(window) \in Nat
    BY <1>6, FS_CardinalityType DEF RateInv, RatesKept, RateTypeOK
  <2> HIDE DEF window
  <2>1. CASE Cardinality(window) > PeerLimit
    BY <1>1, <2>0, <2>1
  <2>2. CASE ~(Cardinality(window) > PeerLimit)
    <3>1. Cardinality(window) <= PeerLimit
      BY <2>0, <2>2, LimitsTyped
    <3>2. accepted' = [accepted EXCEPT ![k] = [accepted[k] EXCEPT ![p] = accepted[k][p] \cup {NewEvent}]]
      BY <1>1, <2>2
    <3> QED BY <1>4, <2>0, <3>1, <3>2
  <2> QED BY <2>1, <2>2
<1>13. accepted' \in [Kind -> [RatePeer -> SUBSET RateEvent]]
  <2>0. accepted \in [Kind -> [RatePeer -> SUBSET RateEvent]]
    BY DEF RateInv, RatesKept, RateTypeOK
  <2>1. accepted[k] \in [RatePeer -> SUBSET RateEvent] /\ accepted[k][p] \cup {NewEvent} \subseteq RateEvent
    BY <1>4, <2>0
  <2>2. [accepted[k] EXCEPT ![p] = accepted[k][p] \cup {NewEvent}] \in [RatePeer -> SUBSET RateEvent]
    BY <2>1
  <2> HIDE DEF window
  <2> QED BY <1>1, <2>0, <2>2
<1> HIDE DEF entry, window
<1>14. \A j \in Kind : \/ Allowed(j)' = Allowed(j)
                       \/ j = k /\ Allowed(j)' = Allowed(j) \cup {NewEvent}
  <2> TAKE j \in Kind
  <2>1. CASE \A q \in RatePeer : accepted'[j][q] = accepted[j][q]
    BY <2>1 DEF Allowed
  <2>2. CASE /\ j = k /\ accepted'[j][p] = accepted[j][p] \cup {NewEvent}
             /\ \A q \in RatePeer \ {p} : accepted'[j][q] = accepted[j][q]
    <3>1. Allowed(j)' = UNION {accepted'[j][q] : q \in RatePeer}
      BY DEF Allowed
    <3>2. Allowed(j) = UNION {accepted[j][q] : q \in RatePeer}
      BY DEF Allowed
    <3>3. ASSUME NEW e PROVE e \in Allowed(j)' <=> e \in Allowed(j) \cup {NewEvent}
      BY <2>2, <3>1, <3>2
    <3> QED BY <2>2, <3>3
  <2> QED BY <1>12, <2>1, <2>2
<1>15. \A j \in Kind : global'[j] = IF j = k THEN add_event(global[k], NewEvent) ELSE global[j]
  BY DEF RateInv, RatesKept, RateTypeOK
<1>16. RateTypeOK'
  <2>1. add_event(global[k], NewEvent) \subseteq global[k] \cup {NewEvent}
    BY CleanupOK
  <2>2. global \in [Kind -> SUBSET RateEvent]
    BY DEF RateInv, RatesKept, RateTypeOK
  <2>3. add_event(global[k], NewEvent) \subseteq RateEvent
    BY <1>4, <2>1, <2>2
  <2>4. global' \in [Kind -> SUBSET RateEvent]
    BY <2>2, <2>3
  <2>5. \A j \in Kind : \A e \in global[j] :
            e.at < rate_time \/ (e.at = rate_time /\ e.check <= calls /\ e.check \in Nat)
    BY DEF RateInv, RatesKept, RateTypeOK, RateEvent
  <2>6. \A j \in Kind : \A e \in global'[j] :
            e.at < rate_time' \/ (e.at = rate_time' /\ e.check <= calls')
    BY <1>3, <1>4, <1>15, <2>1, <2>5
  <2>7. peers' \in [RatePeer -> Limits \cup {Untracked}]
    <3>1. peers' = [q \in RatePeer |-> peers'[q]]
      BY <1>1 DEF Keep
    <3>2. \A q \in RatePeer : peers'[q] \in Limits \cup {Untracked}
      BY <1>7, <1>8, KeepOK
    <3> QED BY <3>1, <3>2
  <2>8. calls' \in 0 .. MaxCalls /\ rate_time' \in Nat
    BY <1>3, LimitsTyped
  <2>9. evicted' \subseteq RatePeer
    BY <1>1 DEF Recent, Tracked, RateInv, RatesKept, RateTypeOK
  <2> QED BY <1>13, <2>4, <2>6, <2>7, <2>8, <2>9 DEF RateTypeOK
<1>17. FiniteWindows'
  <2>1. \A j \in Kind : IsFiniteSet(global'[j])
    BY <1>15, CleanupOK DEF RateInv, FiniteWindows
  <2>2. \A j \in Kind : IsFiniteSet(peers'[p].windows[j])
    BY <1>5, <1>6, <1>7, <1>8
  <2>3. \A q \in kept \ {p}, j \in Kind : IsFiniteSet(peers'[q].windows[j])
    BY <1>10 DEF RateInv, FiniteWindows
  <2> QED BY <1>9, <2>1, <2>2, <2>3 DEF FiniteWindows
<1>18. AccessKept'
  <2>1. \A q \in RatePeer, j \in Kind : \A e \in accepted'[j][q] : e.at <= rate_time
    BY <1>3, <1>4, <1>12 DEF RateInv, AccessKept
  <2>2. peers'[p].last_access = rate_time
    BY <1>7, <1>8
  <2>3. \A q \in kept \ {p} : /\ peers'[q].last_access <= rate_time
                              /\ \A j \in Kind : \A e \in accepted'[j][q] : e.at <= peers'[q].last_access
    BY <1>2, <1>10, <1>12 DEF RateInv, AccessKept
  <2> QED BY <1>3, <1>9, <2>1, <2>2, <2>3 DEF AccessKept
<1>19. Covered'
  <2>1. \A j \in Kind : InWindow(Allowed(j)', rate_time) \subseteq global'[j]
    <3> SUFFICES ASSUME NEW j \in Kind, NEW e \in InWindow(Allowed(j)', rate_time)
                 PROVE  e \in global'[j]
      OBVIOUS
    <3>1. CASE e = NewEvent /\ j = k
      BY <1>15, <3>1, CleanupOK
    <3>2. CASE e \in InWindow(Allowed(j), rate_time)
      <4>1. e \in global[j] /\ (j = k => e \in add_event(global[k], NewEvent))
        BY <3>2, CleanupOK DEF RateInv, Covered
      <4> QED BY <1>15, <4>1
    <3> QED BY <1>14, <3>1, <3>2 DEF InWindow
  <2>2. \A q \in RatePeer \ evicted', j \in Kind :
            InWindow(accepted'[j][q], rate_time)
                \subseteq (IF q \in kept \cup {p} THEN peers'[q].windows[j] ELSE {})
    <3> SUFFICES ASSUME NEW q \in RatePeer \ evicted', NEW j \in Kind,
                        NEW e \in InWindow(accepted'[j][q], rate_time)
                 PROVE  e \in (IF q \in kept \cup {p} THEN peers'[q].windows[j] ELSE {})
      OBVIOUS
    <3>1. CASE q # p
      <4>1. e \in InWindow(accepted[j][q], rate_time)
        BY <1>12, <3>1 DEF InWindow
      <4> QED BY <1>10, <1>11, <3>1, <4>1
    <3>2. CASE q = p
      <4>1. e \in InWindow(accepted[j][p], rate_time) \/ (e = NewEvent /\ j = k)
        BY <1>12, <3>2 DEF InWindow
      <4>2. e \in InWindow(accepted[j][p], rate_time) => e \in entry.windows[j]
        BY <1>11, <3>2 DEF entry
      <4>3. rate_time - e.at <= Window
        BY DEF InWindow
      <4>4. e \in after.windows[j]
        BY <1>6, <1>7, <4>1, <4>2, <4>3
      <4> QED BY <1>8, <3>2, <4>4
    <3> QED BY <3>1, <3>2
  <2> QED BY <1>9, <2>1, <2>2 DEF Covered, InWindow
<1>20. GlobalRate'
  <2> SUFFICES ASSUME NEW j \in Kind, NEW t \in 0 .. rate_time
               PROVE  Cardinality(InWindow(Allowed(j)', t)) <= GlobalLimit
    BY DEF GlobalRate, InWindow
  <2>1. CASE Allowed(j)' = Allowed(j)
    BY <2>1 DEF RateInv, RatesKept, GlobalRate
  <2>2. CASE j = k /\ t = rate_time
    <3>1. InWindow(Allowed(j)', t) \subseteq global'[k] /\ IsFiniteSet(global'[k])
      BY <1>17, <1>19, <2>2 DEF Covered, FiniteWindows, InWindow
    <3>2. /\ Cardinality(InWindow(Allowed(j)', t)) <= Cardinality(global'[k])
          /\ Cardinality(InWindow(Allowed(j)', t)) \in Nat /\ Cardinality(global'[k]) \in Nat
      BY <3>1, FS_Subset, FS_CardinalityType
    <3> QED BY <3>2, LimitsTyped
  <2>3. CASE Allowed(j)' = Allowed(j) \cup {NewEvent} /\ t # rate_time
    <3>1. ~(NewEvent.at <= t)
      BY <1>3, <1>4, <2>3
    <3>2. InWindow(Allowed(j)', t) = InWindow(Allowed(j), t)
      BY <2>3, <3>1 DEF InWindow
    <3> QED BY <3>2 DEF RateInv, RatesKept, GlobalRate
  <2> QED BY <1>14, <2>1, <2>2, <2>3
<1>21. PeerRate'
  <2> SUFFICES ASSUME NEW q \in RatePeer \ evicted', NEW j \in Kind, NEW t \in 0 .. rate_time
               PROVE  Cardinality(InWindow(accepted'[j][q], t)) <= PeerLimit
    BY DEF PeerRate, InWindow
  <2>0. q \in RatePeer \ evicted
    BY <1>1
  <2>1. CASE accepted'[j][q] = accepted[j][q]
    BY <2>0, <2>1 DEF RateInv, RatesKept, PeerRate
  <2>2. CASE q = p /\ j = k /\ t = rate_time /\ Cardinality(window) <= PeerLimit
    <3>1. InWindow(accepted'[j][q], t) \subseteq peers'[p].windows[k]
      BY <1>9, <1>19, <2>2 DEF Covered, InWindow
    <3>2. InWindow(accepted'[j][q], t) \subseteq window
      BY <1>7, <1>8, <3>1
    <3>3. /\ Cardinality(InWindow(accepted'[j][q], t)) <= Cardinality(window)
          /\ Cardinality(InWindow(accepted'[j][q], t)) \in Nat /\ Cardinality(window) \in Nat
      BY <1>6, <3>2, FS_Subset, FS_CardinalityType
    <3> QED BY <2>2, <3>3, LimitsTyped
  <2>3. CASE accepted'[j][q] = accepted[j][q] \cup {NewEvent} /\ t # rate_time
    <3>1. ~(NewEvent.at <= t)
      BY <1>3, <1>4, <2>3
    <3>2. InWindow(accepted'[j][q], t) = InWindow(accepted[j][q], t)
      BY <2>3, <3>1 DEF InWindow
    <3> QED BY <2>0, <3>2 DEF RateInv, RatesKept, PeerRate
  <2> QED BY <1>12, <2>1, <2>2, <2>3
<1>22. TrackedBounded'
  <2>1. /\ Cardinality(kept \cup {p}) <= Cardinality(kept) + 1
        /\ Cardinality(kept \cup {p}) \in Nat /\ Cardinality(kept) \in Nat
    <3>1. /\ IsFiniteSet(kept \cup {p})
          /\ Cardinality(kept \cup {p}) = IF p \in kept THEN Cardinality(kept) ELSE Cardinality(kept) + 1
      BY <1>2, FS_AddElement
    <3>2. Cardinality(kept \cup {p}) \in Nat /\ Cardinality(kept) \in Nat
      BY <1>2, <3>1, FS_CardinalityType
    <3> QED BY <3>1, <3>2
  <2> QED BY <1>2, <1>9, <2>1, LimitsTyped DEF TrackedBounded
<1> QED BY <1>16, <1>17, <1>18, <1>19, <1>20, <1>21, <1>22 DEF RateInv, RatesKept

\* Every step keeps the invariant.
LEMMA RateStep == RateInv /\ [RateNext]_rateVars => RateInv'
<1> SUFFICES ASSUME RateInv, [RateNext]_rateVars PROVE RateInv'
  OBVIOUS
<1>1. ASSUME NEW p \in RatePeer, NEW k \in Kind, check_allowed(p, k) PROVE RateInv'
  <2>1. CASE UNCHANGED <<peers, accepted, evicted>>
    BY <1>1, <2>1, RefusedOK DEF check_allowed
  <2>2. CASE Cardinality(global'[k]) <= GlobalLimit /\ \E kept \in Survivors : CheckPeer(p, k, kept)
    BY <1>1, <2>2, CheckedOK DEF check_allowed
  <2> QED BY <1>1, <2>1, <2>2 DEF check_allowed
<1>2. CASE get_stats
  BY <1>2, StatsOK
<1>3. CASE RateTick
  BY <1>3, TickOK
<1>4. CASE UNCHANGED rateVars
  BY <1>4 DEF rateVars, RateInv, RatesKept, RateTypeOK, GlobalRate, PeerRate, TrackedBounded,
              FiniteWindows, AccessKept, Covered, InWindow, Allowed, Tracked
<1> QED BY <1>1, <1>2, <1>3, <1>4 DEF RateNext

\* The limits hold in every window of time: RatesKept, for any peers, limits, window
\* and size of the table (check_message_allowed, check_connection_allowed,
\* cleanup_old_peers).
THEOREM RatesAreKept == RateSpec => []RatesKept
<1>1. RateInv => RatesKept
  BY DEF RateInv
<1> QED BY <1>1, RateInitInv, RateStep, PTL DEF RateSpec
=============================================================================
