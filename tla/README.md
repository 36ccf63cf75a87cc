# A TLA+ verification of BitChat (bitchat-rs)

BitChat is a peer-to-peer messenger. A node finds peers over Bluetooth Low
Energy (a mesh of direct links) and over Nostr relays, secures conversations
with the Noise XX handshake, and shows them in a terminal or a browser. This
directory models the system from the bytes of a packet to the life cycle of the
runtime, and the simulator that tests it: 32 component modules. TLC checks them
on small instances; TLAPS proves every safety property of the passing runs for
every value of the constants.

Contents: 1 the system, 2 the modules, 3 the runs, 4 fairness, 5 the proofs,
6 findings and divergences, 7 what is not modelled, 8 plan.

Paths below are relative to `src/crates/` unless they begin with `docs/` or
`simulator/`.


## 1. The system

```
   terminal / web UI
     |  commands (mpsc, try_send)        ^ app events (mpsc, waits)
     v                                   |
   CoreLogicTask  -- effects (broadcast ring) -->  BLE loop    Nostr loop
     connections, sessions,                          |             |
     message store, rate limiter  <-- events (mpsc) -+-------------+
                                     BLE waits, Nostr's task drops
   BLE loop: peers table, mesh forwarding          Nostr: relays, NIP-17
```

Each task owns its state; nothing is shared but the channels (and, inside the
BLE transport, a table of peers under a lock). So the interleavings that matter
are those of messages in channels, not of memory accesses. Around this core
stands a library (`bitchat-core`) of protocols that the running node uses only
in part at this commit: file transfer, groups, failover, synchronisation and
others are complete state machines without a caller. They are modelled as their
callers would meet them: over an unreliable network, with clean-ups and time-outs
at any moment.

### Inventory

| Component | Source | State | Module |
|---|---|---|---|
| Noise session, session manager | `bitchat-core/src/protocol/session.rs`, `crypto.rs`, `bitchat-runtime/src/managers/session.rs` | cipher state, counters, fingerprint per peer | NoiseSession |
| Verification | `bitchat-core/src/verification.rs` | pending challenges | Verification |
| Identities | `bitchat-core/src/identity/` | cache, and a storage that lives in memory too | IdentityManager |
| Connection state machine, manager | `.../connection_state.rs`, `bitchat-runtime/src/managers/connection.rs` | state and deadline per peer, audit trail, counters | ConnectionState, ConnectionManager |
| Rate limiter | `bitchat-runtime/src/rate_limiter.rs` | sliding windows, global and per peer | RateLimiter |
| BLE peer table and loop | `bitchat-ble/src/{transport,peer,discovery,connection,protocol}.rs` | peers, cached list, timers | BleLink |
| BLE advertising | `bitchat-ble/src/advertising/` | current peer id, platform's handles | BleAdvertising |
| BLE mesh | `bitchat-ble/src/transport.rs` | links, packets under way | MeshForwarding |
| Nostr transport, relays | `bitchat-nostr/src/` | what relays hold, what was heard; relays' health | NostrTransport, RelayManager |
| Core logic, channels | `bitchat-runtime/src/logic/`, `bitchat-core/src/channel/` | connections, four channels | CoreLogic |
| Terminal, command line | `bitchat-cli/src/` | display; configuration layers, orchestrator | TerminalUi, CliApp |
| Web application | `bitchat-web/src/app.rs` | event loop, channels | not modelled (7) |
| Configuration | `bitchat-core/src/config.rs` | twelve sections | Configuration |
| Runtime | `bitchat-runtime/src/runtime.rs` | task handles, pending transports | RuntimeLifecycle |
| Supervised task set | `bitchat-runtime/src/{supervisor,tasks,builder}.rs` | three tasks with queues, health | TaskSupervisor |
| Message store | `.../message_store.rs` | messages, two indices, counters | MessageStore, MessageLog (abstract) |
| Packets, payloads | `.../{packet,wire,message,announce,tlv}.rs` | bytes on the wire | PacketCodec, PayloadCodec |
| Fragmentation | `.../fragmentation.rs` | assemblies, eviction order | Fragmentation |
| File transfer | `.../file_transfer.rs` | transfers at both ends | FileTransfer |
| Delivery, receipts | `.../{delivery,acknowledgments}.rs` | attempts, statuses, receipts sent | Delivery |
| Duplicate detection | `.../deduplication.rs` | two Bloom filters | Deduplication |
| Failover | `bitchat-core/src/transport/` | status and metrics of transports, rules, queue | Failover |
| Session sync | `.../session_sync.rs` | devices, session states, references | SessionSync |
| Groups | `.../group_messaging.rs` | a copy of the group at every node | GroupMessaging |
| Capabilities | `.../capabilities.rs` | negotiated versions and features | Capabilities |
| Simulator | `simulator/virtual/src/` | packets, clock, scenario | SimulatedNetwork, VirtualClock, SimulationRun |

### What is hard, and what makes each part correct

* **Sessions.** Either end may open, replace, expire or fail a session at any
  time while messages of earlier sessions are under way, and whatever arrives may
  be handed to whatever session. Correct means: the fingerprint is that of the
  other end of this handshake, both ends agree on it, nonces are fresh, nothing is
  decrypted twice.
* **Verification and identities.** Answers come late, again, or from somebody else;
  the storage refuses a save or to be cleared. Correct means: only a signature made
  over one's own challenge verifies, in time and once; a refused save is made up for
  by the next change; what panic cleared does not come back.
* **Connections and limits.** Time-outs are polled in one step and applied in
  another; checks, statistics and clean-ups all prune. Correct means: the audit
  trail explains the map; no window holds more than the limit.
* **BLE links.** Advertisements are old or shown under another name; steps of
  advertising fail one by one, on macOS without a word. Correct means: the table is
  genuine, its cached copy exact, and no advertisement is hidden from the manager (on
  Linux its flag is exact).
* **Nostr.** Relays show every node every event, its own included; a gift wrap
  hides its author; the peer id may change while a node listens. Correct means: a
  node hears only what others wrote to everyone or to it; failures show in a relay's
  rating.
* **Core and channels.** The core waits for the UI, the BLE loop for the core,
  effects are lost when a ring is full, any end may go away. Correct means: no
  deadlock, accepted commands are served, shutdown completes, no received packet
  is lost under backpressure, no transport works on past an effect it never got.
* **Runtime and tasks.** A start fails halfway; a shutdown races messages in
  queues. Correct means: no task outlives its runtime, and what was announced is
  taken by the storage task before it stops.
* **Store.** Limits, duplicates and clean-ups touch two indices and two counters.
  Correct means: it is a bounded log, and the indices agree with it.
* **Bytes.** Relays rewrite the TTL, compression the payload, padding the length.
  Correct means: what arrives is what was sent, and its signature still holds.
* **Fragments, files, receipts, groups, synchronisation, negotiation.** Messages
  are lost, late, repeated and reordered, tables are full, copies are out of date.
  Correct means: what comes out went in; what is shown is true; limits hold; both
  ends can do what they agreed upon.
* **Mesh.** No record of packets seen; cycles; links that change. Correct means:
  packets die out, hops are bounded, a packet gets where its TTL allows.
* **Simulator.** Packets are removed by index, sleepers woken in two steps, one
  executor plays many scenarios. Correct means: its verdicts are about the run
  they claim to be about.

`PROJECT.json` lists the hazards that matter most at their lines ("hazards")
with the properties aimed at each.


## 2. The modules

Actions carry the names of the functions they model; `PROJECT.json` ("map")
gives the lines of every definition. Operators named `Bug...` or `bug_...` are deliberately
wrong variants of the definition below them. No behaviour uses them; each shows
that some property fails when the code has that error.

### NoiseSession

`sessions[n][p]` is the entry under peer id p in node n's NoiseSessionManager. A
peer id is a name the caller chose: session.rs compares it with nothing.
`net` and `wire` are the handshake messages and ciphertexts ever produced; any of
them may be handed to any session of any node, its author's own included, at any
time, again, or never. `from` only records the author. What the properties say of
the other end follows from what snow checks, not from who gets what. Actions:
get_or_create_outbound, create_inbound, remove_session, cleanup_expired,
create/process_handshake_message, encrypt, decrypt (a failed one too, which
still counts and touches the session), start_rekey, mark_failed, Tick.

Cryptography is symbolic. A message carries a fresh id and the transcript it was
written under. Messages 2 and 3 are authenticated under the transcript; message
1 is a bare ephemeral key that every responder accepts. The transport key is the
whole transcript, a nonce the count of messages in a direction. This is how
`session.rs` and `crypto.rs` use the `snow` library, which is external; its
cryptographic strength is assumed. Ages are saturating counters per session: only
comparisons with the timeouts matter.

### ConnectionState, ConnectionManager

ConnectionState is the function `transition`: for a state and an event, the next
state or an error, with deadlines and the audit entry. ConnectionManager keeps
`connections`, `audit_trail`, `stats`, and `polled`, the timeouts a caller was
given and has not applied. `transition` also returns a list of effects; both of
its callers drop that list, so it is left out.

### CoreLogic (uses ConnectionState)

One variable per channel, `outbox` for the app events a handler returned and the
core has yet to send (it waits for room and takes nothing else meanwhile),
`ble_out` and `nostr_out` for what the transports are sending. CoreCommand and
CoreEvent take an entry and run the whole handler, error paths included: publish
the effects first, stop at the first failure, then send the app events. `effects[t]` is what transport t has not read of the broadcast ring;
when the ring is full the oldest entry is lost and t is marked `lagged`, and its
next receive is an error that ends its loop. BleSend waits for room, NostrForward
drops. The UI's side is try_send, receive and close. Store and limiter refusals
are nondeterministic outcomes of the handlers that ask them.

### RateLimiter

`global` and `peers` are the windows; `accepted` and `evicted` are ghosts.
Messages and connections use separate windows with the same code, so both are
one parameter, Kind. A window is a set of events: a time, and which check of that
time made it, so that equal times count as often as they occur. The code drops from
the front of a queue whose times are in order, which is dropping what is too old.

### Fragmentation

`sent` records what was fragmented under each (sender, id); `Wire` is every
fragment of it. `add_fragment` models the whole method: the eviction loop
with its stale entries, the double entry for a new key, the header mismatch,
insertion, reassembly on completion. Ids
are random in the code, so two messages may get the same one, and they do here.

### Delivery

`tracked`, `mapping` and `statuses` are the three maps of the
EnhancedDeliveryTracker at the sender; `sent` and `enabled` the recipient's
ReceiptManager; `wire` everything ever put on the network. `mark_sent` is guarded
by the retry list it is called from, MayTransmit: the caller reads the list and
transmits in one step (see 7). RetryDelay is the delay after a number of attempts;
an attempt records the one that was due after it.

### MeshForwarding

`links[n]` are the peers node n has connected, changed by each end on its own;
`inbox` holds copies at the node they reached, `delivered` what was handed to the
core. A copy carries its path, which the packet does not: it tells copies apart
and lets the properties speak of hops. `faulty`, chosen at the start, says
whether links change and writes fail.

### Verification, IdentityManager

Verification keeps each node's pending challenges, every code and challenge ever
shown or sent, and every signature ever made over a pair of nonces. Signatures
cannot be forged, and that is all: anyone may answer a challenge, a response names
what noise key and signing key its author likes, and a code may pair the one key
with another's. VerificationResponse::verify looks at the signature under the key
in the response itself, and so does the model.

IdentityManager has `cache`, `stored` (what the storage holds) and the time of the
last save. The only SecureStorage of the repository keeps its data in memory, so
Restart, which stands for exit and crash, loses it. Every operation on the storage
may fail, the clearing in a panic too. `asked` and `last_change` record what a
change last wanted saved, `refused` that the storage said no, `admitted` what was
learned since the last panic.

### BleLink, BleAdvertising, NostrTransport, RelayManager

BleLink has `ble_peers`, the separate vector `cached_peers` (how often it names each
peer: its order is never read), the advertisements on the air and the two timers of the
loop, which the code makes anew in each turn.
BleAdvertising has the manager's peer id, the platform's flag and handles, and
`on_air`, the truth; every call into the operating system may fail, and on macOS
the call that starts advertising fails without an answer ("ignored"). In
NostrTransport relays hold every event published and show it to whom its filter
admits; `listening` is the listener, which keeps the peer id of its start;
`core_events` is what each core was told. Sender and recipient in a packet are
what its author wrote there; `author` records who that was. RelayManager has health,
failures and connections of relays; `relay_selected` remembers the last choice.

### RuntimeLifecycle, TaskSupervisor, TerminalUi, CliApp, Configuration

Tasks and channels carry the number of the start that made them, so that tasks
the runtime lost track of stay visible (RuntimeLifecycle). TaskSupervisor
has the three tasks with their queues, both ways of shutting down, and the ingress
task's end when its channels close; the storage task stores nothing and answers
every message (`answered`). TerminalUi
is the display state under one lock, which a panic poisons; its vector of busy
operations is a count of each, since nothing reads their order. CliApp merges
configuration layers, starts, pauses and stops. In Configuration a section is the
name of its constructor and what the validation reads of it.

### MessageStore and MessageLog

MessageLog is what a store promises: a bounded set of messages that are taken in
whole or not at all and never altered, of which only old ones may go. MessageStore
is the code, with its hash ids, two indices, counters and clean-up, and
instantiates MessageLog with `log <- messages` and the clock in seconds. Every step
of the store is a step of the log or changes nothing in it. A vector of ids is the
set of its entries, each with which copy of the id it is, so that an id pushed twice
would show; both queries sort what they find, and nothing else reads the order.
The units of the code, milliseconds for messages and seconds for the cut-off, are
kept apart by Millis.

### PacketCodec, PayloadCodec, FileTransfer, Failover, SessionSync

Bytes are small numbers and all sizes constants in the code's proportions: in
PacketCodec the size of a byte, the smallest block and the compression threshold
coincide, as 256 does in the code. In
PayloadCodec reading takes a field off the front and leaves the rest, so readers and
writers are lists of such steps. FileTransfer and SessionSync
have both ends and the network between them. In SessionSync the times of the messages are
a constant function of their ids, and the table of references is a set: what the code asks
of the map is which is the oldest. Failover has the basic manager alone or inside the
advanced one and the coordinator (`wrapped`).

### Deduplication, GroupMessaging, Capabilities

Filters are sets of bits with real collisions, `recent` and `previous` what went
into them. GroupMessaging has every node's copy of one group; Capabilities has
builds of different versions, and the watch over a hello goes on after the answer,
as in the code.

### SimulatedNetwork, VirtualClock, SimulationRun

Random draws of the router are choices; waking a sleeper and its look at the clock
are two steps; the steps of a scenario are chosen as it runs. Packets carry a sequence
number from the router when it takes them out of `outgoing`, and the queue keeps its
order; PendingAt gives the indices that stay in it.

### Composition

ConnectionState is shared by ConnectionManager and CoreLogic. CoreLogic composes
the core, both transports, the UI and the channels; NostrTransport, MeshForwarding
and Capabilities compose several nodes with a network; RuntimeLifecycle composes
tasks with their channels; MessageStore refines MessageLog. The other components
do not call each other at this commit.

An MC module therefore puts several components beside each other: `turn`, chosen
at the start, says which of them a behaviour is about, and the others stay in one
initial state. The state space is the sum of theirs, not the product, and each
property speaks of one component. Where deadlock is checked, the components that
rightly come to rest may stutter.


## 3. The runs

A run's properties are conjunctions of named parts that fail for different
reasons; the parts are defined, with their comments, at the end of each module.
A
property that has a part about steps is an action property as a whole.

| Run | Component: property (parts) | Bounds |
|---|---|---|
| noise_session | NoiseSession: SessionSound (TypeOK, SessionShape, RekeyTriggerReached), Authenticated (PeerAuthenticated, TranscriptAuthentic), KeysSafe (KeyExclusive, NonceFresh, DecryptedWasSent) | 3 nodes, one session each under whatever name, 4 handshake messages, 2 counted messages per session |
| | Verification: VerificationSound (VerifiedAnswered, ChallengeUsedOnce) | 2 nodes, 4 nonces, clock 0..2, one pending challenge |
| | IdentityManager: IdentitySound (StorageLags, PanicForgets) | 1 contact, clock 0..2, every operation on the storage may fail |
| connection_manager | ConnectionManager: ConnectionsSound (TypeOK, AuditExplains, TimeoutAccepted, RemovedOnce) | 2 peers, trail of 2, counters to 3, clock 0..3 |
| | RateLimiter: RatesKept (TypeOK, GlobalRate, PeerRate, TrackedBounded) | 3 peers, table for 1, limits 2 and 3, 2 checks per time, clock 0..2 |
| | BleLink: PeerTableSound (CachedMatchesPeers, PeersGenuine) | 2 peers, 1 advertisement at a time |
| | BleAdvertising: AdvertisingSound (FlagTellsAir, AirIsCurrent) | 2 peer ids, 3 calls, three platforms |
| | NostrTransport: NostrSound (HeardFromOthers) | 2 nodes, 2 events, every embedding strategy |
| | RelayManager: RelaysSound (ThreeStrikes, HealthFindsConnection) | 2 relays, 3 failures |
| core_logic | CoreLogic: NodeSound (TypeOK, BleLosesNothing), NoEffectSkipped, no deadlock | 1 peer, all commands and inputs, 2 of each, capacities 1 or 2 |
| | TerminalUi: DisplaySound (DiscoveryListed, ShownBounded, ConnectedStay) | 1 peer, 3 events, clocks that differ by 1 |
| | Configuration: ConfigSound (PresetsCompose, FragmentsCarryData) | 2 changes of section or preset |
| | CliApp: CliSound (PausedIsQuiet, AcceptedStarts, NamedIdentityStable) | 4 commands, 3 layers |
| | SessionSync: SyncSound (TablesBounded, OldestGoFirst) | 2 devices, 3 references, room for 2, 5 calls, 2 messages |
| core_liveness | CoreLogic: ShutdownCompletes, CommandsServed | the commands and inputs that fill each channel, 2 of each |
| | RuntimeLifecycle: RuntimeSound (SenderFeedsCore, RuntimeQuiesces) | 2 transports, 2 starts |
| | TaskSupervisor: SupervisionSound (AnnouncedAnswered, ShutdownPropagates) | 2 inputs, room for 1 app event |
| fragmentation | Fragmentation: Faithful, AssembliesSound (TypeOK, AssembliesBounded) | 2 senders, 1 id, messages of 0 to 4 fragments, room for 1 assembly |
| | PacketCodec: PacketsSurvive (PaddedArrives, SignatureSurvives) | bytes of 16 values, blocks of 16 and 32, 2 relays |
| | PayloadCodec: PayloadsSurvive (MessagesSurvive, AnnouncedIsDiscovered) | lengths around the largest length byte, 3 |
| | FileTransfer: CompletedHasAll | 1 file of 2 chunks, clock 0..3 |
| | Failover: RoutingSound (RoutedToHealthy, RoutedToReachable, OneCheckAtATime) | 2 transports, 1 peer, failure limit 2 |
| | MessageStore: StoreSound (IndicesAgree, QueriesComplete), ImplementsLog (refinement) | 2 peers, room for 3 messages and 2 per conversation |
| delivery | Delivery: DeliverySound (TypeOK, ReceiptsTruthful, NoDuplicateReceipts, ReportedIsFinal, BackoffKept, AckedNotRetried) | 2 messages, 2 ids, 2 configurations, clock 0..2 |
| | Deduplication: FiltersSound (DuplicatesCaught, FillBounded) | 3 packets, 5 bits, clock 0..3 |
| | GroupMessaging: MembershipSound (OneOwner, MembersDistinct, MembersJoined) | 3 nodes, group for 2, 4 messages |
| | Capabilities: NegotiationSound (FeaturesMutual, VersionSpoken) | 3 builds, two at a time, 2 hellos |
| mesh | MeshForwarding: CopiesSound (TypeOK, HopsBounded, NoBounce), Quiesces, PrivateReaches | 4 nodes in 4 shapes, TTL 0..3, 2 link changes |
| | SimulatedNetwork: SimNetSound (ArrivesOnce, QueuePurged) | 2 peers, 2 packets, 3 changes |
| | VirtualClock: WokenGoesOn | 2 sleepers, 3 moves of the clock |
| | SimulationRun: RunSound (VerdictIsFresh, ConnectionsAgree) | 2 peers, 2 scenarios of 2 steps |
| connection_lost_peer | ConnectionManager: PeersAccounted (violated) | as above |
| core_lag | CoreLogic: EndsOnlyWhenClosed (violated) | as core_logic |
| delivery_read_supersedes | Delivery: ReadSupersedes (violated) | 1 message |
| mesh_broadcast | MeshForwarding: BroadcastReaches (violated) | line of 3 nodes |
| ble_maintenance | BleLink: StaleRemoved (violated) | 1 peer; the scan falls due before the maintenance |

Why the bounds are enough:

* **noise_session.** Four messages make a full handshake and one message of
  another, so old messages meet new sessions, both ends initiate at once, sessions
  are replaced under the other end, and a third node reads and answers what was
  meant for another. Idle times matter to a session alone; they are told apart while
  there are at most two sessions and three messages (IdleBound in MCSessions, a
  bound of the run), otherwise all are zero. The proofs drop all these bounds. A
  challenge that lasts one unit of three can expire while its answer is under way;
  saves one unit apart leave room for a refused one and one that makes up for it.
* **connection_manager.** Entries influence each other only through the shared
  trail and counters, and the trail of 2 overflows; `Second = 2` keeps seconds and
  clock units apart. Windows of one unit let events leave exactly at the edge; a
  table for one of three peers makes every clean-up evict. One
  advertisement at a time is enough for two known peers, since an old one leaves
  the air and the next takes its place; a genuine, a forged and an old one are met
  one after the other. Three failures are the code's threshold.
* **core_logic.** Capacities of 1 and 2 make every channel full, and the ring
  overflow, with two commands; handlers touch one peer's entry each. Sessions are
  empty because nothing in the running system establishes one. Two
  changes mix any two presets or sections; more only overwrite. Three references in
  tables for two make every device evict, and five calls and two messages bring back to
  one device what it gave up.
* **core_liveness.** See 4. A second start is the first that meets what a failed
  or stopped one left behind. The clock of the health records, which no task reads,
  moves only once the tasks have ended (LateClock in MCLiveness).
* **fragmentation.** Messages of one, two and three fragments with a short last
  one, an empty and a too long one; payloads that end like padding, that compress,
  and that fill a block; texts just within and just above a length byte. The store
  is full with two conversations of which one is full before.
* **delivery.** One configuration runs out of attempts before the confirmation
  times out, the other grows its delay up to the cap; two tracked messages may
  share an id. Two of the three packets share a bit of the filter. A group for two
  of three nodes is full. The builds have one version, its successor, and the next
  major one; what a node keeps of one peer does not touch what it keeps of another, so
  two of the three builds are looked at together (AmongThePair in MCMessaging), and
  their two hellos cross, repeat and time out.
* **mesh.** Line, square, kite (a cycle with a tail) and complete graph; TTL 3 is
  the longest simple path of four nodes and goes round the cycles. Two scenarios,
  because the second must not see the first.

Symmetry is used where peers, nodes, uuids and ids are interchangeable and only
safety is checked. Deadlock is checked except in core_liveness, mesh and the
violations of liveness: a mesh that has sent its packet and spent its link changes
rightly stops, and core_liveness bounds what the user and the radios do.

What a reader should know of some of these properties:

* WokenGoesOn excuses a sleeper once the clock has ever been set back (`rewound` stays
  true): it is about runs whose clock only moves forward, and about the rest of a run
  up to the first move back.
* In SimulationRun a scenario has one check. Three kinds of check always pass in the
  code (`simulation_executor.rs:624-643`) and do so in the model; VerdictIsFresh asks
  nothing of those.
* PrivateReaches is about links that stay and writes that succeed (`faulty` is false),
  and about loops that do not end by lag, which the run core_lag shows they may.
* PeerRate exempts peers that were evicted (6), FeaturesMutual peers taken for legacy,
  and PaddedArrives and MessagesSurvive the lengths a byte cannot say.
* MembersJoined lets a kicked member return with a late join or a stale copy, and
  CompletedHasAll a cancelled transfer complete: the code does both.


## 4. Fairness

* **CoreLogic.** Weak fairness of CoreEmit, CoreEnd, BleSend, NostrForward: a task
  that can go on is scheduled. Strong fairness of CoreCommand, CoreEvent,
  TakeEffect and TransportEnd: they are branches of `tokio::select!`, which polls
  its branches in random order, so a branch that is ready again and again is
  taken. Nothing is assumed of the user, the radios or of whoever holds the receiver
  of the app events. Both liveness properties say what they need of the latter as a
  premise, AppEventsDrained: there is room for app events again and again, or the
  receiver is dropped. An application that reads its events or lets go of them fulfils
  it. The command line does not at this commit: `app_orchestrator.rs:213` builds the
  terminal interface, which holds the receiver, and never runs it. There the core can
  wait in send_app_event for ever, with Shutdown behind it in the queue.
* **RuntimeLifecycle.** Weak fairness of a core ending when its commands are
  closed and of a transport ending when its core is gone: both wait in a receive
  that then returns. Nothing makes an application let go of its senders; the
  property asks for it.
* **TaskSupervisor.** Weak fairness of the session and the storage task: each is a
  loop over a queue. None of the ingress task, the supervisor or the user;
  ShutdownPropagates speaks of an ingress task that took a Shutdown.
* **MeshForwarding.** Weak fairness of Handle(n) for each node: its loop takes
  packets as long as there are any. Nothing is assumed of senders or links;
  PrivateReaches speaks only of behaviours without faults.
* **BleLink (ble_maintenance).** Weak fairness of the clock, of the scan and of an
  answer to a connection attempt, strong fairness of the maintenance: it would run
  if it were ready ever again. It is not.

In MCLiveness and MCNetworks the fairness of all components is conjoined. A
component at rest owes no step, so it asks nothing of behaviours about another.


## 5. The proofs

Six modules hold the proofs, 55 results in all that are listed in `PROJECT.json`.
Every theorem holds for arbitrary constants under the named assumptions of the
module it is about. The bounds TLC needs (MaxMsgs, MaxTime, MaxOrder, ...) are
arbitrary naturals there, so they bound nothing.

The assumptions say that sizes, limits and times are naturals, that a marker such as
"nobody", "free", "none" or `Broadcast` is not also the name of a peer or an id, and
where a set must be finite for a count to make sense. Six say more:

* ConfigAssumption: the fragment header is shorter than the 100 bytes below which
  validate_ble_config refuses a fragment size (it has 13 bytes).
* PowerAssumption (Delivery): a natural to the power of a natural is a natural. It is
  a fact of arithmetic; the provers do not know `^`.
* RoutedAssumption (Failover): a peer is not one of the two public contexts.
* CapAssumption: every build speaks some version.
* LimiterAssumption: a window has some length, as in every constructor of the
  configuration. With none (validate does not look at it) cleanup_old_peers would forget
  every peer before each check, and the limit per peer would refuse nothing.
* CodecConstants and PayloadConstants: the padding blocks increase; a byte has at least
  the value 2; a neighbour list fits a length of two bytes, as it comes out of a packet.

TLC evaluates each of them on the instances of the runs.

**PeersProofs** is about what a node keeps of its peers, their sessions first.

NoiseSession: Invariance, TypeCorrect, ShapeCorrect, Authentication,
TranscriptAgreement, KeysExclusive, NoncesNeverReused, ReplayRejected,
RekeyReported, and from them SessionsSound, SessionsAuthenticated and
KeysStaySafe, which state the run's SessionSound, Authenticated and KeysSafe.
The properties speak of established sessions, but what makes them
true is built up during the handshake, and nothing restricts which message
reaches which session. So the inductive invariant IInv says, for every session slot
(SlotOK): in a handshake in progress the messages of its own role were written by
this node, and an initiator that has read message 2 knows the node that wrote it
under its own message 1 (HandshakeOK); an established key has all three messages
behind it, those of the other role by the node of the fingerprint (KeyOK); its
counters agree with the ciphertexts on the wire (NoncesOK). NetOK says that ids on
the network are unique and below nextId and that the author of a third message wrote
the first of its transcript; WireOK that every ciphertext's key is such a key.
OwnersOK is what keeps sessions apart where any bytes may reach any of them: the
ephemeral key a session wrote belongs to that slot of that node alone. Ids being
fresh, a transcript determines who wrote it, from which exclusivity of keys follows.
Who the other end is follows from the transcript and not from who the message was
for; that it is the one the caller meant does not follow and is not claimed.

The other components:

* *Deduplication*: FiltersAreSound. DedupInv: the bits of every packet since the last
  rotation are in the primary filter, those of the one before in the secondary, and a
  missing secondary has nothing before it; the primary is never too full after a step.
* *IdentityManager*: IdentitiesAreSound. The property is inductive with the types of its
  three times; ModifyKeeps is the lemma for the one way by which changes are saved, the
  save due or not, refused or not.
* *FileTransfer*: CompletedIsWhole. TransferInv types both ends and the network: chunks
  under way have an index of the file.
* *GroupMessaging*: MembershipIsSound. Copies are overwritten by copies from the network,
  so CopyOK is said of both: members are distinct, the creator is the only owner and
  present, everybody else joined. GroupInv adds PostOK for every message ever sent.
* *Capabilities*: NegotiationIsSound. What an acknowledgement carries was computed by the
  other end: OfferOK says it is mutual and a version its receiver speaks, MutualFound and
  VersionChosen that the computation gives such.
* *Verification*: VerificationIsSound. The responses are anybody's, so the signature in
  one is all that counts: PendingOK says that every pending challenge was put to the name
  it is filed under. ChallengeUsedOnce needs NoncesFresh: no two pending
  challenges share a nonce, and none has the nonce of a verification that took place.

**PacketProofs** is about packets once they are under way.

*Fragmentation*: TypeCorrect, LimitHolds, FaithfulHolds, and
AssembliesAreSound for the run's AssembliesSound. The bound on
assemblies is not inductive alone: the eviction loop would run out of entries.
LiveTracked adds that every live assembly has an entry in lru_order, so the loop
always finds something to evict. For Faithful, Genuine says that an assembly of a
key used once holds fragments of that message only, and ReturnedKnown that what
was returned belongs to a key in use. That the fragments joined give back the
message (ChunksJoin) is a fact about all lengths; it is proved through a least
counterexample, because induction theorems with operator parameters are out of
the provers' reach.

*SimulatedNetwork*: SimulatedNetworkIsSound, for SimNetSound. Packets are removed from the
queue by index, several at a time, and what is left moves up. NetInv therefore speaks of
sequence numbers: every packet waiting in the router's queue has a number of its own, which
no packet that arrived has, and which is not below the number the network stood at when its
sender or its receiver was removed (Numbered, Disjoint, Ghostless). Packets still in
`outgoing` at that moment get their number later and are no part of the claim. Cut says what a
queue and what was taken out of it have in common with the queue before; every removal in the router
(Retain) is such a cut, and a cut keeps all three.

*SessionSync*: SyncIsSound, for SyncSound. SyncInv is the types and TablesBounded. A
response adds its references one by one, each perhaps evicting another, so the action
property is about a whole loop: along it, what was given up so far is older than anything
kept that was not itself brought by the response. The plain statement, that whatever goes
is older than whatever stays, failed to be provable and is false: a late response that
brings a reference the device already holds may evict it and take it back, and then evict
a newer one. OldestGoFirst says so (BroughtTo).

**CodecProofs** is about bytes, and begins with lemmas that the other proofs use as well:
least elements and counterexamples, concatenation and SubSeq, loops that follow a table.

* *PacketCodec*: UnpadUndoesPad, PacketsReadBack, and PacketsSurviveTheWire for
  PacketsSurvive. PacketsReadBack is about one hop: what is encoded is decoded as the
  packet it was or is refused, and it is not refused if the padding is longer than nothing
  and shorter than a byte can say. The refusals are real (section 6, `wire.rs:342`). Two
  encodings that differ in the TTL only have the same bytes under the signature. CodecInv
  says that what is on the wire, and what was last received, is the origin at some TTL.
* *PayloadCodec*: MessagesReadBack, EntriesReadBack, AnnouncementsReadBack, and
  PayloadsSurviveEncoding for PayloadsSurvive. The readers loop until the input is used up,
  the writers over a list, so both are recursive functions; each proof gives the table
  of what is written or read after i steps and shows, by a least counterexample, that the
  loop follows it. The lemma for each field has the form: a reader given what the writer
  wrote, with any bytes after it, finds the field and leaves those bytes. PayloadInv says
  that what was encoded was valid, and decoded from what was encoded.

**NetworkProofs** is about links between nodes.

* *MeshForwarding*: Invariance, TypeCorrect, HopsAreBounded, NeverBounces,
  CopiesAreSound. CopyOK is what is true of one copy wherever it is: its packet was
  sent, its path has at least the origin and one hop (OnTheWay), the hops and the TTL
  sum up to the first TTL plus two, and no node occurs two places apart. Forwarding
  keeps the sum and appends a peer other than the one the copy came from.
* *ConnectionManager*: ConnectionsAreSound. AuditExplains speaks of the entries of one
  peer, the code appends to and trims one trail for all. Hangs and Leads say the same
  of positions in the whole trail, which makes trimming the oldest entry and noting a
  new one two lemmas (TrailTrimmed, TrailNoted). CountsOK adds that the map is finite,
  so that its size changes by one when a peer comes or goes.
* *BleLink*: PeerTableIsSound. connect_to_peer lets go of the table while it waits, so
  TableInv has to say that the peer whose answer is awaited is still in the table when
  the lock is taken again; with that every step leaves the table's domain and the
  vector alone or changes both for one peer (OneChanges).
* *SimulationRun*: RunsAreSound. A verdict compares what players received with the
  check; HasHeard says that what they received is exactly what was sent in this
  scenario, and RunInv that no step follows the checks, which would make them stale.
* *Failover*: RoutesAreSound. That every choice is healthy is a lemma for each strategy,
  whatever the state (ChoicesHealthy). For the checks, RouteInv says that a transport
  not waited for has none under way.
* *RateLimiter*: RatesAreKept. A limit is about every window of time there ever was, the
  code looks at one. Covered relates them: what was allowed and still counts is in the
  global window, and in its peer's unless that was evicted. A peer is forgotten after two
  windows of quiet; AccessKept (no event is later than the peer's last access) makes
  that harmless (QuietPeers).

**StoreProofs** is about what becomes of messages.

* *MessageStore*: StoreInvariance, StoreIsSound, and the refinement StoreImplementsLog.
  An id is a hash of everything else in a message, so it names one message (SameId), and
  each index is determined by the set of messages: StoreInv (SoundContents) says that
  both indices equal the ones computed from the messages, that the counters are the
  cardinalities, and that both limits hold. RemoveSound and InsertSound carry it through
  the one removal and the one insertion the code has, RoomMade through the clean-up that
  enforce_capacity_limits tries before it refuses. For the refinement, initial states map
  to initial states and StoreSteps classifies each step: a message taken in, messages
  removed (all before the cut-off, OldIsExpired), a refusal counted, or time.
* *Delivery*: DeliveryIsSound. The statuses are earned at the recipient, so ReceiptsOK
  says that every receipt on the network was, and that the count of receipts issued is
  zero where none is remembered. SenderOK relates the three maps: an unused uuid is in
  none of them, a tracked one has its id, a confirmed one cannot become ready again.
  Spaced says that attempt i carries the delay RetryDelay(i - 1) and lies in the past,
  without which BackoffKept does not carry over to the next attempt.

**NodeProofs** is about a running node.

* *CoreLogic*: NodeIsSound and the action property NoneSkipped. EarlyState is what the
  handlers can bring a connection to; ResultOK says that a handler returns at most one app
  event and effects for existing transports, from which the capacities follow
  (ConcludeOK). ble_due counts the packets of the BLE transport still in its hands or in
  the queue (BleLosesNothing), which needs that only the BLE loop enqueues under its name.
  That a missed effect leaves its mark until the loop ends (missed implies lagged) gives
  NoEffectSkipped.
* *VirtualClock*: WokenSleepersGoOn. ClockInv: a woken sleeper's time has come, unless the
  clock was set back.
* *NostrTransport*: NostrIsSound. EventOnRelayOK: an event that is no gift wrap is signed
  by its author; a gift wrap is for a key whose secret nobody has, so no node opens it.
  NostrInv adds that a core has heard something only of a listener that was started, whose
  peer id does not change.
* *BleAdvertising*: AdvertisingIsSound. StartOutcome says what a start does after it failed
  at each of its steps, and on macOS after the system ignored it; AdvInv ties flag, handle
  and air for each platform, on macOS in one direction only.
* *RelayManager*: RelaysAreSound. StrikesTell relates the failures in a row of one relay to
  its health.
* *CliApp*: CliIsSound. CliInv: before an identity is announced or used there is none, and
  where one is configured both are the configured one.
* *Configuration*: ConfigurationsAreSound. ConfigInv: every section of a finished
  configuration comes from a constructor of that section or from the application (Filled),
  and an accepted one is valid as it stands now. Each section's constructors satisfy what
  validate asks of it (ChannelsValid to LimitsValid).
* *TerminalUi*: DisplayIsSound, an action property.
* *TaskSupervisor*: AnnouncedAreAnswered, the safety half of SupervisionSound. QueueOrdered:
  a Shutdown is the last in the storage queue and the ingress task, which alone enqueues,
  is gone by then; what was announced is answered or in the queue.
* *RuntimeLifecycle*: SenderFeedsItsCore, the safety half of RuntimeSound: inductive as it
  stands.

Several definitions of the models were written for the provers without changing what they
mean: records are built whole where SMT does not handle nested EXCEPT, vectors whose order
nothing reads are counts or sets, and a choice by sorting is an ordered pair.

Loops of the code are recursive functions on an interval, a search for an oldest entry is a
choice of a least one.

Only model-checked is the liveness: ShutdownCompletes, CommandsServed, Quiesces,
PrivateReaches and the leads-to parts of RuntimeSound and SupervisionSound, since fairness
and ENABLED are outside the prover; and the absence of deadlock. Every other property of a
passing run is stated by a theorem.


## 6. Findings and divergences

Five runs show the code doing otherwise than its comments or documents say:

1. **connection_lost_peer** (`bitchat-runtime/src/managers/connection.rs:98`):
   the state is taken out of the map before `transition(event)?`; an invalid
   event loses the peer without counting it as removed.
2. **core_lag** (`bitchat-ble/src/transport.rs:128`, and the Nostr loop at
   `bitchat-nostr/src/transport.rs:190`): "Effect channel closed, shutting down"
   is also the end of a loop that only lagged; it stops for good while the core
   runs on.
3. **delivery_read_supersedes** (`bitchat-core/src/protocol/delivery.rs:555`): a
   late acknowledgement replaces Read by Delivered, against "read receipt
   supersedes delivery ack" (line 573).
4. **mesh_broadcast** (`bitchat-ble/src/transport.rs:429`): a broadcast counts as
   for us and is never forwarded, against `docs/protocol-architecture.md:446`.
5. **ble_maintenance** (`bitchat-ble/src/transport.rs:155`): both timers are made
   anew in each turn of the loop, so the scan after 5 s always comes first and the
   "Periodic maintenance" after 30 s never runs; stale peers are never removed.

Seen while reading the source for the models; the models do what the code does
where the line is modelled, and no run is devoted to these.

Sessions, identities, connections, core:

* `session.rs:177`: the fingerprint of the other end is taken from the handshake and
  compared with nothing, the peer id the session is filed under included; a caller that
  wants the peer it asked for has to compare them.
* `verification.rs:228-243`: the signature of a response is checked under the signing
  key in the response. A success says that the holder of that key answered this challenge,
  not that it is the key, or the peer, of the code that was scanned.
* `docs/protocol-architecture.md:223` says the cache of identities is persisted to the
  Keychain; the one SecureStorage in the repository (`storage.rs:176-183`) keeps it in
  memory. `manager.rs:352`: a panic clears memory and key first, so where the storage
  refuses, its copy stays and nothing ever overwrites it.
* `communication.rs:32` documents ConnectToPeer as "Initiate connection to a peer", and
  Command and app event know a connected state. The handlers bring no peer past
  Discovering: no effect asks a transport to connect, and no transport of the repository
  reports a connection.
* `app_orchestrator.rs:213`: the terminal interface, which alone holds the receiver of the
  app events, is built and never run. The liveness of the core has the premise
  AppEventsDrained for that reason (4).
* `session.rs:354`: after start_rekey no call brings a session back; both
  handshake operations demand Handshaking. SessionShape includes that
  complete_rekey is never possible.
* `connection_state.rs:207`: timeouts in seconds are added to a clock in
  milliseconds. ConnectionState models the sum as it is.
* `handlers.rs:62`: a message is stored and counted as sent before its session is
  found missing. `handlers.rs:145`: effects returned by a transition are dropped
  although the comment says they are handled. `handlers.rs:258`, `:293`: the
  status told to the UI is not always the state stored, and a message received
  from a peer in Discovering puts it back to Disconnected.
* `logic/task.rs:185`: when every event sender is gone the receive returns at
  once, again and again, and the loop goes on around it.
* `rate_limiter.rs:207`: evicting a peer from a full table also forgets its
  recent events. PeerRate exempts evicted peers for that reason.
* `tasks.rs:193`: every command passes the rate limiter first, Shutdown too.
* `tasks.rs:179`: an ingress task that ends because its channels closed tells nobody, and
  the session and the storage task wait on, since the supervisor keeps a sender to each.
* `tasks.rs:540`: the storage task answers StoreMessage with MessageStored and stores
  nothing.
* `runtime.rs:345`, `:353`: a second start finds no transports; a transport that
  fails to start leaves the core running. RuntimeSound says what holds all the
  same.

Transports:

* `bitchat-ble/src/transport.rs:455`: duplicates are delivered as often as they
  arrive; line 443: a packet with TTL 1 is still relayed, with TTL 0.
* `nip17.rs:216`: a private gift wrap is encrypted for a key made on the spot,
  so nobody can open it, its recipient included, against
  `nip17.rs:293` ("for decrypting received messages").
* `bitchat-nostr/src/transport.rs:326`: the listener takes a copy of the peer id when it
  starts; a change after that does not reach it.
* `advertising/macos.rs:269-271`: startAdvertising returns nothing, and the flag is set
  whatever the system does.
* `relay_manager.rs:385`: is_connected is set by a success and never cleared.

Protocol library:

* `fragmentation.rs:382`: lru_order may name a key twice or name one that is
  gone; the limit holds all the same (LimitHolds), the order is not exactly least
  recent first. `fragmentation.rs:240`: a fragment size no larger than the header
  divides by zero; FragmentsCarryData says that no valid configuration has one.
* `delivery.rs:244`: mark_sent looks at no status. `delivery.rs:575`: a read
  receipt does not confirm the message in the core tracker; `delivery.rs:644`: the
  two extra maps are pruned in one of the three clean-ups only.
* `acknowledgments.rs:238`: at its limit the record of sent receipts drops
  arbitrary entries, so a receipt may be sent again.
* `message_store.rs:431`: milliseconds are compared with a cut-off in seconds, so
  the clean-up finds only messages stamped in seconds.
* `wire.rs:342`: data that fill a block get no padding, and a padding of more than
  255 bytes has its length cut to one byte. PaddedArrives says for which packets
  the decoder still gets back what was encoded.
* `message_store.rs:556`: a query for a range of times whose start is after its end
  panics in BTreeMap::range; in the model its result is Panicked, and QueriesComplete speaks
  of the other ranges.
* `capabilities.rs:487-494`: an answer does not end the watch over a hello, so a peer that
  answered is made a legacy one when its time is up, against "peers that haven't responded"
  (line 533), and keeps its core features only. FeaturesMutual allows exactly that.
* `group_messaging.rs:711-761`: a kicked member comes back with a late join or a stale
  copy of the group, and a kick is applied whoever sent it. `file_transfer.rs:433`: the last
  chunk completes a transfer that was cancelled.
* `message.rs:429`, `:432`: the number and the lengths of mentions are cut to one
  byte. MessagesSurvive is about messages within these lengths.

Applications and simulator:

* `bitchat-cli/src/main.rs:97`: stop returns at once when a quit has already
  cleared the flag, so tasks are not stopped. `main.rs:516`: the peer id is
  computed anew for the Ready event; without a name it is another one.
* `app_orchestrator.rs:306`: resuming marks a transport as running and starts no
  task.
* `bitchat-web/src/app.rs:284`: start drops the far ends of both channels when it
  returns, so every command fails and the event loop ends at once, against the
  documentation at line 272.
* `simulation_executor.rs:128`: the current time is always zero; `:449`:
  partitioning has no effect. `network_router.rs:241`: the receiver of what a peer
  sends through its handle is dropped. `network_router.rs:317`: what a removed peer had
  sent and the router not yet taken is still delivered; remove_peer purges the queue only.


## 7. What is not modelled

* Cryptographic strength: Noise, signatures, NIP-04 and hashes are symbolic (2).
* Platform calls: GATT writes in chunks of the MTU, notifications, sockets to
  relays, browser APIs. Their outcomes appear as success or failure of a step and
  as links that change.
* Byte layouts that are plain conversions with round-trip tests: the fragment
  header, packets embedded in Nostr events, Noise payload envelopes, receipts,
  the remaining message types.
* A caller of the delivery tracker that transmits between reading the retry list
  and calling mark_sent: the repository has no such caller; mark_sent would turn
  a message confirmed in between back to Sent. Likewise set_config and
  confirm_delivery called directly.
* Back-off multipliers that are not whole numbers (the code takes an f32).
* The runtime's own delivery manager (`bitchat-runtime/src/managers/delivery.rs`):
  a second copy of the plain tracker, to which the storage task only adds.
* Restarts by the supervisor: supervisor.rs performs none; its run loop, which
  nothing spawns, only logs.
* The web application: its start drops the far ends of both channels before it returns
  (`bitchat-web/src/app.rs:284`, `:287`), so nothing is left of its loop but the end.
* Geohash channels: floating point, no state but a location and a channel.
* Errors, monitoring, logging: values, counters nothing reads back, records.
* The command line's argument parser and test subcommands; conversions to
  JavaScript values.
* The virtual simulator's packet analysis and scenario files; the device
  simulator, which drives emulators and phones through external processes.


## 8. Plan

Done: every component of the inventory but the web application has its module, the runs
of section 3 pass, and every safety property they check is proved. What could be added, in order of value:

1. Further refinements: Fragmentation as a lossy channel of messages; CoreLogic's channels
   as queues.
2. The decoder on bytes no encoder wrote: PacketsReadBack and its like say what becomes of
   what was encoded, not that everything else is refused.
3. Models of what section 7 leaves out, as soon as the repository gives it a caller.
