----------------------------- MODULE SessionSync -----------------------------
(***************************************************************************)
(* MultiDeviceSessionManager (bitchat-core, protocol/session_sync.rs) on   *)
(* every device of one identity. Requests and responses are lost,          *)
(* repeated, delayed and reordered on the way.                             *)
(*                                                                         *)
(* A message reference is its id and its time; a session state is its      *)
(* status and the time of its last change.                                 *)
(***************************************************************************)
EXTENDS Integers, FiniteSets

CONSTANTS
    Device,
    SyncPeer,
    SyncStatus,      \* SessionStatus
    NumRefs,         \* messages there are
    RefStamp,        \* RefStamp[i]: the time of message i
    MaxDevices,      \* MAX_DEVICES_PER_IDENTITY
    MaxRefs,         \* MAX_MESSAGE_REFS
    MaxSyncAge,      \* MAX_SESSION_SYNC_AGE
    OnlineWindow,    \* is_online: five minutes
    SyncInterval,    \* devices_needing_sync: one minute
    MaxSyncTime,     \* bound: the clock
    MaxSyncCalls,    \* bound: the calls of the local users
    MaxSyncMessages  \* bound: the requests and responses sent

\* Message ids, in the order of their keys.
RefId == 1..NumRefs

ASSUME SyncAssumption ==
    /\ NumRefs \in Nat /\ RefStamp \in [RefId -> Nat] /\ MaxSyncAge \in Nat
    /\ MaxRefs \in Nat \ {0} /\ MaxDevices \in Nat \ {0} /\ IsFiniteSet(Device)

VARIABLES
    known_devices,      \* known_devices[d][e]: when e was last seen, or Unseen
    session_states,     \* session_states[d][p], or NoState
    message_refs,       \* message_refs[d]: the ids d holds
    device_sync_times,  \* device_sync_times[d][e], or Unseen
    sync_net,
    sync_now,
    sync_calls          \* counts the calls the bound is about

syncVars == <<known_devices, session_states, message_refs, device_sync_times, sync_net, sync_now,
              sync_calls>>

Unseen == -1
NoState == [status |-> "None", last_sync |-> Unseen]

DeviceInfo(t) == t
SyncInit ==
    /\ known_devices = [d \in Device |-> [e \in Device |-> IF e = d THEN DeviceInfo(0) ELSE Unseen]]
    /\ session_states = [d \in Device |-> [p \in SyncPeer |-> NoState]]
    /\ message_refs = [d \in Device |-> {}]
    /\ device_sync_times = [d \in Device |-> [e \in Device |-> Unseen]]
    /\ sync_net = {}
    /\ sync_now = 0
    /\ sync_calls = 0

KnownTo(d) == {e \in Device : known_devices[d][e] # Unseen}
Called == sync_calls < MaxSyncCalls /\ sync_calls' = sync_calls + 1
Dispatch(m) == Cardinality(sync_net) < MaxSyncMessages /\ sync_net' = sync_net \cup {m}
WithEntry(f, d, e, t) == [f EXCEPT ![d] = [f[d] EXCEPT ![e] = t]]
Synced(d, e) == device_sync_times' = WithEntry(device_sync_times, d, e, sync_now)

-----------------------------------------------------------------------------
\* On a DeviceAnnouncement: a device known already is always let in again.
add_device(d, e) ==
    /\ Called
    /\ Cardinality(KnownTo(d)) < MaxDevices \/ e \in KnownTo(d)
    /\ known_devices' = WithEntry(known_devices, d, e, DeviceInfo(sync_now))
    /\ UNCHANGED <<session_states, message_refs, device_sync_times, sync_net, sync_now>>

\* Nothing keeps a device from removing itself.
remove_device(d, e) ==
    /\ Called
    /\ known_devices' = WithEntry(known_devices, d, e, Unseen)
    /\ device_sync_times' = WithEntry(device_sync_times, d, e, Unseen)
    /\ UNCHANGED <<session_states, message_refs, sync_net, sync_now>>

SessionSyncState(status) == [status |-> status, last_sync |-> sync_now]

update_session(d, p, status) ==
    /\ Called
    /\ session_states' = WithEntry(session_states, d, p, SessionSyncState(status))
    /\ UNCHANGED <<known_devices, message_refs, device_sync_times, sync_net, sync_now>>

OlderRef(i, j) == RefStamp[i] < RefStamp[j] \/ (RefStamp[i] = RefStamp[j] /\ i < j)
Oldest(refs) == CHOOSE i \in refs : \A j \in refs \ {i} : OlderRef(i, j)

BugWithRef(refs, i) ==
    (IF Cardinality(refs) >= MaxRefs
     THEN refs \ {CHOOSE n \in refs : \A j \in refs \ {n} : OlderRef(j, n)} ELSE refs) \cup {i}
\* Room is made even for an id that is there already.
WithRef(refs, i) ==
    (IF Cardinality(refs) >= MaxRefs THEN refs \ {Oldest(refs)} ELSE refs) \cup {i}

add_message_ref(d, i) ==
    /\ Called
    /\ RefStamp[i] <= sync_now
    /\ message_refs' = [message_refs EXCEPT ![d] = WithRef(message_refs[d], i)]
    /\ UNCHANGED <<known_devices, session_states, device_sync_times, sync_net, sync_now>>

create_sync_request(d) ==
    /\ Dispatch([type |-> "request", from |-> d, sessions |-> session_states[d], refs |-> message_refs[d]])
    /\ UNCHANGED <<sync_calls, known_devices, session_states, message_refs, device_sync_times, sync_now>>

\* Only sessions the request lists are answered, and only with newer states.
SessionUpdates(d, m) ==
    {p \in SyncPeer : /\ NoState \notin {m.sessions[p], session_states[d][p]}
                      /\ session_states[d][p].last_sync > m.sessions[p].last_sync}

\* The messages this device misses are listed in the answer and not kept.
process_sync_request(d, m) ==
    /\ m.type = "request" /\ m.from # d
    /\ Dispatch([type |-> "response", from |-> d, to |-> m.from,
                 sessions |-> [p \in SyncPeer |->
                     IF p \in SessionUpdates(d, m) THEN session_states[d][p] ELSE NoState],
                 new |-> message_refs[d] \ m.refs, missing |-> m.refs \ message_refs[d]])
    /\ Synced(d, m.from)
    /\ UNCHANGED <<sync_calls, known_devices, session_states, message_refs, sync_now>>

\* The new messages come in the order of their keys, each as if it were the only one.
WithRefs(refs, new) ==
    LET held[i \in 0..NumRefs] ==
            IF i = 0 THEN refs ELSE IF i \in new THEN WithRef(held[i - 1], i) ELSE held[i - 1]
    IN  held[NumRefs]

\* An update replaces whatever state there is by now.
process_sync_response(d, m) ==
    /\ m.type = "response" /\ m.to = d
    /\ session_states' = [session_states EXCEPT ![d] = [p \in SyncPeer |->
           IF m.sessions[p] # NoState THEN m.sessions[p] ELSE session_states[d][p]]]
    /\ message_refs' = [message_refs EXCEPT ![d] = WithRefs(message_refs[d], m.new)]
    /\ Synced(d, m.from)
    /\ UNCHANGED <<sync_calls, known_devices, sync_net, sync_now>>

Aged(t) == sync_now - t > MaxSyncAge

cleanup_old_data(d) ==
    LET gone == {e \in KnownTo(d) \ {d} : Aged(known_devices[d][e])}
    IN  /\ known_devices' = [known_devices EXCEPT ![d] = [e \in Device |->
               IF e \in gone THEN Unseen ELSE known_devices[d][e]]]
        /\ device_sync_times' = [device_sync_times EXCEPT ![d] = [e \in Device |->
               IF e \in gone THEN Unseen ELSE device_sync_times[d][e]]]
        /\ message_refs' = [message_refs EXCEPT ![d] = {i \in message_refs[d] : ~Aged(RefStamp[i])}]
        /\ UNCHANGED <<sync_calls, session_states, sync_net, sync_now>>

is_online(t) == sync_now - t < OnlineWindow
devices_needing_sync(d) ==
    {e \in KnownTo(d) \ {d} :
        /\ is_online(known_devices[d][e])
        /\ device_sync_times[d][e] = Unseen \/ sync_now - device_sync_times[d][e] > SyncInterval}

\* The application asks the devices that need it.
RequestSync(d) == devices_needing_sync(d) # {} /\ create_sync_request(d)

SyncTick ==
    /\ sync_now < MaxSyncTime
    /\ sync_now' = sync_now + 1
    /\ UNCHANGED <<sync_calls, known_devices, session_states, message_refs, device_sync_times, sync_net>>

SyncNext ==
    \/ \E d \in Device :
           \/ RequestSync(d) \/ cleanup_old_data(d)
           \/ \E e \in Device : add_device(d, e) \/ remove_device(d, e)
           \/ \E p \in SyncPeer, s \in SyncStatus : update_session(d, p, s)
           \/ \E i \in RefId : add_message_ref(d, i)
           \/ \E m \in sync_net : process_sync_request(d, m) \/ process_sync_response(d, m)
    \/ SyncTick

SyncSpec == SyncInit /\ [][SyncNext]_syncVars

-----------------------------------------------------------------------------
(* Properties *)

\* A response under way to d brings message i (again).
BroughtTo(d, i) == \E m \in sync_net : m.type = "response" /\ m.to = d /\ i \in m.new

\* The references a device gives up are older than the ones it keeps, also when a
\* late or repeated response brings several at once into a full table
\* (add_message_ref, process_sync_response, cleanup_old_data). One that the response
\* brings again may have been given up and taken back on the way: it stays, however
\* old it is, and a newer one goes.
OldestGoFirst ==
    \A d \in Device : \A lost \in message_refs[d] \ message_refs'[d],
                         kept \in message_refs[d] \cap message_refs'[d] :
        OlderRef(lost, kept) \/ BroughtTo(d, kept)

\* Neither table outgrows its limit, whatever the other devices send.
TablesBounded ==
    \A d \in Device : /\ Cardinality(message_refs[d]) <= MaxRefs
                      /\ Cardinality(KnownTo(d)) <= MaxDevices

\* The tables of a device stay within their limits and give up the oldest first
\* (add_message_ref, process_sync_response, cleanup_old_data).
SyncSound == [][TablesBounded' /\ OldestGoFirst]_syncVars
=============================================================================
