------------------------------- MODULE Delivery -------------------------------
(***************************************************************************)
(* EnhancedDeliveryTracker (bitchat-core, protocol/delivery.rs) with its   *)
(* ReceiptManager (protocol/acknowledgments.rs), at both ends of a         *)
(* conversation: the sender tracks, transmits, retries and cleans up; the  *)
(* recipient acknowledges what it receives and what it displays. Between   *)
(* them packets are lost, duplicated and reordered.                        *)
(*                                                                         *)
(* Payloads, recipients and nicknames are left out: they are stored and    *)
(* returned, never looked at. Times are multiples of one unit.             *)
(***************************************************************************)
EXTENDS Integers, Sequences, FiniteSets, FiniteSetsExt

CONSTANTS
    Uuid,            \* the names under which the sender tracks messages
    MsgId,           \* content-addressed message identifiers
    Configs,         \* the DeliveryConfigs a tracker may be created with
    MaxReceipts,     \* the receipts a clean-up keeps, 1000 in the code
    MaxAge,          \* the argument of cleanup_by_age
    MaxCount,        \* the argument of cleanup_by_count
    Settings,        \* the privacy settings the recipient's user switches between
    MaxTime          \* bound: the clock

ASSUME DeliveryAssumption ==
    /\ Configs \subseteq [max_retries : Nat, initial_retry_delay : Nat, max_retry_delay : Nat,
                          backoff_multiplier : Nat, confirmation_timeout : Nat]
    /\ {MaxReceipts, MaxAge, MaxCount, MaxTime} \subseteq Nat
    /\ Settings \subseteq [{"ack", "read"} -> BOOLEAN]
    /\ "none" \notin MsgId

\* f64::powi. The assumption is a fact of arithmetic, which the provers do not know.
Power(b, n) == b ^ n
ASSUME PowerAssumption ==
    \A c \in Configs : \A n \in 0 .. c.max_retries : Power(c.backoff_multiplier, n) \in Nat

VARIABLES
    config,     \* the DeliveryConfig, multipliers that are whole numbers
    tracked,    \* tracked_messages of the sender's DeliveryTracker
    mapping,    \* message_id_mapping
    statuses,   \* enhanced_statuses
    wire,       \* what was ever put on the network: packets and receipts
    sent,       \* sent[k]: the recipient's sent_delivery_acks / sent_read_receipts
    enabled,    \* enabled[k]: its privacy settings
    now,        \* the clock
    fresh,      \* ghost: the uuids not used yet (Uuid::new_v4 never repeats one)
    shown,      \* ghost: shown[k]: the messages it received / displayed
    issued,     \* ghost: issued[k][id]: how many receipts it sent, counted up to 2,
                \* since a clean-up last forgot that it had sent one
    acked,      \* ghost: the uuids whose acknowledgement was accepted
    reported    \* ghost: the uuids a clean-up returned as completed or expired

sender == <<config, tracked, mapping, statuses, fresh, acked, reported>>
recipient == <<sent, enabled, shown, issued>>
vars == <<sender, recipient, wire, now>>

Receipt == {"ack", "read"}
NoMessage == [status |-> "None"]
NoId == "none"
Tracked == {u \in Uuid : tracked[u] # NoMessage}
Packet(id) == [type |-> "message", id |-> id]
ReceiptFor(k, id) == [type |-> k, id |-> id]

Init ==
    /\ config \in Configs
    /\ tracked = [u \in Uuid |-> NoMessage]
    /\ mapping = [u \in Uuid |-> NoId]
    /\ statuses = [u \in Uuid |-> "None"]
    /\ wire = {}
    /\ sent = [k \in Receipt |-> {}]
    /\ enabled = [k \in Receipt |-> TRUE]
    /\ now = 0
    /\ fresh = Uuid
    /\ shown = [k \in Receipt |-> {}]
    /\ issued = [k \in Receipt |-> [id \in MsgId |-> 0]]
    /\ acked = {}
    /\ reported = {}

-----------------------------------------------------------------------------
(* TrackedMessage *)

can_retry(u) ==
    /\ Len(tracked[u].attempts) < config.max_retries
    /\ tracked[u].status \in {"Pending", "Sent"}

\* The delay after n earlier attempts.
RetryDelay(n) ==
    Min({config.initial_retry_delay * Power(config.backoff_multiplier, n), config.max_retry_delay})

next_retry_delay(u) == RetryDelay(Len(tracked[u].attempts))

is_timed_out(u) == now - tracked[u].created_at > config.confirmation_timeout

is_ready_for_retry(u) ==
    /\ can_retry(u)
    /\ tracked[u].attempts # <<>>
    /\ LET last == tracked[u].attempts[Len(tracked[u].attempts)]
       IN  now - last.at >= last.delay

-----------------------------------------------------------------------------
(* The sender *)

Updated(u, status, attempts) ==
    tracked' = [tracked EXCEPT ![u] = [status |-> status, attempts |-> attempts,
                                       created_at |-> tracked[u].created_at]]

track_message_with_id(u, id) ==
    /\ u \in fresh
    /\ fresh' = fresh \ {u}
    /\ tracked' = [tracked EXCEPT ![u] =
           [status |-> "Pending", attempts |-> <<>>, created_at |-> now]]
    /\ mapping' = [mapping EXCEPT ![u] = id]
    /\ statuses' = [statuses EXCEPT ![u] = "Sending"]
    /\ UNCHANGED <<recipient, config, wire, now, acked, reported>>

\* A caller transmits once at first, then whatever get_ready_for_retry returns.
MayTransmit(u) ==
    /\ u \in Tracked
    /\ \/ tracked[u].attempts = <<>> /\ tracked[u].status = "Pending"
       \/ is_ready_for_retry(u)

\* mark_sent, where its caller transmits.
mark_sent(u) ==
    /\ MayTransmit(u)
    /\ Updated(u, "Sent",
               Append(tracked[u].attempts, [at |-> now, delay |-> next_retry_delay(u)]))
    /\ wire' = wire \cup {Packet(mapping[u])}
    /\ UNCHANGED <<recipient, config, mapping, statuses, now, fresh, acked, reported>>

\* The uuids an identifier may be resolved to: any the map holds it for.
Named(id) == {u \in Uuid : mapping[u] = id}

\* With no entry, or no longer tracked, nothing changes and the answer is false.
process_delivery_ack(id) ==
    /\ ReceiptFor("ack", id) \in wire
    /\ \E u \in Named(id) \cap Tracked :
           /\ Updated(u, "Confirmed", tracked[u].attempts)
           /\ statuses' = [statuses EXCEPT ![u] = "Delivered"]
           /\ acked' = acked \cup {u}
    /\ UNCHANGED <<recipient, config, mapping, wire, now, fresh, reported>>

\* The core tracker is not told.
process_read_receipt(id) ==
    /\ ReceiptFor("read", id) \in wire
    /\ \E u \in Named(id) : statuses' = [statuses EXCEPT ![u] = "Read"]
    /\ UNCHANGED <<recipient, config, tracked, mapping, wire, now, fresh, acked, reported>>

\* Through delivery_tracker_mut: the enhanced tracker's own maps keep the entry.
mark_failed(u) ==
    /\ u \in Tracked
    /\ Updated(u, "Failed", tracked[u].attempts)
    /\ UNCHANGED <<recipient, config, mapping, statuses, wire, now, fresh, acked, reported>>

Remove(gone) == tracked' = [u \in Uuid |-> IF u \in gone THEN NoMessage ELSE tracked[u]]

cancel_tracking(u) ==
    /\ u \in Tracked
    /\ Remove({u})
    /\ UNCHANGED <<recipient, config, mapping, statuses, wire, now, fresh, acked, reported>>

cleanup_by_age ==
    /\ \E u \in Tracked : now - tracked[u].created_at > MaxAge
    /\ Remove({u \in Tracked : now - tracked[u].created_at > MaxAge})
    /\ UNCHANGED <<recipient, config, mapping, statuses, wire, now, fresh, acked, reported>>

\* The oldest beyond the count; the sort leaves equal times in any order.
cleanup_by_count ==
    /\ Cardinality(Tracked) > MaxCount
    /\ \E out \in SUBSET Tracked :
           /\ Cardinality(out) = Cardinality(Tracked) - MaxCount
           /\ \A u \in out, v \in Tracked \ out : tracked[u].created_at <= tracked[v].created_at
           /\ Remove(out)
    /\ UNCHANGED <<recipient, config, mapping, statuses, wire, now, fresh, acked, reported>>

Done(u) == tracked[u].status \in {"Confirmed", "Failed", "Cancelled"}
Expired == {u \in Tracked : ~Done(u) /\ is_timed_out(u)}
Exhausted == {u \in Tracked : ~Done(u) /\ ~is_timed_out(u) /\ ~can_retry(u)}
Completed == {u \in Tracked : Done(u)} \cup Exhausted

\* Defect: the maps of the enhanced tracker keep what has expired.
BugForgotten == Completed

\* What a clean-up takes out of the maps of the enhanced tracker.
Forgotten == Completed \cup Expired

cleanup ==
    /\ Completed \cup Expired # {}
    /\ Remove(Completed \cup Expired)
    /\ mapping' = [u \in Uuid |-> IF u \in Forgotten THEN NoId ELSE mapping[u]]
    /\ statuses' = [u \in Uuid |-> IF u \in Forgotten THEN "None" ELSE statuses[u]]
    /\ reported' = reported \cup Completed \cup Expired
    /\ UNCHANGED <<recipient, config, wire, now, fresh, acked>>

-----------------------------------------------------------------------------
(* The recipient *)

\* should_send_delivery_ack, should_send_read_receipt
should_send(k, id) == enabled[k] /\ id \notin sent[k]

\* mark_delivery_ack_sent, mark_read_receipt_sent, where the receipt is sent.
Acknowledge(k, id) ==
    IF should_send(k, id)
    THEN /\ sent' = [sent EXCEPT ![k] = @ \cup {id}]
         /\ issued' = [issued EXCEPT ![k] = [issued[k] EXCEPT ![id] = Min({issued[k][id] + 1, 2})]]
         /\ wire' = wire \cup {ReceiptFor(k, id)}
    ELSE UNCHANGED <<sent, issued, wire>>

Receive(id) ==
    /\ Packet(id) \in wire
    /\ shown' = [shown EXCEPT !["ack"] = @ \cup {id}]
    /\ Acknowledge("ack", id)
    /\ UNCHANGED <<sender, enabled, now>>

Display(id) ==
    /\ id \in shown["ack"]
    /\ shown' = [shown EXCEPT !["read"] = @ \cup {id}]
    /\ Acknowledge("read", id)
    /\ UNCHANGED <<sender, enabled, now>>

configure_receipts ==
    /\ enabled' \in Settings
    /\ UNCHANGED <<sender, wire, now, sent, shown, issued>>

\* What a clean-up may keep of a set of receipts: iteration order is arbitrary.
Kept(s) == {keep \in SUBSET s : Cardinality(keep) = Min({Cardinality(s), MaxReceipts})}

\* cleanup at the recipient, who tracks nothing.
cleanup_old_receipts ==
    /\ sent' \in {[k \in Receipt |-> IF k = "ack" THEN a ELSE r] :
                      a \in Kept(sent["ack"]), r \in Kept(sent["read"])}
    /\ issued' = [k \in Receipt |-> [id \in MsgId |->
           IF id \in sent[k] \ sent'[k] THEN 0 ELSE issued[k][id]]]
    /\ UNCHANGED <<sender, enabled, wire, now, shown>>

-----------------------------------------------------------------------------
Tick ==
    /\ now < MaxTime
    /\ now' = now + 1
    /\ UNCHANGED <<sender, recipient, wire>>

Next ==
    \/ \E u \in Uuid, id \in MsgId : track_message_with_id(u, id)
    \/ \E u \in Uuid : mark_sent(u) \/ mark_failed(u) \/ cancel_tracking(u)
    \/ cleanup_by_age \/ cleanup_by_count \/ cleanup
    \/ \E id \in MsgId : process_delivery_ack(id) \/ process_read_receipt(id)
    \/ \E id \in MsgId : Receive(id) \/ Display(id)
    \/ configure_receipts
    \/ cleanup_old_receipts
    \/ Tick

Spec == Init /\ [][Next]_vars

-----------------------------------------------------------------------------
(* Properties *)

Message == [status : {"Pending", "Sent", "Confirmed", "Failed"},
            attempts : Seq([at : 0 .. MaxTime, delay : 0 .. config.max_retry_delay]),
            created_at : 0 .. MaxTime]

\* Types: every retry delay that is recorded stays under its cap.
TypeOK ==
    /\ config \in Configs
    /\ \A u \in Tracked : tracked[u] \in Message
    /\ mapping \in [Uuid -> MsgId \cup {NoId}]
    /\ statuses \in [Uuid -> {"None", "Sending", "Delivered", "Read"}]
    /\ wire \subseteq [type : {"message", "ack", "read"}, id : MsgId]
    /\ sent \in [Receipt -> SUBSET MsgId]
    /\ enabled \in [Receipt -> BOOLEAN]
    /\ now \in 0 .. MaxTime
    /\ fresh \subseteq Uuid /\ acked \subseteq Uuid /\ reported \subseteq Uuid
    /\ shown \in [Receipt -> SUBSET MsgId]
    /\ issued \in [Receipt -> [MsgId -> 0 .. 2]]

\* What the sender shows of a message is true of the recipient, whatever the
\* network did to packets and receipts: delivered means received, read means
\* displayed (process_delivery_ack, process_read_receipt).
ReceiptsTruthful ==
    \A u \in Uuid :
        /\ statuses[u] = "Delivered" => mapping[u] \in shown["ack"]
        /\ statuses[u] = "Read" => mapping[u] \in shown["read"]
        /\ tracked[u].status = "Confirmed" => mapping[u] \in shown["ack"]

\* Attempts are limited (the first is made whatever max_retries says), and two are
\* never closer than the delay that was due after the earlier: it starts at the
\* initial delay and is multiplied each time up to the maximum (next_retry_delay,
\* is_ready_for_retry).
BackoffKept ==
    \A u \in Tracked :
        /\ Len(tracked[u].attempts) <= Max({1, config.max_retries})
        /\ \A i \in 1 .. Len(tracked[u].attempts) - 1 :
               tracked[u].attempts[i + 1].at - tracked[u].attempts[i].at
                   >= RetryDelay(i - 1)

\* A message whose acknowledgement was accepted is never transmitted again,
\* however receipts, retries and clean-ups follow one another (can_retry).
AckedNotRetried == \A u \in acked : ~MayTransmit(u)

\* What a clean-up has returned to the caller is over: no receipt that arrives
\* late or twice finds it in any of the three maps or brings it back (cleanup,
\* process_delivery_ack, process_read_receipt).
ReportedIsFinal ==
    \A u \in reported : tracked[u] = NoMessage /\ mapping[u] = NoId /\ statuses[u] = "None"

\* The recipient never sends two receipts of a kind for a message, however often
\* the packet arrives, the message is displayed or receipts are switched off and
\* on, unless a clean-up at the limit forgot the first (ReceiptManager).
NoDuplicateReceipts ==
    \A k \in Receipt, id \in MsgId : issued[k][id] <= 1

\* A read message stays read: no acknowledgement that arrives later takes its
\* place ("read receipt supersedes delivery ack", process_read_receipt).
ReadSupersedes ==
    [][\A u \in Uuid : statuses[u] = "Read" => statuses'[u] # "Delivered"]_vars

\* The tracker and the receipts tell the truth, finish what they report, repeat
\* nothing and keep their delays (EnhancedDeliveryTracker, ReceiptManager).
DeliverySound ==
    /\ TypeOK /\ ReceiptsTruthful /\ ReportedIsFinal /\ AckedNotRetried
    /\ NoDuplicateReceipts /\ BackoffKept
=============================================================================
