----------------------------- MODULE FileTransfer -----------------------------
(***************************************************************************)
(* FileTransferManager (bitchat-core, protocol/file_transfer.rs) at both   *)
(* ends of a transfer. Offers, answers, chunks and completions travel over *)
(* a network that loses, repeats, delays and reorders them.                *)
(*                                                                         *)
(* Chunk contents are their index and whether they still match their hash; *)
(* names, types and reasons are left out.                                  *)
(***************************************************************************)
EXTENDS Integers, FiniteSets

CONSTANTS
    TransferId,
    FileChunks,       \* total_chunks of an offered file
    TransferTimeout,  \* TRANSFER_TIMEOUT_SECONDS
    MaxTransferTime   \* bound: the clock

\* A file has a number of chunks, and times are unsigned.
ASSUME TransferAssumption ==
    FileChunks \in Nat /\ TransferTimeout \in Nat /\ MaxTransferTime \in Nat

VARIABLES
    transfers,     \* transfers[e][id]: the session at end e, or NoTransfer
    transfer_net,  \* everything ever sent
    transfer_now

transferVars == <<transfers, transfer_net, transfer_now>>

End == {"sender", "recipient"}
NoTransfer == [status |-> "None"]
TransferStatus == {"Offered", "InProgress", "Completed", "Failed", "Cancelled"}
Chunks == 0 .. FileChunks - 1
AllReceived(s) == s.chunks = Chunks

Held(e, id) == transfers[e][id] # NoTransfer
Update(e, id, s) == transfers' = [transfers EXCEPT ![e][id] = [s EXCEPT !.last_activity = transfer_now]]

Offer(id, expires) == [type |-> "offer", id |-> id, expires_at |-> expires]
Answer(id, accepted) == [type |-> "accept", id |-> id, accepted |-> accepted]
FileChunk(id, i, intact) == [type |-> "chunk", id |-> id, index |-> i, intact |-> intact]
FileComplete(id, success, hash) == [type |-> "complete", id |-> id, success |-> success, hash |-> hash]
TransmitFile(ms) == transfer_net' = transfer_net \cup ms

from_offer == [status |-> "Offered", chunks |-> {}, last_activity |-> transfer_now]

TransferInit ==
    /\ transfers = [e \in End |-> [id \in TransferId |-> NoTransfer]]
    /\ transfer_net = {}
    /\ transfer_now = 0

-----------------------------------------------------------------------------
\* FileOffer::new draws an id never used before.
start_transfer(id) ==
    /\ \A m \in transfer_net : m.id # id
    /\ TransmitFile({Offer(id, transfer_now + TransferTimeout)})
    /\ Update("sender", id, from_offer)
    /\ UNCHANGED transfer_now

receive_offer(m) ==
    /\ m.type = "offer" /\ transfer_now <= m.expires_at /\ ~Held("recipient", m.id)
    /\ Update("recipient", m.id, from_offer)
    /\ UNCHANGED <<transfer_net, transfer_now>>

\* The recipient's user answers an offer and the answer is applied at home too.
AnswerOffer(id, accepted) ==
    /\ Held("recipient", id) /\ transfers["recipient"][id].status = "Offered"
    /\ TransmitFile({Answer(id, accepted)})
    /\ Update("recipient", id, [transfers["recipient"][id] EXCEPT
           !.status = IF accepted THEN "InProgress" ELSE "Failed"])
    /\ UNCHANGED transfer_now

\* accept and fail ask nothing of the status they replace.
process_accept(e, m) ==
    /\ m.type = "accept" /\ Held(e, m.id)
    /\ Update(e, m.id, [transfers[e][m.id] EXCEPT
           !.status = IF m.accepted THEN "InProgress" ELSE "Failed"])
    /\ UNCHANGED <<transfer_net, transfer_now>>

\* The sender transmits a chunk; the network may damage a copy.
SendChunk(id, i) ==
    /\ Held("sender", id) /\ transfers["sender"][id].status = "InProgress"
    /\ TransmitFile({FileChunk(id, i, TRUE), FileChunk(id, i, FALSE)})
    /\ UNCHANGED <<transfers, transfer_now>>

BugReceiveChunk(s, i) ==
    [s EXCEPT !.chunks = @ \cup {i}, !.status = IF i = FileChunks - 1 THEN "Completed" ELSE @]
receive_chunk(s, i) ==
    LET got == [s EXCEPT !.chunks = @ \cup {i}]
    IN  IF AllReceived(got) THEN [got EXCEPT !.status = "Completed"] ELSE got

process_chunk(m) ==
    /\ m.type = "chunk" /\ Held("recipient", m.id) /\ m.intact
    /\ Update("recipient", m.id, receive_chunk(transfers["recipient"][m.id], m.index))
    /\ UNCHANGED <<transfer_net, transfer_now>>

\* The recipient reports the outcome, success with the hash of what it assembled.
ReportComplete(id) ==
    /\ Held("recipient", id)
    /\ \/ transfers["recipient"][id].status = "Completed" /\ TransmitFile({FileComplete(id, TRUE, TRUE)})
       \/ transfers["recipient"][id].status = "Failed" /\ TransmitFile({FileComplete(id, FALSE, FALSE)})
    /\ UNCHANGED <<transfers, transfer_now>>

MayComplete(s) == s.status = "InProgress" /\ AllReceived(s)

\* complete() returns an error and changes nothing unless every chunk was
\* received here: at the sender none ever is.
process_complete(e, m) ==
    /\ m.type = "complete" /\ Held(e, m.id)
    /\ LET s == transfers[e][m.id]
       IN  \/ m.success /\ m.hash /\ MayComplete(s)
              /\ Update(e, m.id, [s EXCEPT !.status = "Completed"])
           \/ ~(m.success /\ m.hash) /\ Update(e, m.id, [s EXCEPT !.status = "Failed"])
    /\ UNCHANGED <<transfer_net, transfer_now>>

cancel_transfer(e, id) ==
    /\ Held(e, id)
    /\ Update(e, id, [transfers[e][id] EXCEPT !.status = "Cancelled"])
    /\ UNCHANGED <<transfer_net, transfer_now>>

TransferExpired(s) == transfer_now - s.last_activity > TransferTimeout
Over(s) == TransferExpired(s) \/ s.status \in {"Completed", "Failed", "Cancelled"}

cleanup_sessions(e) ==
    /\ transfers' = [transfers EXCEPT ![e] = [id \in TransferId |->
           IF Held(e, id) /\ Over(@[id]) THEN NoTransfer ELSE @[id]]]
    /\ UNCHANGED <<transfer_net, transfer_now>>

TransferTick ==
    /\ transfer_now < MaxTransferTime
    /\ transfer_now' = transfer_now + 1
    /\ UNCHANGED <<transfers, transfer_net>>

TransferNext ==
    \/ \E id \in TransferId :
           \/ start_transfer(id)
           \/ \E accepted \in BOOLEAN : AnswerOffer(id, accepted)
           \/ \E i \in Chunks : SendChunk(id, i)
           \/ ReportComplete(id)
           \/ \E e \in End : cancel_transfer(e, id)
    \/ \E m \in transfer_net :
           \/ receive_offer(m) \/ process_chunk(m)
           \/ process_accept("sender", m) \/ process_complete("sender", m)
    \/ \E e \in End : cleanup_sessions(e)
    \/ TransferTick

TransferSpec == TransferInit /\ [][TransferNext]_transferVars

-----------------------------------------------------------------------------
(* Properties *)

\* No end calls a transfer completed that it did not receive every chunk of,
\* whatever was lost, damaged, repeated, cancelled or restarted (receive_chunk,
\* complete). The sender, which receives none, therefore never does.
CompletedHasAll ==
    \A e \in End, id \in TransferId :
        transfers[e][id].status = "Completed" => AllReceived(transfers[e][id])
=============================================================================
