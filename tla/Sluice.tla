------------------------------- MODULE Sluice -------------------------------
(***************************************************************************)
(* The outbound message store (internal/sluice, internal/blobstore): one   *)
(* metadata record per trapped submission in a bbolt database, and the raw *)
(* body as one blob file per record.  A bbolt Update is one transaction    *)
(* under an exclusive lock, so each operation below is one action; what a  *)
(* crash or a failed commit can leave behind is a separate outcome.        *)
(*                                                                         *)
(* Bodies are abstracted to the submission they came from, and the text of *)
(* SendErr to the three cases the code tells apart: empty, a failure, and  *)
(* the outcome-unknown prefix.                                             *)
(***************************************************************************)
EXTENDS Naturals

CONSTANTS
    Inboxes,      \* configured inbox names
    NoInbox,      \* the empty AsInbox: sent as stamped
    Addresses,    \* envelope recipients
    Submissions,  \* what agents submit: [inbox, rcpt]
    NoBody,       \* no blob file, no record
    MaxMsgs       \* bound on the number of stored messages

ASSUME SluiceAssumption ==
    /\ NoInbox \notin Inboxes
    /\ Submissions \subseteq [inbox : Inboxes, rcpt : SUBSET Addresses]
    /\ NoBody \notin Submissions
    /\ MaxMsgs \in Nat \ {0}

VARIABLES
    seq,    \* the bucket's sequence: ids 1..seq have been committed
    recs,   \* the metadata bucket
    blobs   \* the blob directory

sluiceVars == <<seq, recs, blobs>>

Ids == 1..MaxMsgs

Statuses == {"absent", "pending", "approved", "rejected", "sent"}

Message ==
    [status : Statuses, sub : Submissions \cup {NoBody},
     decidedBy : {"none", "chain", "bypass"},
     asInbox : Inboxes \cup {NoInbox},
     sendErr : {"none", "failed", "unknown"}, claim : BOOLEAN]

NoRecord ==
    [status |-> "absent", sub |-> NoBody, decidedBy |-> "none",
     asInbox |-> NoInbox, sendErr |-> "none", claim |-> FALSE]

NewRecord(sub) == [NoRecord EXCEPT !.status = "pending", !.sub = sub]

Live == {id \in Ids : recs[id].status # "absent"}

SluiceTypeOK ==
    /\ seq \in 0..MaxMsgs
    /\ recs \in [Ids -> Message]
    /\ blobs \in [Ids -> Submissions \cup {NoBody}]

SluiceInit ==
    /\ seq = 0
    /\ recs = [id \in Ids |-> NoRecord]
    /\ blobs = [id \in Ids |-> NoBody]

-----------------------------------------------------------------------------
(* The blob is written inside the transaction that allocates the id and    *)
(* before it commits.  If the write or the commit fails, or the process    *)
(* stops in between, the sequence rolls back: the id is used again, and an *)
(* orphan blob may stay.                                                   *)

Enqueue(sub) ==
    /\ seq < MaxMsgs
    /\ seq' = seq + 1
    /\ blobs' = [blobs EXCEPT ![seq + 1] = sub]
    /\ recs' = [recs EXCEPT ![seq + 1] = NewRecord(sub)]

EnqueueRolledBack(sub) ==
    /\ seq < MaxMsgs
    /\ blobs' = [blobs EXCEPT ![seq + 1] = sub]
    /\ UNCHANGED <<seq, recs>>

(* Opening the store deletes every blob that no record references.         *)
MutSweepKeepsPending ==
    /\ blobs' = [id \in Ids |->
                   IF recs[id].status = "pending" THEN blobs[id] ELSE NoBody]
    /\ UNCHANGED <<seq, recs>>

SweepOrphans ==
    /\ blobs' = [id \in Ids |-> IF id \in Live THEN blobs[id] ELSE NoBody]
    /\ UNCHANGED <<seq, recs>>

(* Writing one record inside a transaction (putStored).                    *)
Put(id, r) ==
    /\ recs' = [recs EXCEPT ![id] = r]
    /\ UNCHANGED <<seq, blobs>>

(* transitionFromPending: a verdict needs a pending record.                *)
MutPendingAnyRecord(id) == recs[id].status # "absent"

Pending(id) == recs[id].status = "pending"

Approved(r, by, as) ==
    [r EXCEPT !.status = "approved", !.decidedBy = by, !.asInbox = as]

Rejected(r) == [r EXCEPT !.status = "rejected", !.decidedBy = "chain"]

Approve(id, by, as) == Pending(id) /\ Put(id, Approved(recs[id], by, as))

Reject(id) == Pending(id) /\ Put(id, Rejected(recs[id]))

(* A send is recorded on an approved record; on one already sent only a    *)
(* success may be recorded again.  Recording releases the claim.           *)
Recordable(id, res) ==
    \/ recs[id].status = "approved"
    \/ recs[id].status = "sent" /\ res = "ok"

MutSendErrLost(res) == IF res \in {"ok", "unknown"} THEN "none" ELSE "failed"

SendErrOf(res) ==
    CASE res = "ok" -> "none"
      [] res = "unknown" -> "unknown"
      [] OTHER -> "failed"

MutAttemptedKeepsClaim(r, res) ==
    [r EXCEPT !.status = IF res = "ok" THEN "sent" ELSE @,
              !.sendErr = SendErrOf(res)]

Attempted(r, res) ==
    [r EXCEPT !.status = IF res = "ok" THEN "sent" ELSE @,
              !.sendErr = SendErrOf(res),
              !.claim = FALSE]

RecordSendAttempt(id, res) ==
    Recordable(id, res) /\ Put(id, Attempted(recs[id], res))

MutResendableSent(id) == recs[id].sendErr # "none" \/ recs[id].status = "sent"

Resendable(id) == recs[id].status = "approved" /\ recs[id].sendErr # "none"

MutClaimableTwice(id, ack) ==
    Resendable(id) /\ (recs[id].sendErr = "unknown" => ack)

Claimable(id, ack) ==
    /\ Resendable(id)
    /\ ~recs[id].claim
    /\ recs[id].sendErr = "unknown" => ack

Claimed(r) == [r EXCEPT !.claim = TRUE]

ClaimResend(id, ack) == Claimable(id, ack) /\ Put(id, Claimed(recs[id]))

(* At open a claim belongs to a process that stopped in the middle of a    *)
(* re-send; each is turned into an unknown outcome in its own transaction. *)
MutInterruptedAsBefore(r) == [r EXCEPT !.claim = FALSE]

Interrupted(r) == [r EXCEPT !.claim = FALSE, !.sendErr = "unknown"]

ReconcileClaim(id) == recs[id].claim /\ Put(id, Interrupted(recs[id]))
=============================================================================
