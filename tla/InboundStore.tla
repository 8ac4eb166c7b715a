---------------------------- MODULE InboundStore ----------------------------
(***************************************************************************)
(* The inbound message store of one inbox (internal/inbound): one record   *)
(* per message in a bbolt bucket, an index from (UIDVALIDITY, UID) that    *)
(* makes a re-fetch idempotent, and the body as a blob file.  A bbolt      *)
(* Update is one exclusive transaction, so each operation is one step;     *)
(* only the blob that RemoveSynced deletes goes in a step of its own,      *)
(* after the commit.                                                       *)
(***************************************************************************)
EXTENDS Naturals

CONSTANTS
    MaxId,        \* bound on the records ever stored
    MaxUid,       \* bound on the UIDs of one upstream UID space
    MaxValidity,  \* bound on the UIDVALIDITY values
    Eager         \* an assessment hook is installed: the body comes with the sync

ASSUME InboundStoreAssumption ==
    /\ MaxId \in Nat /\ MaxUid \in Nat /\ MaxValidity \in Nat \ {0}
    /\ Eager \in BOOLEAN

VARIABLES
    seq,     \* the bucket's sequence
    recs,    \* the records
    index,   \* the dedup index: <<validity, uid>> of synced records
    blobs    \* ids with a blob file

storeVars == <<seq, recs, index, blobs>>

Ids == 1..MaxId
Uids == 1..MaxUid
Validities == 1..MaxValidity

Record ==
    [kind : {"absent", "generated", "synced"}, uid : 0..MaxUid,
     validity : 0..MaxValidity, pending : BOOLEAN]

NoRecord == [kind |-> "absent", uid |-> 0, validity |-> 0, pending |-> FALSE]

Generated == [NoRecord EXCEPT !.kind = "generated"]

Synced(v, u) == [kind |-> "synced", uid |-> u, validity |-> v, pending |-> ~Eager]

(* The index key of a record.                                              *)
Key(r) == <<r.validity, r.uid>>

Live == {id \in Ids : recs[id].kind # "absent"}

Present(r) == r.kind # "absent" /\ ~r.pending

StoreTypeOK ==
    /\ seq \in 0..MaxId
    /\ recs \in [Ids -> Record]
    /\ index \in SUBSET (Validities \X Uids)
    /\ blobs \in SUBSET Ids

StoreInit ==
    /\ seq = 0
    /\ recs = [id \in Ids |-> NoRecord]
    /\ index = {}
    /\ blobs = {}

-----------------------------------------------------------------------------
(* put: the next id; the blob of a present message is written first, in    *)
(* the transaction.                                                        *)
PutNew(r) ==
    /\ seq < MaxId
    /\ seq' = seq + 1
    /\ recs' = [recs EXCEPT ![seq + 1] = r]
    /\ blobs' = IF r.pending THEN blobs ELSE blobs \cup {seq + 1}

(* A failed transaction rolls the sequence back and may leave the blob.    *)
PutNewFails(r) ==
    /\ seq < MaxId
    /\ blobs' = IF r.pending THEN blobs ELSE blobs \cup {seq + 1}
    /\ UNCHANGED <<seq, recs, index>>

AddGenerated == PutNew(Generated) /\ UNCHANGED index

(* addSynced: an indexed message is a no-op.                               *)
MutAddSyncedWithoutIndex(v, u) ==
    PutNew(Synced(v, u)) /\ index' = index \cup {<<v, u>>}

AddSynced(v, u) ==
    IF <<v, u>> \in index
    THEN UNCHANGED storeVars
    ELSE PutNew(Synced(v, u)) /\ index' = index \cup {<<v, u>>}

(* SetContentAssessed: fills whatever record the id names now.             *)
SetContent(id) ==
    /\ recs[id].kind # "absent"
    /\ recs' = [recs EXCEPT ![id] = [@ EXCEPT !.pending = FALSE]]
    /\ blobs' = blobs \cup {id}
    /\ UNCHANGED <<seq, index>>

(* RemoveSynced's transaction: record and index entry.                     *)
Removable(id) == recs[id].kind = "synced"

RemoveSynced(id) ==
    /\ Removable(id)
    /\ recs' = [recs EXCEPT ![id] = NoRecord]
    /\ index' = index \ {Key(recs[id])}
    /\ UNCHANGED <<seq, blobs>>

DeleteBlob(id) == blobs' = blobs \ {id} /\ UNCHANGED <<seq, recs, index>>

(* sweepOrphans, when the store is opened.                                 *)
MutSweepKeepsSynced ==
    /\ blobs' = {id \in blobs : recs[id].kind = "synced"}
    /\ UNCHANGED <<seq, recs, index>>

SweepOrphans == blobs' = blobs \cap Live /\ UNCHANGED <<seq, recs, index>>
=============================================================================
