----------------------------- MODULE InboundSync -----------------------------
(***************************************************************************)
(* Inbound synchronisation of one inbox (internal/imapsync): the forward   *)
(* pull with its cursor, the reconciliation pass that retracts messages    *)
(* that left the source, with its safety cap and operator release, and the *)
(* body fetched on demand.                                                 *)
(*                                                                         *)
(* The poll loop, STATUS-triggered pulls, the reconcile loop, an           *)
(* operator's release and the agents' reads run concurrently and share     *)
(* only the stores; each step below is one store transaction or one        *)
(* exchange with the upstream.  The upstream mailbox changes by itself:    *)
(* messages arrive and leave, and the mailbox may be reset, which starts a *)
(* new UID space under a new UIDVALIDITY.                                  *)
(***************************************************************************)
EXTENDS InboundStore, FiniteSets

CONSTANTS
    Syncers,     \* concurrent pulls: the poll loop and the on-demand one
    Loop,        \* the inbox's reconcile loop
    Releasers,   \* operator releases of a held inbox
    Readers,     \* on-demand content fetches
    RecentOnly,  \* a recency cutoff is configured (max age)
    OldUids,     \* the UIDs of messages older than the cutoff
    CapFloor, CapNum, CapDen,  \* safety cap: floor, and the fraction CapNum/CapDen
    MaxBounces,  \* bound on the bounces stored
    MaxFaults    \* bound on failures: I/O errors, deadlines, process stops

ASSUME InboundSyncAssumption ==
    /\ Loop \notin Releasers
    /\ RecentOnly \in BOOLEAN
    /\ OldUids \subseteq Uids
    /\ CapFloor \in Nat \ {0}
    /\ CapDen \in Nat \ {0} /\ CapNum \in 1..CapDen
    /\ MaxBounces \in Nat /\ MaxFaults \in Nat

VARIABLES
    mbox,    \* the upstream mailbox: UIDVALIDITY, UIDNEXT, UIDs present
    left,    \* history: messages that left the upstream mailbox
    cursor,  \* the sync cursor: validity and highest synced UID
    latch,   \* the safety cap holds the inbox
    syn,     \* pulls in flight
    rcn,     \* reconcile passes in flight
    rdr,     \* content fetches in flight
    faults   \* failures so far

upVars == <<mbox, left>>
stateVars == <<cursor, latch>>
vars == <<seq, recs, index, blobs, mbox, left, cursor, latch, syn, rcn, rdr, faults>>

Cursor == [validity : 0..MaxValidity, uid : 0..MaxUid]
Passes == {Loop} \cup Releasers

Pull == [pc : {"idle", "load", "store"}, v : 0..MaxValidity, next : 1..MaxUid + 1,
         loaded : Cursor, todo : SUBSET Uids, highest : 0..MaxUid]

Pass == [pc : {"idle", "clear", "check", "cursor", "list", "store", "hold",
               "retract", "unblob"},
         cursor : Cursor, present : SUBSET Uids, gone : SUBSET Ids, del : 0..MaxId]

Fetch == [pc : {"idle", "fetch", "fill", "drop", "unblob"}, id : 0..MaxId,
          v : 0..MaxValidity, uid : 0..MaxUid]

NoCursor == [validity |-> 0, uid |-> 0]
NoPull == [pc |-> "idle", v |-> 0, next |-> 1, loaded |-> NoCursor, todo |-> {},
           highest |-> 0]
NoPass == [pc |-> "idle", cursor |-> NoCursor, present |-> {}, gone |-> {}, del |-> 0]
NoFetch == [pc |-> "idle", id |-> 0, v |-> 0, uid |-> 0]

(* Mailbox(v, n): a UID space just created, with n messages.               *)
Mailbox(v, n) == [validity |-> v, next |-> n + 1, present |-> 1..n]

(* The values each part of the state takes.                                *)
TypeOK ==
    /\ StoreTypeOK
    /\ mbox \in [validity : Validities, next : 1..MaxUid + 1, present : SUBSET Uids]
    /\ left \in SUBSET (Validities \X Uids)
    /\ cursor \in Cursor
    /\ latch \in BOOLEAN
    /\ syn \in [Syncers -> Pull]
    /\ rcn \in [Passes -> Pass]
    /\ rdr \in [Readers -> Fetch]
    /\ faults \in 0..MaxFaults

Init ==
    /\ StoreInit
    /\ \E n \in 0..MaxUid : mbox = Mailbox(1, n)
    /\ left = {}
    /\ cursor = NoCursor
    /\ latch = FALSE
    /\ syn = [t \in Syncers |-> NoPull]
    /\ rcn = [t \in Passes |-> NoPass]
    /\ rdr = [t \in Readers |-> NoFetch]
    /\ faults = 0

Least(S) == CHOOSE x \in S : \A y \in S : x <= y
Largest(S) == CHOOSE x \in S : \A y \in S : y <= x

SetPull(t, p) == syn' = [syn EXCEPT ![t] = p] /\ UNCHANGED <<rcn, rdr>>
SetPass(t, p) == rcn' = [rcn EXCEPT ![t] = p] /\ UNCHANGED <<syn, rdr>>
SetFetch(t, p) == rdr' = [rdr EXCEPT ![t] = p] /\ UNCHANGED <<syn, rcn>>

-----------------------------------------------------------------------------
(* The upstream server.                                                    *)

Arrive ==
    /\ mbox.next <= MaxUid
    /\ mbox' = [mbox EXCEPT !.next = @ + 1, !.present = @ \cup {mbox.next}]
    /\ UNCHANGED <<storeVars, left, stateVars, syn, rcn, rdr, faults>>

Depart(u) ==
    /\ u \in mbox.present
    /\ mbox' = [mbox EXCEPT !.present = @ \ {u}]
    /\ left' = left \cup {<<mbox.validity, u>>}
    /\ UNCHANGED <<storeVars, stateVars, syn, rcn, rdr, faults>>

Reset(n) ==
    /\ mbox.validity < MaxValidity
    /\ mbox' = Mailbox(mbox.validity + 1, n)
    /\ UNCHANGED <<storeVars, left, stateVars, syn, rcn, rdr, faults>>

-----------------------------------------------------------------------------
(* Sync: SELECT; load the cursor and FETCH; store each message; save.      *)

SyncSelect(t) ==
    /\ syn[t].pc = "idle"
    /\ SetPull(t, [NoPull EXCEPT !.pc = "load", !.v = mbox.validity, !.next = mbox.next])
    /\ UNCHANGED <<storeVars, upVars, stateVars, faults>>

(* A cursor of another UID space counts as none.                           *)
MutLastUidAnySpace(c, v) == c.uid

LastUid(c, v) == IF c.validity = v THEN c.uid ELSE 0

(* pullSet: the range up to UIDNEXT, or with a cutoff what the search for  *)
(* recent messages returns.                                                *)
PullSet(next, last) ==
    IF RecentOnly
    THEN {u \in mbox.present \ OldUids : u > last}
    ELSE {u \in mbox.present : u > last /\ u < next}

(* The cursor of a pull that completes.  With a cutoff and nothing recent  *)
(* it is UIDNEXT - 1 even where that is below the cursor loaded.           *)
MutHighestOffByOne(next, last, todo) == Largest(todo \cup {last, next})

Highest(next, last, todo) ==
    IF RecentOnly /\ todo = {} THEN next - 1
    ELSE Largest(todo \cup {last, next - 1})

SyncLoad(t) ==
    LET p == syn[t]
        last == LastUid(cursor, p.v)
        todo == PullSet(p.next, last)
    IN  /\ p.pc = "load"
        /\ mbox.validity = p.v
        /\ SetPull(t, [p EXCEPT !.pc = "store", !.loaded = cursor, !.todo = todo,
                                !.highest = Highest(p.next, last, todo)])
        /\ UNCHANGED <<storeVars, upVars, stateVars, faults>>

(* The mailbox was reset under the session: the FETCH fails.               *)
SyncLosesMailbox(t) ==
    /\ syn[t].pc = "load"
    /\ mbox.validity # syn[t].v
    /\ SetPull(t, NoPull)
    /\ UNCHANGED <<storeVars, upVars, stateVars, faults>>

SyncStore(t) ==
    LET u == Least(syn[t].todo) IN
    /\ syn[t].pc = "store" /\ syn[t].todo # {}
    /\ AddSynced(syn[t].v, u)
    /\ SetPull(t, [syn[t] EXCEPT !.todo = @ \ {u}])
    /\ UNCHANGED <<upVars, stateVars, faults>>

SyncSave(t) ==
    LET new == [validity |-> syn[t].v, uid |-> syn[t].highest] IN
    /\ syn[t].pc = "store" /\ syn[t].todo = {}
    /\ cursor' = IF new # syn[t].loaded THEN new ELSE cursor
    /\ SetPull(t, NoPull)
    /\ UNCHANGED <<storeVars, upVars, latch, faults>>

(* An error or a deadline ends the pull before the cursor is saved.        *)
SyncFails(t) ==
    /\ syn[t].pc # "idle"
    /\ faults < MaxFaults /\ faults' = faults + 1
    /\ \/ UNCHANGED storeVars
       \/ syn[t].todo # {} /\ PutNewFails(Synced(syn[t].v, Least(syn[t].todo)))
    /\ SetPull(t, NoPull)
    /\ UNCHANGED <<upVars, stateVars>>

-----------------------------------------------------------------------------
(* Reconcile and ReleaseReconcile.                                         *)

(* A release needs a held inbox; it clears the latch in a second step.     *)
ReleaseBegin(t) ==
    /\ t \in Releasers /\ rcn[t].pc = "idle"
    /\ latch
    /\ SetPass(t, [NoPass EXCEPT !.pc = "clear"])
    /\ UNCHANGED <<storeVars, upVars, stateVars, faults>>

ReleaseClear(t) ==
    /\ rcn[t].pc = "clear"
    /\ latch' = FALSE
    /\ SetPass(t, [NoPass EXCEPT !.pc = "check"])
    /\ UNCHANGED <<storeVars, upVars, cursor, faults>>

(* Reconcile starts by loading the latch: a held inbox ends the pass.      *)
MutCheckLatchIgnored(t) ==
    /\ rcn[t].pc = IF t = Loop THEN "idle" ELSE "check"
    /\ SetPass(t, [NoPass EXCEPT !.pc = "cursor"])
    /\ UNCHANGED <<storeVars, upVars, stateVars, faults>>

CheckLatch(t) ==
    /\ rcn[t].pc = IF t = Loop THEN "idle" ELSE "check"
    /\ SetPass(t, IF latch THEN NoPass ELSE [NoPass EXCEPT !.pc = "cursor"])
    /\ UNCHANGED <<storeVars, upVars, stateVars, faults>>

(* The cursor is loaded before the listing: the horizon of the pass.       *)
LoadHorizon(t) ==
    /\ rcn[t].pc = "cursor"
    /\ SetPass(t, [rcn[t] EXCEPT !.pc = "list", !.cursor = cursor])
    /\ UNCHANGED <<storeVars, upVars, stateVars, faults>>

(* ListUpstreamUIDs, and the skip when the UID space is not the cursor's.  *)
ListUpstream(t) ==
    /\ rcn[t].pc = "list"
    /\ SetPass(t, IF rcn[t].cursor.validity # mbox.validity THEN NoPass
                  ELSE [rcn[t] EXCEPT !.pc = "store", !.present = mbox.present])
    /\ UNCHANGED <<storeVars, upVars, stateVars, faults>>

(* A pending record of another UID space than the listed one.              *)
MutOrphanReadable(r, v) == r.kind = "synced" /\ r.validity # v

Orphan(r, v) == r.kind = "synced" /\ r.validity # v /\ r.pending

(* A record the listing can judge: not above the horizon.                  *)
MutJudgedFresh(r, c) == r.kind = "synced" /\ r.validity = c.validity

MutJudgedByLaterCursor(r, c) ==
    r.kind = "synced" /\ r.validity = c.validity /\ r.uid <= cursor.uid

MutJudgedBelow(r, c) == r.kind = "synced" /\ r.validity = c.validity /\ r.uid < c.uid

Judged(r, c) == r.kind = "synced" /\ r.validity = c.validity /\ r.uid <= c.uid

Gone(p) ==
    {id \in Ids : \/ Orphan(recs[id], p.cursor.validity)
                  \/ Judged(recs[id], p.cursor) /\ recs[id].uid \notin p.present}

Counted(p) ==
    {id \in Ids : Orphan(recs[id], p.cursor.validity) \/ Judged(recs[id], p.cursor)}

OverCap(gone, counted) ==
    /\ Cardinality(gone) >= CapFloor
    /\ Cardinality(gone) * CapDen > CapNum * Cardinality(counted)

(* List the store, select the candidates, apply the cap.                   *)
ListStore(t) ==
    LET gone == Gone(rcn[t])
        next == IF gone = {} THEN NoPass
                ELSE [rcn[t] EXCEPT !.pc = "retract", !.present = {}, !.gone = gone]
    IN  /\ rcn[t].pc = "store"
        /\ SetPass(t, IF t = Loop /\ OverCap(gone, Counted(rcn[t]))
                      THEN [NoPass EXCEPT !.pc = "hold"] ELSE next)
        /\ UNCHANGED <<storeVars, upVars, stateVars, faults>>

Hold(t) ==
    /\ rcn[t].pc = "hold"
    /\ latch' = TRUE
    /\ SetPass(t, NoPass)
    /\ UNCHANGED <<storeVars, upVars, cursor, faults>>

(* The pass without its first candidate.                                   *)
Rest(p) ==
    LET gone == p.gone \ {Least(p.gone)} IN
    IF gone = {} THEN NoPass ELSE [p EXCEPT !.pc = "retract", !.gone = gone, !.del = 0]

(* One candidate; a record that is gone by now, or a failed transaction,   *)
(* is collected as an error and the pass continues.                        *)
Retract(t) ==
    LET id == Least(rcn[t].gone) IN
    /\ rcn[t].pc = "retract"
    /\ \/ /\ RemoveSynced(id)
          /\ SetPass(t, IF Present(recs[id])
                        THEN [rcn[t] EXCEPT !.pc = "unblob", !.del = id]
                        ELSE Rest(rcn[t]))
          /\ UNCHANGED faults
       \/ /\ ~Removable(id)
          /\ SetPass(t, Rest(rcn[t]))
          /\ UNCHANGED <<storeVars, faults>>
       \/ /\ faults < MaxFaults /\ faults' = faults + 1
          /\ SetPass(t, Rest(rcn[t]))
          /\ UNCHANGED storeVars
    /\ UNCHANGED <<upVars, stateVars>>

RetractBlob(t) ==
    /\ rcn[t].pc = "unblob"
    /\ DeleteBlob(rcn[t].del)
    /\ SetPass(t, Rest(rcn[t]))
    /\ UNCHANGED <<upVars, stateVars, faults>>

(* A failed listing or load, a latch that cannot be saved, a cancelled     *)
(* context.  The blob left by a stop between its two steps is an orphan.   *)
PassFails(t) ==
    /\ rcn[t].pc # "idle"
    /\ faults < MaxFaults /\ faults' = faults + 1
    /\ SetPass(t, NoPass)
    /\ UNCHANGED <<storeVars, upVars, stateVars>>

-----------------------------------------------------------------------------
(* FetchContent of a pending message.                                      *)

FetchBegin(t, id) ==
    /\ rdr[t].pc = "idle"
    /\ recs[id].kind = "synced" /\ recs[id].pending
    /\ SetFetch(t, [pc |-> "fetch", id |-> id, v |-> recs[id].validity,
                    uid |-> recs[id].uid])
    /\ UNCHANGED <<storeVars, upVars, stateVars, faults>>

(* The session: another UID space is refused, a UID that is gone is        *)
(* dropped, else the body is stored.                                       *)
MutFetchBodyErrorIsGone(t) ==
    /\ rdr[t].pc = "fetch"
    /\ SetFetch(t, [rdr[t] EXCEPT !.pc = "drop"])
    /\ UNCHANGED <<storeVars, upVars, stateVars, faults>>

FetchBody(t) ==
    /\ rdr[t].pc = "fetch"
    /\ SetFetch(t, IF rdr[t].v # mbox.validity THEN NoFetch
                   ELSE IF rdr[t].uid \in mbox.present
                        THEN [rdr[t] EXCEPT !.pc = "fill"]
                        ELSE [rdr[t] EXCEPT !.pc = "drop"])
    /\ UNCHANGED <<storeVars, upVars, stateVars, faults>>

FetchFill(t) ==
    /\ rdr[t].pc = "fill"
    /\ SetContent(rdr[t].id) \/ (rdr[t].id \notin Live /\ UNCHANGED storeVars)
    /\ SetFetch(t, NoFetch)
    /\ UNCHANGED <<upVars, stateVars, faults>>

FetchDrop(t) ==
    LET id == rdr[t].id IN
    /\ rdr[t].pc = "drop"
    /\ \/ /\ RemoveSynced(id)
          /\ SetFetch(t, IF Present(recs[id]) THEN [rdr[t] EXCEPT !.pc = "unblob"]
                         ELSE NoFetch)
       \/ ~Removable(id) /\ SetFetch(t, NoFetch) /\ UNCHANGED storeVars
    /\ UNCHANGED <<upVars, stateVars, faults>>

FetchUnblob(t) ==
    /\ rdr[t].pc = "unblob"
    /\ DeleteBlob(rdr[t].id)
    /\ SetFetch(t, NoFetch)
    /\ UNCHANGED <<upVars, stateVars, faults>>

FetchFails(t) ==
    /\ rdr[t].pc # "idle"
    /\ faults < MaxFaults /\ faults' = faults + 1
    /\ SetFetch(t, NoFetch)
    /\ UNCHANGED <<storeVars, upVars, stateVars>>

-----------------------------------------------------------------------------
(* A bounce of the outbound path is stored in the same store.              *)
Bounce ==
    /\ Cardinality({id \in Ids : recs[id].kind = "generated"}) < MaxBounces
    /\ AddGenerated
    /\ UNCHANGED <<upVars, stateVars, syn, rcn, rdr, faults>>

(* The process stops; the store is swept when it is opened again.          *)
Restart ==
    /\ faults < MaxFaults /\ faults' = faults + 1
    /\ SweepOrphans
    /\ syn' = [t \in Syncers |-> NoPull]
    /\ rcn' = [t \in Passes |-> NoPass]
    /\ rdr' = [t \in Readers |-> NoFetch]
    /\ UNCHANGED <<upVars, stateVars>>

Upstream == Arrive \/ (\E u \in Uids : Depart(u)) \/ \E n \in 0..MaxUid : Reset(n)

SyncStep(t) ==
    SyncSelect(t) \/ SyncLoad(t) \/ SyncLosesMailbox(t) \/ SyncStore(t) \/ SyncSave(t)

PassStep(t) ==
    \/ ReleaseClear(t) \/ CheckLatch(t) \/ LoadHorizon(t) \/ ListUpstream(t)
    \/ ListStore(t) \/ Hold(t) \/ Retract(t) \/ RetractBlob(t)

FetchStep(t) == FetchBody(t) \/ FetchFill(t) \/ FetchDrop(t) \/ FetchUnblob(t)

Next ==
    \/ Upstream
    \/ \E t \in Syncers : SyncStep(t) \/ SyncFails(t)
    \/ \E t \in Passes : ReleaseBegin(t) \/ PassStep(t) \/ PassFails(t)
    \/ \E t \in Readers : FetchStep(t) \/ FetchFails(t) \/ \E id \in Ids : FetchBegin(t, id)
    \/ Bounce
    \/ Restart

Spec == Init /\ [][Next]_vars

(* The poll loop and the reconcile loop tick for ever, and every call to   *)
(* the upstream and the stores returns.                                    *)
Fairness ==
    /\ \A t \in Syncers : WF_vars(SyncStep(t))
    /\ \A t \in Passes : WF_vars(PassStep(t))

FairSpec == Spec /\ Fairness

-----------------------------------------------------------------------------
(* Properties.                                                             *)

Stored(v, u) ==
    \E id \in Ids : recs[id].kind = "synced" /\ recs[id].validity = v /\ recs[id].uid = u

Wanted(u) == RecentOnly => u \notin OldUids

(* No silent loss: a message that is still in the mailbox and that the     *)
(* cursor has passed, so that no pull will fetch it again, is in the       *)
(* store, whatever pulls, passes, fetches and failures overlap (C7, #87).  *)
NoLostMail ==
    cursor.validity = mbox.validity =>
        \A u \in mbox.present : u <= cursor.uid /\ Wanted(u) => Stored(mbox.validity, u)

(* One record per upstream message, however pulls overlap and repeat (#87).*)
NoDuplicates ==
    \A i, j \in Ids : recs[i].kind = "synced" /\ recs[j].kind = "synced" /\ i # j
        => Key(recs[i]) # Key(recs[j])

(* A record whose body is marked present has its blob: removal deletes the *)
(* record first, a fetch writes the blob first, and an id is never reused  *)
(* for a late deletion to hit (ADR 0018, RemoveSynced, SetContent).        *)
ContentBacked == \A id \in Live : Present(recs[id]) => id \in blobs

(* Only a synced message goes, and only one that left the source or an     *)
(* unfetched one of a superseded UID space: never a bounce, never a        *)
(* message still upstream, never a readable body (ADR 0026, C8).           *)
RetractsOnlyDeparted ==
    [][\A id \in Live : recs'[id].kind = "absent" =>
         /\ recs[id].kind = "synced"
         /\ \/ Key(recs[id]) \in left
            \/ recs[id].pending /\ recs[id].validity # mbox.validity]_vars

(* While the safety cap holds the inbox, only an operator's release, or a  *)
(* read that finds its message gone, retracts anything: the loop never has *)
(* a purge of its own under way (ErrReconcileHeld).                        *)
LatchHolds == latch => rcn[Loop].pc \notin {"retract", "unblob"}

(* A message that stays in the mailbox is eventually stored.               *)
EventuallyStored ==
    \A v \in Validities, u \in Uids :
        mbox.validity = v /\ u \in mbox.present /\ Wanted(u)
            ~> Stored(v, u) \/ mbox.validity # v \/ u \notin mbox.present

(* The copy of a message that left is eventually retracted, unless the cap *)
(* holds the inbox or the body is kept because its UID space is superseded.*)
EventuallyRetracted ==
    \A v \in Validities, u \in Uids :
        Stored(v, u) /\ <<v, u>> \in left
            ~> ~Stored(v, u) \/ latch \/ mbox.validity # v

=============================================================================
