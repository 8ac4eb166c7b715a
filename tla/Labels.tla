------------------------------- MODULE Labels -------------------------------
(***************************************************************************)
(* Keywords of one stored message and their way to the upstream mailbox:   *)
(* the read face's STORE writes the local set and replicates its delta at  *)
(* once; every sync, started by the poll loop or by a STATUS command       *)
(* (OnDemandSync), replicates what is still marked dirty.  A write is a    *)
(* session of its own: read the record, establish an unknown UIDVALIDITY,  *)
(* SELECT, add, remove, clear the mark.                                    *)
(*                                                                         *)
(* The record's UID names, under each validity of the mailbox, this        *)
(* message, another one or none.  Keywords are a set; the \Seen flag is    *)
(* local and left out, as is time: a window elapses, a deadline passes.    *)
(***************************************************************************)
EXTENDS Naturals, FiniteSets

CONSTANTS
    Keywords,
    Sessions,           \* sessions of the read face
    Loop, OnDemand,     \* the two starters of a sync
    MaxValidity,        \* validities the mailbox goes through
    MinInterval,        \* debounce window of on-demand pulls
    Stalls,             \* lengths an on-demand pull may take
    MaxStores,          \* STOREs that change the set
    MaxFaults           \* upstream failures

Syncs == {Loop, OnDemand}
Writers == Sessions \cup Syncs
Validities == 1..MaxValidity

ASSUME LabelsAssumption ==
    /\ MaxValidity \in Nat \ {0} /\ MaxFaults \in Nat /\ MaxStores \in Nat
    /\ MinInterval \in Nat /\ Stalls \subseteq Nat
    /\ Loop # OnDemand /\ Sessions \cap Syncs = {}

VARIABLES
    rec,        \* the stored record
    holds,      \* the message under the record's UID, per validity
    validity,   \* the mailbox's UIDVALIDITY
    labels,     \* keywords upstream, of this message and of another
    cursor,     \* the sync cursor's validity, 0 before the first sync
    view,       \* keywords in each session's snapshot
    w,          \* the writers
    od,         \* the on-demand coordinator's state of the inbox
    exposed,    \* history: keywords a STORE set while something else may drop them
    stores, faults

vars == <<rec, holds, validity, labels, cursor, view, w, od, exposed, stores, faults>>

(* uid: the record has an upstream UID; named: it has a Message-ID.        *)
Record == [kw : SUBSET Keywords, dirty : BOOLEAN, validity : 0..MaxValidity,
           uid : BOOLEAN, named : BOOLEAN]

Steps == {"idle", "pull", "list", "get", "identify", "stamp", "select", "add", "remove",
          "clear", "end"}

(* known: the validity a write has established for the record's UID.       *)
Writer == [pc : Steps, add : SUBSET Keywords, rem : SUBSET Keywords, known : 0..MaxValidity]
Idle == [pc |-> "idle", add |-> {}, rem |-> {}, known |-> 0]

(* Twice the stall, at least the debounce window and at most ten of it.    *)
MutBackoffWindow(min, stall) == IF 2 * stall < min THEN min ELSE 2 * stall

BackoffWindow(min, stall) ==
    LET wide == IF 2 * stall < min THEN min ELSE 2 * stall
    IN  IF min > 0 /\ wide > 10 * min THEN 10 * min ELSE wide

(* How long on-demand pulls of the inbox may be held off.                  *)
Windows == IF MinInterval = 0 THEN Nat ELSE 0..10 * MinInterval

TypeOK ==
    /\ rec \in Record
    /\ holds \in [Validities -> {"this", "other", "none"}]
    /\ validity \in Validities
    /\ labels \in [{"this", "other"} -> SUBSET Keywords]
    /\ cursor \in 0..MaxValidity
    /\ view \in [Sessions -> SUBSET Keywords]
    /\ w \in [Writers -> Writer]
    /\ od \in [inflight : BOOLEAN, window : Windows]
    /\ exposed \subseteq Keywords
    /\ faults \in 0..MaxFaults /\ stores \in 0..MaxStores

(* The record was synced under validity 1, or predates the field and was   *)
(* stored under a validity nobody knows; a bounce has no UID at all.       *)
Init ==
    /\ rec \in {r \in Record : r.kw = {} /\ ~r.dirty /\ r.validity <= 1
                               /\ (~r.uid => r.validity = 0)}
    /\ holds \in [Validities -> {"this", "other", "none"}]
    /\ rec.validity = 1 => holds[1] = "this"
    /\ validity = 1
    /\ labels = [m \in {"this", "other"} |-> {}]
    /\ cursor = 0
    /\ view = [s \in Sessions |-> {}]
    /\ w = [p \in Writers |-> Idle]
    /\ od = [inflight |-> FALSE, window |-> 0]
    /\ exposed = {}
    /\ faults = 0 /\ stores = 0

-----------------------------------------------------------------------------
(* The upstream mailbox.                                                   *)
Reset ==
    /\ validity < MaxValidity
    /\ validity' = validity + 1
    /\ UNCHANGED <<stores, rec, holds, labels, cursor, view, w, od, exposed, faults>>

Stored(add, rem) ==
    labels' = IF holds[validity] = "none" THEN labels
              ELSE [labels EXCEPT ![holds[validity]] = (@ \cup add) \ rem]

-----------------------------------------------------------------------------
(* The store.                                                              *)
SetKeywords(kw) == rec' = [rec EXCEPT !.kw = kw, !.dirty = rec.uid]

ClearKeywordsDirty == rec' = [rec EXCEPT !.dirty = FALSE]

(* Only an unknown validity is filled.                                     *)
StampUIDValidity(v) == rec' = [rec EXCEPT !.validity = IF @ = 0 THEN v ELSE @]

-----------------------------------------------------------------------------
(* The read face.                                                          *)
Select(s) ==
    /\ w[s].pc = "idle"
    /\ view' = [view EXCEPT ![s] = rec.kw]
    /\ UNCHANGED <<stores, rec, holds, validity, labels, cursor, w, od, exposed, faults>>

ApplyKeywordOp(current, op, kw) ==
    CASE op = "add" -> current \cup kw
      [] op = "del" -> current \ kw
      [] op = "set" -> kw

(* A write is under way from its read of the record to its clearing of the *)
(* mark.                                                                   *)
Writing(p) ==
    w[p].pc \in {"get", "identify", "stamp", "select", "add", "remove", "clear"}

(* History, of a STORE that makes the set next: what it keeps is exposed   *)
(* while an earlier change waits for its retry, since the success of this  *)
(* write clears the mark of both; so is what it puts back from a stale     *)
(* snapshot, which it does not send; and what it adds is exposed to a      *)
(* write already under way, which clears the mark without having sent it,  *)
(* or is still to take it off upstream.                                    *)
Exposes(s, next) ==
    exposed' = (exposed \cap next)
               \cup (IF rec.dirty THEN next \cap view[s] ELSE (next \cap view[s]) \ rec.kw)
               \cup (IF \E q \in Writers \ {s} : Writing(q) THEN next \ view[s] ELSE {})

(* STORE: the new set is computed from the session's snapshot.             *)
Store(s, op, kw) ==
    LET next == ApplyKeywordOp(view[s], op, kw) IN
    /\ w[s].pc = "idle"
    /\ next # view[s]
    /\ SetKeywords(next)
    /\ view' = [view EXCEPT ![s] = next]
    /\ w' = IF rec.uid
            THEN [w EXCEPT ![s] = [pc |-> "get", add |-> next \ view[s],
                                   rem |-> view[s] \ next, known |-> 0]]
            ELSE w
    /\ Exposes(s, next)
    /\ stores < MaxStores /\ stores' = stores + 1
    /\ UNCHANGED <<holds, validity, labels, cursor, od, faults>>

-----------------------------------------------------------------------------
(* A sync: the pull, then reconcileKeywords.                               *)
Begin(p) == w' = [w EXCEPT ![p] = [Idle EXCEPT !.pc = "pull"]]

Poll ==
    /\ w[Loop].pc = "idle"
    /\ Begin(Loop)
    /\ UNCHANGED <<stores, rec, holds, validity, labels, cursor, view, od, exposed, faults>>

(* OnDemandSync.Trigger, up to the pull.                                   *)
Trigger ==
    /\ ~od.inflight /\ od.window = 0
    /\ od' = [od EXCEPT !.inflight = TRUE]
    /\ Begin(OnDemand)
    /\ UNCHANGED <<stores, rec, holds, validity, labels, cursor, view, exposed, faults>>

Elapse ==
    /\ od.window # 0
    /\ od' = [od EXCEPT !.window = 0]
    /\ UNCHANGED <<stores, rec, holds, validity, labels, cursor, view, w, exposed, faults>>

(* Trigger ends: the flag is cleared, the window starts.                   *)
Completed(window) == od' = [inflight |-> FALSE, window |-> window]

(* The pull fails; one cut off by its own context backs off.               *)
MutPullFails(p) ==
    /\ w[p].pc = "pull" /\ faults < MaxFaults
    /\ faults' = faults + 1
    /\ w' = [w EXCEPT ![p] = Idle]
    /\ UNCHANGED <<stores, rec, holds, validity, labels, cursor, view, od, exposed>>

PullFails(p) ==
    /\ w[p].pc = "pull" /\ faults < MaxFaults
    /\ faults' = faults + 1
    /\ w' = [w EXCEPT ![p] = Idle]
    /\ IF p = OnDemand
       THEN \/ Completed(MinInterval)
            \/ \E stall \in Stalls : Completed(BackoffWindow(MinInterval, stall))
       ELSE UNCHANGED od
    /\ UNCHANGED <<stores, rec, holds, validity, labels, cursor, view, exposed>>

Pull(p) ==
    /\ w[p].pc = "pull"
    /\ cursor' = validity
    /\ w' = [w EXCEPT ![p] = [Idle EXCEPT !.pc = "list"]]
    /\ UNCHANGED <<stores, rec, holds, validity, labels, view, od, exposed, faults>>

(* DirtyKeywords: the wanted set as it is now, to be added again.          *)
MutListDirty(p) ==
    /\ w[p].pc = "list"
    /\ w' = [w EXCEPT ![p] = [Idle EXCEPT !.pc = "end"]]
    /\ UNCHANGED <<stores, rec, holds, validity, labels, cursor, view, od, exposed, faults>>

ListDirty(p) ==
    /\ w[p].pc = "list"
    /\ w' = [w EXCEPT ![p] = IF rec.dirty
                             THEN [Idle EXCEPT !.pc = "get", !.add = rec.kw]
                             ELSE [Idle EXCEPT !.pc = "end"]]
    /\ UNCHANGED <<stores, rec, holds, validity, labels, cursor, view, od, exposed, faults>>

EndSync(p) ==
    /\ w[p].pc = "end"
    /\ w' = [w EXCEPT ![p] = Idle]
    /\ IF p = OnDemand THEN Completed(MinInterval) ELSE UNCHANGED od
    /\ UNCHANGED <<stores, rec, holds, validity, labels, cursor, view, exposed, faults>>

-----------------------------------------------------------------------------
(* WriteKeywords.                                                          *)
Goto(p, pc, known) == w' = [w EXCEPT ![p] = [@ EXCEPT !.pc = pc, !.known = known]]

(* A write ends.  History: when no other is under way, what has reached    *)
(* the mailbox is out of danger.                                           *)
Rest(p) ==
    /\ w' = [w EXCEPT ![p] = IF p \in Syncs THEN [Idle EXCEPT !.pc = "end"] ELSE Idle]
    /\ exposed' = IF \E q \in Writers \ {p} : Writing(q) THEN exposed
                  ELSE exposed \ labels["this"]

(* An empty change succeeds at once.                                       *)
Get(p) ==
    /\ w[p].pc = "get"
    /\ Goto(p, IF w[p].add = {} /\ w[p].rem = {} THEN "clear"
               ELSE IF rec.validity = 0 THEN "identify" ELSE "select", rec.validity)
    /\ UNCHANGED <<stores, rec, holds, validity, labels, cursor, view, od, exposed, faults>>

(* stampForWrite: the server's validity is the cursor's, and the message   *)
(* under the UID has the record's Message-ID.                              *)
MutIdentified == rec.named /\ cursor = validity

Identified == rec.named /\ cursor = validity /\ holds[validity] = "this"

Identify(p) ==
    /\ w[p].pc = "identify"
    /\ IF Identified
       THEN Goto(p, "stamp", validity) /\ UNCHANGED exposed
       ELSE Rest(p)
    /\ UNCHANGED <<stores, rec, holds, validity, labels, cursor, view, od, faults>>

Stamp(p) ==
    /\ w[p].pc = "stamp"
    /\ StampUIDValidity(w[p].known)
    /\ Goto(p, "select", rec'.validity)
    /\ UNCHANGED <<stores, holds, validity, labels, cursor, view, od, exposed, faults>>

(* SELECT, as a Gmail label session or as a plain one: the mailbox must be *)
(* in the validity the record names.                                       *)
MutConfirmed(p) == TRUE

Confirmed(p) == w[p].known # 0 /\ w[p].known = validity

SelectMailbox(p) ==
    /\ w[p].pc = "select"
    /\ IF Confirmed(p)
       THEN /\ Goto(p, IF w[p].add = {} THEN "remove" ELSE "add", validity)
            /\ UNCHANGED exposed
       ELSE Rest(p)
    /\ UNCHANGED <<stores, rec, holds, validity, labels, cursor, view, od, faults>>

(* A reset ends the session that had the mailbox selected.                 *)
StoreAdd(p) ==
    /\ w[p].pc = "add"
    /\ IF w[p].known = validity
       THEN /\ Stored(w[p].add, {})
            /\ Goto(p, IF w[p].rem = {} THEN "clear" ELSE "remove", validity)
            /\ UNCHANGED exposed
       ELSE Rest(p) /\ UNCHANGED labels
    /\ UNCHANGED <<stores, rec, holds, validity, cursor, view, od, faults>>

StoreRemove(p) ==
    /\ w[p].pc = "remove"
    /\ IF w[p].known = validity
       THEN Stored({}, w[p].rem) /\ Goto(p, "clear", validity) /\ UNCHANGED exposed
       ELSE Rest(p) /\ UNCHANGED labels
    /\ UNCHANGED <<stores, rec, holds, validity, cursor, view, od, faults>>

(* The mark is cleared whatever the record's set is by now.                *)
Clear(p) ==
    /\ w[p].pc = "clear"
    /\ ClearKeywordsDirty
    /\ Rest(p)
    /\ UNCHANGED <<stores, holds, validity, labels, cursor, view, od, faults>>

(* The connection or a command fails.                                      *)
MutWriteFails(p) ==
    /\ w[p].pc \in {"identify", "select", "add", "remove"} /\ faults < MaxFaults
    /\ faults' = faults + 1
    /\ Rest(p)
    /\ ClearKeywordsDirty
    /\ UNCHANGED <<stores, holds, validity, labels, cursor, view, od>>

WriteFails(p) ==
    /\ w[p].pc \in {"identify", "select", "add", "remove"} /\ faults < MaxFaults
    /\ faults' = faults + 1
    /\ Rest(p)
    /\ UNCHANGED <<stores, rec, holds, validity, labels, cursor, view, od>>

Write(p) ==
    \/ Get(p) \/ Identify(p) \/ Stamp(p) \/ SelectMailbox(p) \/ StoreAdd(p)
    \/ StoreRemove(p) \/ Clear(p) \/ WriteFails(p)

Sync(p) == Pull(p) \/ PullFails(p) \/ ListDirty(p) \/ EndSync(p) \/ Write(p)

Agent(s) ==
    \/ Select(s)
    \/ \E op \in {"add", "del", "set"} : \E kw \in SUBSET Keywords : Store(s, op, kw)

Next ==
    \/ \E s \in Sessions : Agent(s) \/ Write(s)
    \/ \E p \in Syncs : Sync(p)
    \/ Poll \/ Trigger \/ Elapse \/ Reset

Spec == Init /\ [][Next]_vars

(* The steps that wait for the provider with no deadline: those of a label *)
(* session, and the poll loop's own pull.                                  *)
Waits(p) ==
    \/ w[p].pc \in {"identify", "select", "add", "remove"}
    \/ p = Loop /\ w[p].pc = "pull"

(* The poll loop runs on, an on-demand pull ends by its deadline, and what *)
(* does not wait for the provider goes on; nobody has to send STATUS or    *)
(* STORE.                                                                  *)
Fairness ==
    /\ WF_vars(Poll)
    /\ \A p \in Syncs : WF_vars(~Waits(p) /\ Sync(p))
    /\ \A s \in Sessions : WF_vars(~Waits(s) /\ Write(s))

FairSpec == Spec /\ Fairness

(* External: the provider answers or ends the connection.                  *)
Answered ==
    /\ \A p \in Syncs : WF_vars(Waits(p) /\ Sync(p))
    /\ \A s \in Sessions : WF_vars(Waits(s) /\ Write(s))

-----------------------------------------------------------------------------
(* No write labels another message: whatever the mailbox's resets and the  *)
(* age of the record, a STORE reaches the UID only under a validity in     *)
(* which it is this message's.                                             *)
OwnMailOnly == labels["other"] = {}

(* A known validity is one under which the UID is this message's, also     *)
(* when it was filled in later.                                            *)
ValidityIsOwn == rec.validity # 0 => holds[rec.validity] = "this"

(* A keyword change is not forgotten: once the mark is cleared, whatever   *)
(* failed and was repeated and whoever cleared it, the keywords of the     *)
(* record are upstream, but for those that a STORE exposed.                *)
Remembered == rec.uid /\ ~rec.dirty => rec.kw \ exposed \subseteq labels["this"]

(* While the mailbox keeps the record's validity and the provider answers, *)
(* every keyword that stays arrives upstream, a failed write being         *)
(* repeated by a later sync; but for one that was exposed and has lost its *)
(* mark.                                                                   *)
Arrives ==
    Answered =>
        \A k \in Keywords :
            []<>(k \in rec.kw /\ rec.validity = validity =>
                    k \in labels["this"] \/ (k \in exposed /\ ~rec.dirty))

(* A flight ends, or hangs in a label session that the provider does not   *)
(* answer: a pull that failed or was cut off by its deadline clears the    *)
(* inbox's flag, or on-demand pulls would be off for good.                 *)
FlightEnds == []<>(~od.inflight \/ Waits(OnDemand))

(* A running write still has the keyword to send.                          *)
Carries(p, k) == k \in w[p].add /\ w[p].pc \notin {"idle", "remove", "clear"}

(* What the read face says of a write it could not replicate: the record   *)
(* stays dirty until a sync has replicated it.                             *)
NothingForgotten ==
    rec.uid => \A k \in rec.kw :
        k \in labels["this"] \/ rec.dirty \/ \E p \in Writers : Carries(p, k)
=============================================================================
