---------------------------- MODULE InboundProofs ----------------------------
(***************************************************************************)
(* Theorems about InboundSync, for any number of pulls, passes, reads,     *)
(* messages and failures.                                                  *)
(***************************************************************************)
EXTENDS InboundSync, WellFoundedInduction, TLAPS

(* The store: an id above the sequence was never used, and the index holds *)
(* exactly the keys of the synced records.                                 *)
StoreInv ==
    /\ \A id \in Ids : id > seq => recs[id] = NoRecord
    /\ \A id \in Ids : recs[id].kind = "synced" => Key(recs[id]) \in index
    /\ \A k \in index : \E id \in Ids : recs[id].kind = "synced" /\ Key(recs[id]) = k
    /\ NoDuplicates
    /\ ContentBacked

(* Nothing in the program is ahead of the upstream mailbox: UIDs of the    *)
(* current UID space are below UIDNEXT, and the others are of older spaces.*)
Below(v, u) == v <= mbox.validity /\ (v = mbox.validity => u < mbox.next)

SpaceInv ==
    /\ \A u \in Uids : u < mbox.next => u \in mbox.present \/ <<mbox.validity, u>> \in left
    /\ \A u \in mbox.present : u < mbox.next /\ <<mbox.validity, u>> \notin left
    /\ \A k \in left : Below(k[1], k[2])
    /\ \A k \in index : Below(k[1], k[2])
    /\ Below(cursor.validity, cursor.uid)

PullOK(t) ==
    syn[t].pc # "idle" =>
        /\ syn[t].v \in Validities
        /\ syn[t].v <= mbox.validity
        /\ syn[t].v = mbox.validity =>
             /\ syn[t].next <= mbox.next /\ syn[t].highest < mbox.next
             /\ \A u \in syn[t].todo : u < mbox.next

(* A pass: its candidates are ids in use, the blob it still has to delete  *)
(* belongs to no record, and what its listing misses has left.             *)
PassOK(t) ==
    /\ Below(rcn[t].cursor.validity, rcn[t].cursor.uid)
    /\ rcn[t].pc = "store" =>
         /\ rcn[t].cursor.validity \in Validities
         /\ \A u \in Uids : u <= rcn[t].cursor.uid /\ u \notin rcn[t].present
                            => <<rcn[t].cursor.validity, u>> \in left
    /\ \A id \in rcn[t].gone : id <= seq
    /\ rcn[t].pc \in {"retract", "unblob"} => rcn[t].gone # {}
    /\ rcn[t].pc = "unblob" =>
         rcn[t].del \in Ids /\ rcn[t].del <= seq /\ recs[rcn[t].del].kind = "absent"

(* A fetch: its id still names the message it read, or nothing.            *)
FetchOK(t) ==
    rdr[t].pc # "idle" =>
        /\ rdr[t].id \in Ids /\ rdr[t].id <= seq
        /\ rdr[t].uid \in Uids /\ Below(rdr[t].v, rdr[t].uid)
        /\ recs[rdr[t].id].kind # "generated"
        /\ recs[rdr[t].id].kind = "synced" => Key(recs[rdr[t].id]) = <<rdr[t].v, rdr[t].uid>>
        /\ rdr[t].pc = "drop" => <<rdr[t].v, rdr[t].uid>> \in left
        /\ rdr[t].pc = "unblob" => recs[rdr[t].id].kind = "absent"

(* The loop latches and ends its pass; only a release clears the latch.    *)
LatchInv ==
    /\ latch => rcn[Loop].pc = "idle"
    /\ rcn[Loop].pc \notin {"clear", "check"}
    /\ \A t \in Releasers : rcn[t].pc # "hold"

IInv ==
    /\ TypeOK /\ StoreInv /\ SpaceInv /\ LatchInv
    /\ \A t \in Syncers : PullOK(t)
    /\ \A t \in Passes : PassOK(t)
    /\ \A t \in Readers : FetchOK(t)

(* What no step undoes: ids are not reused, a record keeps its key, the    *)
(* upstream mailbox only moves on.                                         *)
RecsSteady ==
    /\ seq <= seq'
    /\ \A id \in Ids : id <= seq =>
         /\ recs[id].kind = "absent" => recs'[id].kind = "absent"
         /\ recs[id].kind # "generated" => recs'[id].kind # "generated"
         /\ recs'[id].kind = "synced" =>
              recs[id].kind = "synced" /\ Key(recs'[id]) = Key(recs[id])

UpSteady ==
    /\ \/ mbox.validity < mbox'.validity
       \/ mbox.validity = mbox'.validity /\ mbox.next <= mbox'.next
    /\ left \subseteq left'
-----------------------------------------------------------------------------
(* Least and Largest choose elements of their sets.                        *)
LEMMA LeastExists ==
  ASSUME NEW S, S \subseteq Nat, S # {}
  PROVE  \E x \in S : \A y \in S : x <= y
<1>1. PICK x \in S : \A y \in S : ~(<<y, x>> \in OpToRel(<, Nat))
  BY NatLessThanWellFounded, WFMin
<1>2. \A y \in S : y \in Nat /\ x \in Nat
  OBVIOUS
<1>3. \A y \in S : ~(y < x)
  BY <1>1, <1>2 DEF OpToRel
<1> QED BY <1>2, <1>3

LEMMA LeastInSet ==
  ASSUME NEW S, S \subseteq Nat, S # {} PROVE Least(S) \in S
  BY LeastExists DEF Least

LEMMA LargestInSet ==
  ASSUME NEW n \in Nat, NEW S, S \subseteq 0..n, S # {} PROVE Largest(S) \in S
<1> DEFINE T == {n - x : x \in S}
<1>0. \A x \in S : x \in Nat /\ n - x \in Nat
  OBVIOUS
<1>1. T \subseteq Nat /\ T # {}
  <2>1. T \subseteq Nat
    BY <1>0
  <2>2. PICK x \in S : TRUE
    OBVIOUS
  <2>3. n - x \in T
    BY <2>2
  <2> QED BY <2>1, <2>3
<1>2. PICK m \in T : \A y \in T : m <= y
  BY <1>1, LeastExists
<1>3. PICK x \in S : m = n - x
  BY <1>2
<1>4. \A y \in S : n - x <= n - y
  BY <1>2, <1>3
<1>5. \A y \in S : y <= x
  BY <1>0, <1>4
<1> QED BY <1>5 DEF Largest
-----------------------------------------------------------------------------
(* The store's operations.                                                 *)

LEMMA RecordTypes ==
  /\ NoRecord \in Record /\ NoRecord.kind = "absent"
  /\ Generated \in Record /\ Generated.kind = "generated"
  /\ \A v \in Validities, u \in Uids :
       /\ Synced(v, u) \in Record /\ Synced(v, u).kind = "synced"
       /\ Key(Synced(v, u)) = <<v, u>>
<1>1. NoRecord \in Record /\ NoRecord.kind = "absent"
  BY InboundStoreAssumption DEF NoRecord, Record
<1>2. Generated \in Record /\ Generated.kind = "generated"
  BY <1>1 DEF Generated, Record
<1>3. ASSUME NEW v \in Validities, NEW u \in Uids
      PROVE  /\ Synced(v, u) \in Record /\ Synced(v, u).kind = "synced"
             /\ Key(Synced(v, u)) = <<v, u>>
  <2>1. v \in 0..MaxValidity /\ u \in 0..MaxUid /\ (~Eager) \in BOOLEAN
    BY InboundStoreAssumption DEF Validities, Uids
  <2> QED BY <2>1 DEF Synced, Key, Record
<1> QED BY <1>1, <1>2, <1>3

LEMMA StoreSame ==
  ASSUME StoreTypeOK, StoreInv, UNCHANGED storeVars
  PROVE  StoreTypeOK' /\ StoreInv' /\ RecsSteady
  BY DEF storeVars, StoreTypeOK, StoreInv, NoDuplicates, ContentBacked, Live, RecsSteady

(* A new record takes an id never used before.                             *)
LEMMA PutNewStore ==
  ASSUME StoreTypeOK, StoreInv, NEW r \in Record, PutNew(r),
         \/ r.kind = "generated" /\ index' = index
         \/ /\ r.kind = "synced" /\ Key(r) \in Validities \X Uids /\ Key(r) \notin index
            /\ index' = index \cup {Key(r)}
  PROVE  /\ StoreTypeOK' /\ StoreInv' /\ RecsSteady
         /\ seq + 1 \in Ids /\ recs[seq + 1] = NoRecord /\ recs'[seq + 1] = r
         /\ \A id \in Ids \ {seq + 1} : recs'[id] = recs[id]
<1>1. seq \in Nat /\ seq + 1 \in Ids /\ seq + 1 \in 0..MaxId
  BY InboundStoreAssumption DEF StoreTypeOK, PutNew, Ids
<1>2. recs'[seq + 1] = r /\ \A id \in Ids \ {seq + 1} : recs'[id] = recs[id]
  BY <1>1 DEF StoreTypeOK, PutNew
<1>3. StoreTypeOK'
  BY <1>1 DEF StoreTypeOK, PutNew
<1>4. recs[seq + 1] = NoRecord /\ seq' = seq + 1
  BY <1>1 DEF StoreInv, PutNew
<1>5. \A id \in Ids : id > seq' => recs'[id] = NoRecord
  BY <1>1, <1>2, <1>4 DEF StoreInv, Ids
<1>6. r.kind \in {"generated", "synced"} /\ NoRecord.kind = "absent"
  BY RecordTypes
<1>7. /\ \A id \in Ids : recs'[id].kind = "synced" => Key(recs'[id]) \in index'
      /\ \A k \in index' : \E id \in Ids : recs'[id].kind = "synced" /\ Key(recs'[id]) = k
  <2>1. \A id \in Ids : recs'[id].kind = "synced" => Key(recs'[id]) \in index'
    BY <1>1, <1>2 DEF StoreInv
  <2>2. ASSUME NEW k \in index'
        PROVE  \E id \in Ids : recs'[id].kind = "synced" /\ Key(recs'[id]) = k
    <3>1. CASE k \in index
      <4>1. PICK id \in Ids : recs[id].kind = "synced" /\ Key(recs[id]) = k
        BY <3>1 DEF StoreInv
      <4>2. id # seq + 1
        BY <1>4, <1>6, <4>1
      <4> QED BY <1>2, <4>1, <4>2
    <3>2. CASE k \notin index
      BY <1>1, <1>2, <2>2, <3>2
    <3> QED BY <3>1, <3>2
  <2> QED BY <2>1, <2>2
<1>8. NoDuplicates'
  <2> SUFFICES ASSUME NEW i \in Ids, NEW j \in Ids, recs'[i].kind = "synced",
                      recs'[j].kind = "synced", i # j
               PROVE  Key(recs'[i]) # Key(recs'[j])
    BY DEF NoDuplicates
  <2>1. CASE i # seq + 1 /\ j # seq + 1
    BY <1>2, <2>1 DEF StoreInv, NoDuplicates
  <2>2. CASE i = seq + 1
    BY <1>2, <2>2 DEF StoreInv
  <2>3. CASE j = seq + 1
    BY <1>2, <2>3 DEF StoreInv
  <2> QED BY <2>1, <2>2, <2>3
<1>9. ContentBacked'
  BY <1>2 DEF StoreInv, ContentBacked, Live, Present, PutNew
<1>10. RecsSteady
  BY <1>1, <1>2, <1>4 DEF RecsSteady
<1> QED BY <1>1, <1>2, <1>3, <1>4, <1>5, <1>7, <1>8, <1>9, <1>10 DEF StoreInv

LEMMA PutNewFailsStore ==
  ASSUME StoreTypeOK, StoreInv, NEW r, PutNewFails(r)
  PROVE  StoreTypeOK' /\ StoreInv' /\ RecsSteady
<1>1. seq + 1 \in Ids
  BY InboundStoreAssumption DEF StoreTypeOK, PutNewFails, Ids
<1> QED BY <1>1 DEF PutNewFails, StoreTypeOK, StoreInv, NoDuplicates, ContentBacked, Live,
                    RecsSteady

(* The body is written with the record.                                    *)
LEMMA SetContentStore ==
  ASSUME StoreTypeOK, StoreInv, NEW id \in Ids, SetContent(id)
  PROVE  /\ StoreTypeOK' /\ StoreInv' /\ RecsSteady
         /\ \A j \in Ids : recs'[j].kind = recs[j].kind /\ Key(recs'[j]) = Key(recs[j])
<1> DEFINE r == [recs[id] EXCEPT !.pending = FALSE]
<1>1. recs[id] \in Record
  BY DEF StoreTypeOK
<1>2. r \in Record /\ r.kind = recs[id].kind /\ Key(r) = Key(recs[id])
  BY <1>1 DEF Record, Key
<1>3. recs' = [recs EXCEPT ![id] = r]
  BY DEF SetContent
<1>4. recs'[id] = r /\ \A j \in Ids \ {id} : recs'[j] = recs[j]
  BY <1>3 DEF StoreTypeOK
<1> HIDE DEF r
<1>5. StoreTypeOK'
  BY <1>2, <1>3 DEF StoreTypeOK, SetContent
<1>6. \A j \in Ids : recs'[j].kind = recs[j].kind /\ Key(recs'[j]) = Key(recs[j])
  BY <1>2, <1>4
<1>7. \A j \in Ids : j > seq' => recs'[j] = NoRecord
  BY <1>4, RecordTypes DEF StoreInv, SetContent
<1>8. NoDuplicates' /\ seq' = seq /\ index' = index
  <2>1. seq' = seq /\ index' = index
    BY DEF SetContent
  <2>2. \A i, j \in Ids : recs[i].kind = "synced" /\ recs[j].kind = "synced" /\ i # j
          => Key(recs[i]) # Key(recs[j])
    BY DEF StoreInv, NoDuplicates
  <2>3. NoDuplicates'
    BY <1>6, <2>2 DEF NoDuplicates
  <2> QED BY <2>1, <2>3
<1>9. ContentBacked'
  BY <1>4 DEF StoreInv, ContentBacked, Live, Present, SetContent
<1>10. RecsSteady
  BY <1>6, <1>8 DEF RecsSteady, StoreTypeOK
<1> QED BY <1>5, <1>6, <1>7, <1>8, <1>9, <1>10 DEF StoreInv

(* The record and its index entry go together.                             *)
LEMMA RemoveStore ==
  ASSUME StoreTypeOK, StoreInv, NEW id \in Ids, RemoveSynced(id)
  PROVE  /\ StoreTypeOK' /\ StoreInv' /\ RecsSteady /\ id <= seq
         /\ recs'[id] = NoRecord /\ \A j \in Ids \ {id} : recs'[j] = recs[j]
<1>1. recs'[id] = NoRecord /\ \A j \in Ids \ {id} : recs'[j] = recs[j]
  BY DEF StoreTypeOK, RemoveSynced
<1>2. StoreTypeOK'
  BY RecordTypes DEF StoreTypeOK, RemoveSynced
<1>3. recs[id].kind = "synced" /\ NoRecord.kind = "absent" /\ seq' = seq
  BY RecordTypes DEF RemoveSynced, Removable
<1>4. \A j \in Ids \ {id} : recs[j].kind = "synced" => Key(recs[j]) # Key(recs[id])
  BY <1>3 DEF StoreInv, NoDuplicates
<1>5. \A j \in Ids : recs'[j].kind = "synced" => Key(recs'[j]) \in index'
  BY <1>1, <1>3, <1>4 DEF StoreInv, RemoveSynced
<1>6. \A k \in index' : \E j \in Ids : recs'[j].kind = "synced" /\ Key(recs'[j]) = k
  BY <1>1 DEF StoreInv, RemoveSynced
<1>7. NoDuplicates' /\ ContentBacked'
  BY <1>1, <1>3 DEF StoreInv, NoDuplicates, ContentBacked, Live, RemoveSynced
<1>8. RecsSteady
  BY <1>1, <1>3 DEF RecsSteady, StoreTypeOK
<1>9. id <= seq
  BY <1>3, InboundStoreAssumption DEF StoreInv, StoreTypeOK, Ids
<1> QED BY <1>1, <1>2, <1>3, <1>5, <1>6, <1>7, <1>8, <1>9 DEF StoreInv

LEMMA DeleteBlobStore ==
  ASSUME StoreTypeOK, StoreInv, NEW id \in Ids, recs[id].kind = "absent", DeleteBlob(id)
  PROVE  StoreTypeOK' /\ StoreInv' /\ RecsSteady
  BY DEF DeleteBlob, StoreTypeOK, StoreInv, NoDuplicates, ContentBacked, Live, RecsSteady

LEMMA SweepStore ==
  ASSUME StoreTypeOK, StoreInv, SweepOrphans
  PROVE  StoreTypeOK' /\ StoreInv' /\ RecsSteady
  BY DEF SweepOrphans, StoreTypeOK, StoreInv, NoDuplicates, ContentBacked, Live, RecsSteady
-----------------------------------------------------------------------------
(* A handler that does not move keeps its part of the invariant, whatever  *)
(* the others do.                                                          *)

LEMMA UpSame == ASSUME TypeOK, UNCHANGED upVars PROVE UpSteady
  BY DEF upVars, UpSteady, TypeOK

LEMMA BelowStays ==
  ASSUME TypeOK, TypeOK', UpSteady, NEW v \in Nat, NEW u \in Nat, Below(v, u)
  PROVE  v <= mbox'.validity /\ (v = mbox'.validity => u < mbox'.next)
<1>1. /\ mbox.validity \in Nat /\ mbox.next \in Nat
      /\ mbox'.validity \in Nat /\ mbox'.next \in Nat
  BY InboundStoreAssumption DEF TypeOK, Validities
<1> QED BY <1>1 DEF UpSteady, Below

LEMMA PullStays ==
  ASSUME TypeOK, TypeOK', UpSteady, NEW t \in Syncers, syn'[t] = syn[t], PullOK(t)
  PROVE  PullOK(t)'
<1>1. /\ mbox.validity \in Nat /\ mbox.next \in Nat
      /\ mbox'.validity \in Nat /\ mbox'.next \in Nat
  BY InboundStoreAssumption DEF TypeOK, Validities
<1>2. /\ syn[t].v \in Nat /\ syn[t].next \in Nat /\ syn[t].highest \in Nat
      /\ \A u \in syn[t].todo : u \in Nat
  BY InboundStoreAssumption DEF TypeOK, Pull, Uids
<1> QED BY <1>1, <1>2 DEF UpSteady, PullOK

LEMMA PassStays ==
  ASSUME TypeOK, TypeOK', UpSteady, RecsSteady, NEW t \in Passes, rcn'[t] = rcn[t], PassOK(t)
  PROVE  PassOK(t)'
<1>1. /\ rcn[t].cursor.validity \in Nat /\ rcn[t].cursor.uid \in Nat
      /\ rcn[t].gone \subseteq Ids
  BY InboundStoreAssumption DEF TypeOK, Pass, Cursor
<1>2. Below(rcn[t].cursor.validity, rcn[t].cursor.uid)'
  BY <1>1, BelowStays DEF PassOK, Below
<1>3. \A id \in rcn[t].gone : id <= seq'
  BY <1>1, InboundStoreAssumption DEF PassOK, RecsSteady, TypeOK, StoreTypeOK, Ids
<1>4. rcn[t].pc = "unblob" =>
        rcn[t].del \in Ids /\ rcn[t].del <= seq' /\ recs'[rcn[t].del].kind = "absent"
  BY InboundStoreAssumption DEF PassOK, RecsSteady, TypeOK, StoreTypeOK, Ids
<1> QED BY <1>2, <1>3, <1>4 DEF PassOK, UpSteady

LEMMA FetchStays ==
  ASSUME TypeOK, TypeOK', UpSteady, RecsSteady, NEW t \in Readers, rdr'[t] = rdr[t], FetchOK(t)
  PROVE  FetchOK(t)'
<1> SUFFICES ASSUME rdr[t].pc # "idle" PROVE FetchOK(t)'
  BY DEF FetchOK
<1>1. rdr[t].v \in Nat /\ rdr[t].uid \in Nat
  BY InboundStoreAssumption DEF TypeOK, Fetch
<1>2. Below(rdr[t].v, rdr[t].uid)'
  BY <1>1, BelowStays DEF FetchOK, Below
<1>3. rdr[t].id \in Ids /\ rdr[t].id <= seq /\ rdr[t].id <= seq'
  BY InboundStoreAssumption DEF FetchOK, RecsSteady, TypeOK, StoreTypeOK, Ids
<1> QED BY <1>2, <1>3 DEF FetchOK, UpSteady, RecsSteady

(* The upstream side, when it is the store, a cursor or nothing that moves.*)
LEMMA SpaceStays ==
  ASSUME TypeOK, SpaceInv, UNCHANGED upVars, index' \subseteq index, cursor' = cursor
  PROVE  SpaceInv'
  BY DEF SpaceInv, upVars, Below

LEMMA IdleOK ==
  /\ NoPull \in Pull /\ NoPull.pc = "idle"
  /\ NoPass \in Pass /\ NoPass.pc = "idle" /\ NoPass.cursor = NoCursor /\ NoPass.gone = {}
  /\ NoFetch \in Fetch /\ NoFetch.pc = "idle"
  /\ NoCursor \in Cursor /\ NoCursor.validity = 0
<1>1. NoCursor \in Cursor /\ NoCursor.validity = 0
  BY InboundStoreAssumption DEF NoCursor, Cursor
<1>2. NoPull \in Pull /\ NoPull.pc = "idle"
  BY <1>1, InboundStoreAssumption DEF NoPull, Pull
<1>3. NoPass \in Pass /\ NoPass.pc = "idle" /\ NoPass.cursor = NoCursor /\ NoPass.gone = {}
  BY <1>1, InboundStoreAssumption DEF NoPass, Pass
<1>4. NoFetch \in Fetch /\ NoFetch.pc = "idle"
  BY InboundStoreAssumption DEF NoFetch, Fetch
<1> QED BY <1>1, <1>2, <1>3, <1>4

(* A step of one pull, one pass or one fetch, its parts put together.      *)
LEMMA OnePull ==
  ASSUME IInv, NEW t \in Syncers, NEW p \in Pull, SetPull(t, p),
         StoreTypeOK', StoreInv', RecsSteady, UNCHANGED upVars, SpaceInv',
         cursor' \in Cursor, latch' = latch, faults' \in 0..MaxFaults,
         syn'[t] = p => PullOK(t)'
  PROVE  IInv'
<1>1. TypeOK /\ UpSteady
  BY UpSame DEF IInv
<1>2. syn'[t] = p /\ (\A s \in Syncers \ {t} : syn'[s] = syn[s]) /\ UNCHANGED <<rcn, rdr>>
  BY <1>1 DEF SetPull, TypeOK
<1>3. TypeOK'
  <2>1. syn' \in [Syncers -> Pull]
    BY <1>1 DEF SetPull, TypeOK
  <2> QED BY <1>1, <1>2, <2>1 DEF TypeOK, upVars
<1>4. \A s \in Syncers : PullOK(s)'
  BY <1>1, <1>2, <1>3, PullStays DEF IInv
<1>5. \A s \in Passes : PassOK(s)'
  BY <1>1, <1>2, <1>3, PassStays DEF IInv
<1>6. \A s \in Readers : FetchOK(s)'
  BY <1>1, <1>2, <1>3, FetchStays DEF IInv
<1>7. LatchInv'
  BY <1>2 DEF IInv, LatchInv
<1> QED BY <1>3, <1>4, <1>5, <1>6, <1>7 DEF IInv

LEMMA OnePass ==
  ASSUME IInv, NEW t \in Passes, NEW p \in Pass, SetPass(t, p),
         StoreTypeOK', StoreInv', RecsSteady, UNCHANGED upVars, SpaceInv',
         cursor' = cursor, latch' \in BOOLEAN, faults' \in 0..MaxFaults,
         rcn'[t] = p => PassOK(t)',
         t = Loop => p.pc \notin {"clear", "check"} /\ (latch' => p.pc = "idle"),
         t # Loop => p.pc # "hold" /\ (latch' => latch)
  PROVE  IInv'
<1>1. TypeOK /\ UpSteady
  BY UpSame DEF IInv
<1>2. rcn'[t] = p /\ (\A s \in Passes \ {t} : rcn'[s] = rcn[s]) /\ UNCHANGED <<syn, rdr>>
  BY <1>1 DEF SetPass, TypeOK
<1>3. TypeOK'
  <2>1. rcn' \in [Passes -> Pass]
    BY <1>1 DEF SetPass, TypeOK
  <2> QED BY <1>1, <1>2, <2>1 DEF TypeOK, upVars
<1>4. \A s \in Syncers : PullOK(s)'
  BY <1>1, <1>2, <1>3, PullStays DEF IInv
<1>5. \A s \in Passes : PassOK(s)'
  BY <1>1, <1>2, <1>3, PassStays DEF IInv
<1>6. \A s \in Readers : FetchOK(s)'
  BY <1>1, <1>2, <1>3, FetchStays DEF IInv
<1>7. LatchInv'
  BY <1>2, InboundSyncAssumption DEF IInv, LatchInv, Passes
<1> QED BY <1>3, <1>4, <1>5, <1>6, <1>7 DEF IInv

LEMMA OneFetch ==
  ASSUME IInv, NEW t \in Readers, NEW p \in Fetch, SetFetch(t, p),
         StoreTypeOK', StoreInv', RecsSteady, UNCHANGED <<upVars, stateVars>>,
         index' \subseteq index, faults' \in 0..MaxFaults, rdr'[t] = p => FetchOK(t)'
  PROVE  IInv'
<1>1. TypeOK /\ UpSteady
  BY UpSame DEF IInv
<1>2. rdr'[t] = p /\ (\A s \in Readers \ {t} : rdr'[s] = rdr[s]) /\ UNCHANGED <<syn, rcn>>
  BY <1>1 DEF SetFetch, TypeOK
<1>3. TypeOK'
  <2>1. rdr' \in [Readers -> Fetch]
    BY <1>1 DEF SetFetch, TypeOK
  <2> QED BY <1>1, <1>2, <2>1 DEF TypeOK, upVars, stateVars
<1>4. \A s \in Syncers : PullOK(s)'
  BY <1>1, <1>2, <1>3, PullStays DEF IInv
<1>5. \A s \in Passes : PassOK(s)'
  BY <1>1, <1>2, <1>3, PassStays DEF IInv
<1>6. \A s \in Readers : FetchOK(s)'
  BY <1>1, <1>2, <1>3, FetchStays DEF IInv
<1>7. LatchInv'
  BY <1>2 DEF IInv, LatchInv, stateVars
<1>8. SpaceInv'
  BY <1>1, SpaceStays DEF IInv, stateVars
<1> QED BY <1>3, <1>4, <1>5, <1>6, <1>7, <1>8 DEF IInv
-----------------------------------------------------------------------------
(* One lemma per action.  The upstream mailbox first.                      *)

MailboxType == [validity : Validities, next : 1..MaxUid + 1, present : SUBSET Uids]

LEMMA OneUpstream ==
  ASSUME IInv, UNCHANGED <<storeVars, stateVars, syn, rcn, rdr, faults>>,
         mbox' \in MailboxType, left' \in SUBSET (Validities \X Uids), UpSteady, SpaceInv'
  PROVE  IInv'
<1>1. /\ TypeOK /\ StoreTypeOK' /\ StoreInv' /\ RecsSteady
      /\ UNCHANGED <<cursor, latch, syn, rcn, rdr, faults>>
  BY StoreSame DEF IInv, TypeOK, stateVars
<1>2. TypeOK'
  BY <1>1 DEF TypeOK, MailboxType
<1>3. (\A s \in Syncers : PullOK(s)') /\ (\A s \in Passes : PassOK(s)')
  BY <1>1, <1>2, PullStays, PassStays DEF IInv
<1>4. \A s \in Readers : FetchOK(s)'
  BY <1>1, <1>2, FetchStays DEF IInv
<1>5. LatchInv'
  BY <1>1 DEF IInv, LatchInv
<1> QED BY <1>1, <1>2, <1>3, <1>4, <1>5 DEF IInv

LEMMA MboxTypes ==
  ASSUME TypeOK
  PROVE  /\ mbox.validity \in Nat \ {0} /\ mbox.next \in Nat \ {0}
         /\ \A u \in mbox.present : u \in Nat
         /\ \A k \in left : k[1] \in Nat /\ k[2] \in Nat
         /\ \A k \in index : k[1] \in Nat /\ k[2] \in Nat
         /\ cursor.validity \in Nat /\ cursor.uid \in Nat
  BY InboundStoreAssumption DEF TypeOK, StoreTypeOK, Validities, Uids, Cursor

LEMMA ArriveStep == ASSUME IInv, Arrive PROVE IInv'
<1>1. TypeOK /\ SpaceInv /\ mbox \in MailboxType
  BY DEF IInv, TypeOK, MailboxType
<1>2. /\ mbox'.validity = mbox.validity /\ mbox'.next = mbox.next + 1
      /\ mbox'.present = mbox.present \cup {mbox.next}
      /\ UNCHANGED <<storeVars, left, stateVars, syn, rcn, rdr, faults>>
      /\ UNCHANGED <<index, cursor>> /\ mbox.next <= MaxUid
  BY <1>1 DEF Arrive, MailboxType, storeVars, stateVars
<1>3. mbox' \in MailboxType
  <2>1. mbox.next \in Uids /\ mbox.next + 1 \in 1..MaxUid + 1
    BY <1>1, <1>2, InboundStoreAssumption DEF MailboxType, Uids
  <2> QED BY <1>1, <2>1 DEF Arrive, MailboxType
<1>4. UpSteady
  BY <1>1, <1>2, MboxTypes DEF UpSteady
<1>5. <<mbox.validity, mbox.next>> \notin left
  BY <1>1, MboxTypes DEF SpaceInv, Below
<1>6. /\ \A k \in left : Below(k[1], k[2])'
      /\ \A k \in index : Below(k[1], k[2])'
      /\ Below(cursor.validity, cursor.uid)'
  BY <1>1, <1>2, MboxTypes DEF SpaceInv, Below
<1>7. \A u \in Uids : u < mbox'.next => u \in mbox'.present \/ <<mbox'.validity, u>> \in left'
  BY <1>1, <1>2, MboxTypes DEF SpaceInv, Uids
<1>8. \A u \in mbox'.present : u < mbox'.next /\ <<mbox'.validity, u>> \notin left'
  BY <1>1, <1>2, <1>5, MboxTypes DEF SpaceInv
<1>9. SpaceInv'
  BY <1>2, <1>6, <1>7, <1>8 DEF SpaceInv
<1> QED BY <1>1, <1>2, <1>3, <1>4, <1>9, OneUpstream DEF TypeOK

LEMMA DepartStep == ASSUME IInv, NEW u \in Uids, Depart(u) PROVE IInv'
<1>1. TypeOK /\ SpaceInv /\ mbox \in MailboxType
  BY DEF IInv, TypeOK, MailboxType
<1>2. /\ mbox'.validity = mbox.validity /\ mbox'.next = mbox.next
      /\ mbox'.present = mbox.present \ {u} /\ u \in mbox.present
      /\ left' = left \cup {<<mbox.validity, u>>}
      /\ UNCHANGED <<storeVars, stateVars, syn, rcn, rdr, faults>>
      /\ UNCHANGED <<index, cursor>>
  BY <1>1 DEF Depart, MailboxType, storeVars, stateVars
<1>3. mbox' \in MailboxType /\ left' \in SUBSET (Validities \X Uids)
  BY <1>1, <1>2 DEF Depart, MailboxType, TypeOK
<1>4. UpSteady
  BY <1>1, <1>2, MboxTypes DEF UpSteady
<1>5. /\ \A k \in left' : Below(k[1], k[2])'
      /\ \A k \in index : Below(k[1], k[2])'
      /\ Below(cursor.validity, cursor.uid)'
  BY <1>1, <1>2, MboxTypes DEF SpaceInv, Below
<1>6. \A w \in Uids : w < mbox'.next => w \in mbox'.present \/ <<mbox'.validity, w>> \in left'
  BY <1>1, <1>2 DEF SpaceInv
<1>7. \A w \in mbox'.present : w < mbox'.next /\ <<mbox'.validity, w>> \notin left'
  BY <1>1, <1>2 DEF SpaceInv
<1>8. SpaceInv'
  BY <1>2, <1>5, <1>6, <1>7 DEF SpaceInv
<1> QED BY <1>2, <1>3, <1>4, <1>8, OneUpstream

LEMMA MailboxFields ==
  ASSUME NEW v, NEW n
  PROVE  /\ Mailbox(v, n).validity = v /\ Mailbox(v, n).next = n + 1
         /\ Mailbox(v, n).present = 1..n
  BY DEF Mailbox

LEMMA ResetStep == ASSUME IInv, NEW n \in 0..MaxUid, Reset(n) PROVE IInv'
<1>1. TypeOK /\ SpaceInv /\ mbox \in MailboxType
  BY DEF IInv, TypeOK, MailboxType
<1>2. /\ mbox'.validity = mbox.validity + 1 /\ mbox'.next = n + 1 /\ mbox'.present = 1..n
      /\ UNCHANGED <<storeVars, left, stateVars, syn, rcn, rdr, faults>>
      /\ UNCHANGED <<index, cursor>> /\ mbox.validity < MaxValidity
  BY MailboxFields DEF Reset, storeVars, stateVars
<1>3. mbox' \in MailboxType
  <2>1. mbox.validity + 1 \in Validities /\ n + 1 \in 1..MaxUid + 1 /\ 1..n \in SUBSET Uids
    BY <1>1, <1>2, InboundStoreAssumption DEF MailboxType, Validities, Uids
  <2> QED BY <2>1 DEF Reset, Mailbox, MailboxType
<1>4. UpSteady
  BY <1>1, <1>2, MboxTypes DEF UpSteady
<1>5. /\ \A k \in left : Below(k[1], k[2])' /\ k[1] # mbox'.validity
      /\ \A k \in index : Below(k[1], k[2])'
      /\ Below(cursor.validity, cursor.uid)'
  BY <1>1, <1>2, MboxTypes DEF SpaceInv, Below
<1>6. \A w \in Uids : w < mbox'.next => w \in mbox'.present \/ <<mbox'.validity, w>> \in left'
  BY <1>2, InboundStoreAssumption DEF Uids
<1>7. \A w \in mbox'.present : w < mbox'.next /\ <<mbox'.validity, w>> \notin left'
  BY <1>2, <1>5
<1>8. SpaceInv'
  BY <1>2, <1>5, <1>6, <1>7 DEF SpaceInv
<1> QED BY <1>1, <1>2, <1>3, <1>4, <1>8, OneUpstream DEF TypeOK
-----------------------------------------------------------------------------
(* Pulls.                                                                  *)

LEMMA EndPull ==
  ASSUME IInv, NEW t \in Syncers, SetPull(t, NoPull), StoreTypeOK', StoreInv', RecsSteady,
         UNCHANGED <<upVars, latch>>, SpaceInv', cursor' \in Cursor, faults' \in 0..MaxFaults
  PROVE  IInv'
<1>1. syn'[t] = NoPull => PullOK(t)'
  BY IdleOK DEF PullOK
<1> QED BY <1>1, IdleOK, OnePull DEF upVars

LEMMA SyncSelectStep == ASSUME IInv, NEW t \in Syncers, SyncSelect(t) PROVE IInv'
<1> DEFINE p == [NoPull EXCEPT !.pc = "load", !.v = mbox.validity, !.next = mbox.next]
<1>1. /\ TypeOK /\ SetPull(t, p) /\ UNCHANGED <<storeVars, upVars, stateVars, faults>>
      /\ UNCHANGED <<index, cursor, latch, mbox>>
  BY DEF IInv, SyncSelect, storeVars, upVars, stateVars
<1>2. /\ p \in Pull /\ p.v = mbox.validity /\ p.next = mbox.next /\ p.highest = 0 /\ p.todo = {}
  <2>1. /\ mbox.validity \in 0..MaxValidity /\ mbox.next \in 1..MaxUid + 1
        /\ 0 \in 0..MaxUid /\ NoCursor \in Cursor
    BY <1>1, IdleOK, InboundStoreAssumption DEF TypeOK, Validities
  <2> QED BY <2>1 DEF NoPull, Pull
<1>3. StoreTypeOK' /\ StoreInv' /\ RecsSteady /\ SpaceInv'
  BY <1>1, StoreSame, SpaceStays DEF IInv, TypeOK
<1> HIDE DEF p
<1>4. syn'[t] = p => PullOK(t)'
  BY <1>1, <1>2, MboxTypes, InboundStoreAssumption DEF PullOK, TypeOK
<1> QED BY <1>1, <1>2, <1>3, <1>4, OnePull DEF TypeOK

(* What a pull takes, and where its cursor will stand.                     *)
LEMMA PullBounds ==
  ASSUME IInv, NEW t \in Syncers, syn[t].pc = "load", mbox.validity = syn[t].v,
         NEW last, last = LastUid(cursor, syn[t].v),
         NEW todo, todo = PullSet(syn[t].next, last),
         NEW high, high = Highest(syn[t].next, last, todo)
  PROVE  /\ last \in 0..MaxUid /\ last < mbox.next
         /\ todo \subseteq Uids /\ \A u \in todo : u < mbox.next
         /\ high \in 0..MaxUid /\ high < mbox.next
         /\ RecentOnly /\ todo = {} => high = syn[t].next - 1
         /\ ~(RecentOnly /\ todo = {}) => high \in todo \cup {last, syn[t].next - 1}
<1>1. /\ TypeOK /\ SpaceInv /\ syn[t] \in Pull /\ syn[t].next \in 1..MaxUid + 1
      /\ syn[t].next <= mbox.next /\ mbox.next \in 1..MaxUid + 1 /\ MaxUid \in Nat
  BY InboundStoreAssumption DEF IInv, TypeOK, PullOK, Pull
<1>2. last \in 0..MaxUid /\ last < mbox.next
  BY <1>1, MboxTypes DEF LastUid, SpaceInv, Below, TypeOK, Cursor
<1>3. todo \subseteq mbox.present
  BY DEF PullSet
<1>4. todo \subseteq Uids /\ \A u \in todo : u < mbox.next
  BY <1>1, <1>3 DEF SpaceInv, TypeOK
<1>5. syn[t].next - 1 \in 0..MaxUid /\ syn[t].next - 1 < mbox.next
  BY <1>1
<1> DEFINE S == todo \cup {last, syn[t].next - 1}
<1>6. S \subseteq 0..MaxUid /\ S # {} /\ \A u \in S : u < mbox.next
  BY <1>1, <1>2, <1>4, <1>5 DEF Uids
<1>7. Largest(S) \in S
  BY <1>1, <1>6, LargestInSet
<1> QED BY <1>2, <1>4, <1>5, <1>6, <1>7 DEF Highest

LEMMA SyncLoadStep == ASSUME IInv, NEW t \in Syncers, SyncLoad(t) PROVE IInv'
<1> DEFINE last == LastUid(cursor, syn[t].v)
           todo == PullSet(syn[t].next, last)
           high == Highest(syn[t].next, last, todo)
           p == [syn[t] EXCEPT !.pc = "store", !.loaded = cursor, !.todo = todo,
                               !.highest = high]
<1>1. /\ TypeOK /\ SetPull(t, p) /\ UNCHANGED <<storeVars, upVars, stateVars, faults>>
      /\ UNCHANGED <<index, cursor, latch, mbox>> /\ syn[t].pc = "load"
      /\ mbox.validity = syn[t].v
  BY DEF IInv, SyncLoad, storeVars, upVars, stateVars
<1>2. /\ todo \subseteq Uids /\ \A u \in todo : u < mbox.next
      /\ high \in 0..MaxUid /\ high < mbox.next
  BY <1>1, PullBounds
<1> HIDE DEF todo, high
<1>3. /\ p \in Pull /\ p.v = syn[t].v /\ p.next = syn[t].next /\ p.highest = high
      /\ p.todo = todo
  BY <1>1, <1>2 DEF TypeOK, Pull
<1>4. StoreTypeOK' /\ StoreInv' /\ RecsSteady /\ SpaceInv'
  BY <1>1, StoreSame, SpaceStays DEF IInv, TypeOK
<1> HIDE DEF p
<1>5. syn'[t] = p => PullOK(t)'
  BY <1>1, <1>2, <1>3 DEF PullOK, IInv
<1> QED BY <1>1, <1>3, <1>4, <1>5, OnePull DEF TypeOK

LEMMA SyncEndStep ==
  ASSUME IInv, NEW t \in Syncers, SyncLosesMailbox(t) \/ SyncSave(t) PROVE IInv'
<1>1. /\ TypeOK /\ SetPull(t, NoPull) /\ UNCHANGED <<storeVars, upVars, latch, faults>>
      /\ UNCHANGED <<index, mbox, left>>
  BY DEF IInv, SyncLosesMailbox, SyncSave, storeVars, upVars, stateVars
<1>2. StoreTypeOK' /\ StoreInv' /\ RecsSteady
  BY <1>1, StoreSame DEF IInv, TypeOK
<1>3. cursor' \in Cursor /\ SpaceInv'
  <2>1. CASE cursor' = cursor
    BY <1>1, <2>1, SpaceStays DEF IInv, TypeOK
  <2>2. CASE cursor' = [validity |-> syn[t].v, uid |-> syn[t].highest] /\ syn[t].pc = "store"
    <3>1. /\ cursor'.validity = syn[t].v /\ cursor'.uid = syn[t].highest
          /\ cursor' \in Cursor
      BY <1>1, <2>2 DEF TypeOK, Pull, Cursor
    <3>2. Below(syn[t].v, syn[t].highest)
      BY <2>2 DEF IInv, PullOK, Below
    <3> QED BY <1>1, <3>1, <3>2 DEF IInv, SpaceInv, Below
  <2> QED BY <2>1, <2>2 DEF SyncLosesMailbox, SyncSave, stateVars
<1> QED BY <1>1, <1>2, <1>3, EndPull DEF TypeOK

LEMMA SyncStoreStep == ASSUME IInv, NEW t \in Syncers, SyncStore(t) PROVE IInv'
<1> DEFINE u == Least(syn[t].todo)
           v == syn[t].v
           p == [syn[t] EXCEPT !.todo = @ \ {u}]
<1>1. /\ TypeOK /\ StoreTypeOK /\ SetPull(t, p) /\ UNCHANGED <<upVars, stateVars, faults>>
      /\ UNCHANGED <<cursor, latch, mbox, left>> /\ AddSynced(v, u)
      /\ syn[t] \in Pull /\ syn[t].todo # {} /\ syn[t].pc = "store" /\ PullOK(t)
  BY DEF IInv, SyncStore, upVars, stateVars, TypeOK
<1>2. u \in syn[t].todo /\ u \in Uids /\ v \in Validities
  <2>1. syn[t].todo \subseteq Uids /\ Uids \subseteq Nat
    BY <1>1 DEF Pull, Uids
  <2> QED BY <1>1, <2>1, LeastInSet DEF PullOK
<1> HIDE DEF u
<1>3. /\ p \in Pull /\ p.v = v /\ p.next = syn[t].next /\ p.highest = syn[t].highest
      /\ p.todo = syn[t].todo \ {u} /\ p.pc = "store"
  BY <1>1 DEF Pull
<1>4. Below(v, u)
  BY <1>1, <1>2 DEF PullOK, Below
<1>5. /\ StoreTypeOK' /\ StoreInv' /\ RecsSteady
      /\ index' \subseteq index \cup {<<v, u>>}
  <2>1. CASE <<v, u>> \in index
    BY <1>1, <2>1, StoreSame DEF AddSynced, IInv, storeVars
  <2>2. CASE <<v, u>> \notin index
    <3>1. PutNew(Synced(v, u)) /\ index' = index \cup {<<v, u>>}
      BY <1>1, <2>2 DEF AddSynced
    <3>2. /\ Synced(v, u) \in Record /\ Synced(v, u).kind = "synced"
          /\ Key(Synced(v, u)) = <<v, u>>
      BY <1>2, RecordTypes
    <3>3. <<v, u>> \in Validities \X Uids
      BY <1>2
    <3> QED BY <1>1, <2>2, <3>1, <3>2, <3>3, PutNewStore DEF IInv
  <2> QED BY <2>1, <2>2
<1>6. SpaceInv'
  <2>1. \A k \in index' : Below(k[1], k[2])
    BY <1>4, <1>5 DEF IInv, SpaceInv
  <2> QED BY <1>1, <2>1 DEF IInv, SpaceInv, Below
<1> HIDE DEF p
<1>7. syn'[t] = p => PullOK(t)'
  BY <1>1, <1>3 DEF PullOK
<1> QED BY <1>1, <1>3, <1>5, <1>6, <1>7, OnePull DEF TypeOK

LEMMA SyncFailsStep == ASSUME IInv, NEW t \in Syncers, SyncFails(t) PROVE IInv'
<1>1. /\ TypeOK /\ StoreTypeOK /\ StoreInv /\ SetPull(t, NoPull) /\ UNCHANGED <<upVars, latch>>
      /\ cursor' = cursor /\ cursor \in Cursor /\ faults' \in 0..MaxFaults
  BY InboundSyncAssumption DEF IInv, TypeOK, SyncFails, stateVars
<1>2. /\ StoreTypeOK' /\ StoreInv' /\ RecsSteady /\ index' = index
  BY <1>1, StoreSame, PutNewFailsStore DEF SyncFails, PutNewFails, storeVars
<1>3. SpaceInv'
  BY <1>1, <1>2, SpaceStays DEF IInv
<1> QED BY <1>1, <1>2, <1>3, EndPull
-----------------------------------------------------------------------------
(* Passes.                                                                 *)

LEMMA Blank ==
  ASSUME NEW pc \in {"idle", "clear", "check", "cursor", "hold"},
         NEW p, p = [NoPass EXCEPT !.pc = pc]
  PROVE  /\ p \in Pass /\ p.pc = pc /\ p.cursor = NoCursor /\ p.gone = {}
  BY IdleOK DEF Pass

(* A pass that has listed nothing yet.                                     *)
LEMMA BlankOK ==
  ASSUME TypeOK, TypeOK', NEW t \in Passes, NEW p, rcn'[t] = p, p.cursor = NoCursor,
         p.gone = {}, p.pc \in {"idle", "clear", "check", "cursor", "hold"}
  PROVE  PassOK(t)'
<1>1. mbox'.validity \in Nat \ {0}
  BY InboundStoreAssumption DEF TypeOK, Validities
<1> QED BY <1>1, IdleOK DEF PassOK, Below

LEMMA PassType ==
  ASSUME TypeOK, NEW t \in Passes, NEW p \in Pass, SetPass(t, p), StoreTypeOK',
         UNCHANGED upVars, cursor' = cursor, latch' \in BOOLEAN, faults' \in 0..MaxFaults
  PROVE  TypeOK' /\ rcn'[t] = p
<1>1. rcn' \in [Passes -> Pass] /\ rcn'[t] = p
  BY DEF SetPass, TypeOK
<1> QED BY <1>1 DEF TypeOK, SetPass, upVars

LEMMA BlankStep ==
  ASSUME IInv, NEW t \in Passes, NEW pc \in {"idle", "clear", "check", "cursor", "hold"},
         SetPass(t, [NoPass EXCEPT !.pc = pc]), UNCHANGED <<storeVars, upVars, cursor>>,
         faults' \in 0..MaxFaults, latch' \in BOOLEAN,
         t = Loop => pc \notin {"clear", "check"} /\ (latch' => pc = "idle"),
         t # Loop => pc # "hold" /\ (latch' => latch)
  PROVE  IInv'
<1>1. PICK p : p = [NoPass EXCEPT !.pc = pc]
  OBVIOUS
<1>2. /\ p \in Pass /\ p.pc = pc /\ p.cursor = NoCursor /\ p.gone = {} /\ SetPass(t, p)
  BY <1>1, Blank
<1>3. StoreTypeOK' /\ StoreInv' /\ RecsSteady /\ index' = index
  BY StoreSame DEF IInv, TypeOK, storeVars
<1>4. SpaceInv'
  BY <1>3, SpaceStays DEF IInv, upVars
<1>5. TypeOK' /\ rcn'[t] = p
  BY <1>2, <1>3, PassType DEF IInv
<1>6. PassOK(t)'
  BY <1>2, <1>5, BlankOK DEF IInv
<1> QED BY <1>2, <1>3, <1>4, <1>5, <1>6, OnePass DEF TypeOK

LEMMA NoPassBlank == NoPass = [NoPass EXCEPT !.pc = "idle"]
  BY DEF NoPass

LEMMA ReleaseStep ==
  ASSUME IInv, NEW t \in Passes, ReleaseBegin(t) \/ ReleaseClear(t) PROVE IInv'
<1>1. /\ TypeOK /\ UNCHANGED <<storeVars, upVars, cursor>> /\ faults' \in 0..MaxFaults
      /\ latch' \in BOOLEAN /\ (latch' => latch)
  BY DEF IInv, TypeOK, ReleaseBegin, ReleaseClear, stateVars
<1>2. t # Loop
  BY InboundSyncAssumption DEF ReleaseBegin, ReleaseClear, IInv, LatchInv
<1>3. CASE ReleaseBegin(t)
  BY <1>1, <1>2, <1>3, BlankStep DEF ReleaseBegin
<1>4. CASE ReleaseClear(t)
  BY <1>1, <1>2, <1>4, BlankStep DEF ReleaseClear
<1> QED BY <1>3, <1>4

LEMMA CheckLatchStep == ASSUME IInv, NEW t \in Passes, CheckLatch(t) PROVE IInv'
<1>1. /\ TypeOK /\ UNCHANGED <<storeVars, upVars, cursor>> /\ faults' \in 0..MaxFaults
      /\ latch' = latch /\ latch \in BOOLEAN
  BY DEF IInv, TypeOK, CheckLatch, stateVars
<1>2. CASE latch
  BY <1>1, <1>2, NoPassBlank, BlankStep DEF CheckLatch
<1>3. CASE ~latch
  BY <1>1, <1>3, BlankStep DEF CheckLatch
<1> QED BY <1>2, <1>3

LEMMA HoldStep == ASSUME IInv, NEW t \in Passes, Hold(t) PROVE IInv'
<1>1. t = Loop
  BY DEF Hold, IInv, LatchInv, Passes
<1> QED BY <1>1, NoPassBlank, BlankStep DEF Hold, IInv, TypeOK

LEMMA PassFailsStep == ASSUME IInv, NEW t \in Passes, PassFails(t) PROVE IInv'
<1>1. faults' \in 0..MaxFaults /\ latch' = latch /\ latch \in BOOLEAN /\ cursor' = cursor
  BY InboundSyncAssumption DEF PassFails, IInv, TypeOK, stateVars
<1> QED BY <1>1, NoPassBlank, BlankStep DEF PassFails

(* Any step of a running pass leaves the latch alone, and the loop runs    *)
(* only with the latch open.                                               *)
LEMMA RunningPass ==
  ASSUME IInv, NEW t \in Passes, NEW p \in Pass, SetPass(t, p),
         rcn[t].pc \in {"cursor", "list", "store", "retract", "unblob"},
         p.pc \in {"list", "store", "retract", "unblob"},
         StoreTypeOK', StoreInv', RecsSteady, index' \subseteq index,
         UNCHANGED <<upVars, stateVars>>, faults' \in 0..MaxFaults,
         rcn'[t] = p /\ TypeOK' => PassOK(t)'
  PROVE  IInv'
<1>1. cursor' = cursor /\ latch' = latch /\ latch \in BOOLEAN
  BY DEF stateVars, IInv, TypeOK
<1>2. TypeOK' /\ rcn'[t] = p
  BY <1>1, PassType DEF IInv
<1>3. SpaceInv'
  BY <1>1, SpaceStays DEF IInv
<1>4. t = Loop => ~latch
  BY DEF IInv, LatchInv
<1> QED BY <1>1, <1>2, <1>3, <1>4, OnePass

LEMMA HorizonStep == ASSUME IInv, NEW t \in Passes, LoadHorizon(t) PROVE IInv'
<1> DEFINE p == [rcn[t] EXCEPT !.pc = "list", !.cursor = cursor]
<1>1. /\ TypeOK /\ rcn[t] \in Pass /\ SetPass(t, p) /\ rcn[t].pc = "cursor"
      /\ UNCHANGED <<storeVars, upVars, stateVars, faults>> /\ UNCHANGED <<index, mbox, seq>>
  BY DEF IInv, TypeOK, LoadHorizon, storeVars, upVars
<1>2. p \in Pass /\ p.pc = "list" /\ p.cursor = cursor /\ p.gone = rcn[t].gone
  BY <1>1 DEF Pass, TypeOK
<1> HIDE DEF p
<1>3. StoreTypeOK' /\ StoreInv' /\ RecsSteady
  BY <1>1, StoreSame DEF IInv, TypeOK
<1>4. rcn'[t] = p => PassOK(t)'
  BY <1>1, <1>2 DEF PassOK, IInv, SpaceInv, Below
<1> QED BY <1>1, <1>2, <1>3, <1>4, RunningPass DEF TypeOK

(* The listing is of the cursor's UID space, all of which the mailbox has  *)
(* assigned: what it does not show has left.                               *)
LEMMA ListUpstreamStep == ASSUME IInv, NEW t \in Passes, ListUpstream(t) PROVE IInv'
<1> DEFINE p == [rcn[t] EXCEPT !.pc = "store", !.present = mbox.present]
<1>1. /\ TypeOK /\ rcn[t] \in Pass /\ rcn[t].pc = "list" /\ PassOK(t)
      /\ UNCHANGED <<storeVars, upVars, stateVars, faults>>
      /\ UNCHANGED <<index, mbox, left, seq, cursor, latch>> /\ latch \in BOOLEAN
  BY DEF IInv, TypeOK, ListUpstream, storeVars, upVars, stateVars
<1>2. CASE SetPass(t, NoPass)
  BY <1>1, <1>2, NoPassBlank, BlankStep DEF TypeOK, LatchInv, IInv
<1>3. CASE SetPass(t, p) /\ rcn[t].cursor.validity = mbox.validity
  <2>1. /\ p \in Pass /\ p.pc = "store" /\ p.cursor = rcn[t].cursor /\ p.gone = rcn[t].gone
        /\ p.present = mbox.present
    BY <1>1 DEF Pass, TypeOK
  <2> HIDE DEF p
  <2>2. StoreTypeOK' /\ StoreInv' /\ RecsSteady
    BY <1>1, StoreSame DEF IInv, TypeOK
  <2>3. ASSUME NEW u \in Uids, u <= rcn[t].cursor.uid, u \notin mbox.present
        PROVE  <<mbox.validity, u>> \in left
    <3>1. rcn[t].cursor.uid < mbox.next /\ rcn[t].cursor.uid \in Nat /\ u \in Nat
      BY <1>1, <1>3, InboundStoreAssumption DEF PassOK, Below, Pass, Cursor, Uids
    <3>2. u < mbox.next
      BY <1>1, <2>3, <3>1, MboxTypes
    <3> QED BY <2>3, <3>2 DEF IInv, SpaceInv
  <2>4. rcn'[t] = p => PassOK(t)'
    BY <1>1, <1>3, <2>1, <2>3 DEF PassOK, Below, TypeOK
  <2> QED BY <1>1, <1>3, <2>1, <2>2, <2>4, RunningPass DEF TypeOK
<1> QED BY <1>2, <1>3 DEF ListUpstream

LEMMA UsedIds == ASSUME StoreTypeOK, StoreInv, NEW id \in Ids, recs[id].kind # "absent"
                 PROVE  id <= seq
  BY RecordTypes, InboundStoreAssumption DEF StoreInv, StoreTypeOK, Ids

LEMMA ListStoreStep == ASSUME IInv, NEW t \in Passes, ListStore(t) PROVE IInv'
<1> DEFINE gone == Gone(rcn[t])
           p == [rcn[t] EXCEPT !.pc = "retract", !.present = {}, !.gone = gone]
<1>1. /\ TypeOK /\ rcn[t] \in Pass /\ rcn[t].pc = "store" /\ PassOK(t)
      /\ UNCHANGED <<storeVars, upVars, stateVars, faults>>
      /\ UNCHANGED <<index, mbox, left, seq, cursor, latch>> /\ latch \in BOOLEAN
  BY DEF IInv, TypeOK, ListStore, storeVars, upVars, stateVars
<1>2. t = Loop => ~latch
  BY <1>1 DEF IInv, LatchInv
<1>3. CASE SetPass(t, NoPass)
  BY <1>1, <1>2, <1>3, NoPassBlank, BlankStep DEF TypeOK
<1>4. CASE t = Loop /\ SetPass(t, [NoPass EXCEPT !.pc = "hold"])
  BY <1>1, <1>2, <1>4, BlankStep DEF TypeOK
<1>5. CASE SetPass(t, p) /\ gone # {}
  <2>1. gone \subseteq Ids /\ \A id \in gone : id <= seq
    <3>1. \A id \in gone : id \in Ids /\ recs[id].kind = "synced"
      BY DEF Gone, Orphan, Judged
    <3> QED BY <3>1, UsedIds DEF IInv, TypeOK
  <2> HIDE DEF gone
  <2>2. p \in Pass /\ p.pc = "retract" /\ p.cursor = rcn[t].cursor /\ p.gone = gone
    BY <1>1, <2>1 DEF Pass
  <2> HIDE DEF p
  <2>3. StoreTypeOK' /\ StoreInv' /\ RecsSteady
    BY <1>1, StoreSame DEF IInv, TypeOK
  <2>4. rcn'[t] = p => PassOK(t)'
    BY <1>1, <1>5, <2>1, <2>2 DEF PassOK, Below
  <2> QED BY <1>1, <1>5, <2>2, <2>3, <2>4, RunningPass DEF TypeOK
<1> QED BY <1>3, <1>4, <1>5 DEF ListStore

(* After one candidate: the rest of the pass.                              *)
LEMMA RestStep ==
  ASSUME IInv, NEW t \in Passes, rcn[t].pc \in {"retract", "unblob"}, SetPass(t, Rest(rcn[t])),
         StoreTypeOK', StoreInv', RecsSteady, index' \subseteq index,
         UNCHANGED <<upVars, stateVars>>, faults' \in 0..MaxFaults
  PROVE  IInv'
<1> DEFINE gone == rcn[t].gone \ {Least(rcn[t].gone)}
           p == [rcn[t] EXCEPT !.pc = "retract", !.gone = gone, !.del = 0]
<1>1. /\ TypeOK /\ TypeOK' /\ rcn[t] \in Pass /\ PassOK(t) /\ cursor' = cursor
      /\ latch' = latch /\ latch \in BOOLEAN /\ UNCHANGED mbox
      /\ Rest(rcn[t]) \in Pass /\ (t = Loop => ~latch)
  <2>1. rcn[t] \in Pass /\ 0 \in 0..MaxId
    BY InboundStoreAssumption DEF IInv, TypeOK
  <2>2. Rest(rcn[t]) \in Pass
    BY <2>1, IdleOK DEF Rest, Pass
  <2>3. cursor' = cursor /\ latch' = latch /\ latch \in BOOLEAN /\ UNCHANGED mbox
    BY DEF stateVars, upVars, IInv, TypeOK
  <2> QED BY <2>1, <2>2, <2>3, PassType DEF IInv, LatchInv
<1>2. CASE gone = {}
  <2>1. SetPass(t, NoPass) /\ SpaceInv'
    BY <1>1, <1>2, SpaceStays DEF Rest, IInv
  <2>2. rcn'[t] = NoPass => PassOK(t)'
    BY <1>1, IdleOK, BlankOK
  <2> QED BY <1>1, <2>1, <2>2, IdleOK, OnePass DEF LatchInv, IInv
<1>3. CASE gone # {}
  <2>1. p \in Pass /\ p.pc = "retract" /\ p.cursor = rcn[t].cursor /\ p.gone = gone
    <3>1. gone \in SUBSET Ids /\ 0 \in 0..MaxId
      BY <1>1, InboundStoreAssumption DEF Pass
    <3> HIDE DEF gone
    <3> QED BY <1>1, <3>1 DEF Pass
  <2>2. SetPass(t, p)
    BY <1>3 DEF Rest
  <2>3. \A id \in gone : id <= seq'
    <3>1. \A id \in gone : id \in Nat /\ id <= seq
      BY <1>1 DEF Pass, PassOK, Ids
    <3> QED BY <1>1, <3>1 DEF RecsSteady, TypeOK, StoreTypeOK
  <2> HIDE DEF p
  <2>4. rcn'[t] = p => PassOK(t)'
    BY <1>1, <1>3, <2>1, <2>3 DEF PassOK, Below
  <2> QED BY <2>1, <2>2, <2>4, RunningPass
<1> QED BY <1>2, <1>3

LEMMA RetractStep == ASSUME IInv, NEW t \in Passes, Retract(t) PROVE IInv'
<1> DEFINE id == Least(rcn[t].gone)
           p == [rcn[t] EXCEPT !.pc = "unblob", !.del = id]
<1>1. /\ TypeOK /\ StoreTypeOK /\ StoreInv /\ rcn[t] \in Pass /\ rcn[t].pc = "retract"
      /\ PassOK(t) /\ UNCHANGED <<upVars, stateVars>> /\ faults' \in 0..MaxFaults /\ UNCHANGED mbox
  BY InboundSyncAssumption DEF IInv, TypeOK, Retract, upVars
<1>2. id \in rcn[t].gone /\ id \in Ids
  <2>1. rcn[t].gone \subseteq Ids /\ Ids \subseteq Nat /\ rcn[t].gone # {}
    BY <1>1 DEF Pass, PassOK, Ids
  <2> QED BY <2>1, LeastInSet
<1> HIDE DEF id
<1>3. CASE UNCHANGED storeVars /\ SetPass(t, Rest(rcn[t]))
  BY <1>1, <1>3, StoreSame, RestStep DEF storeVars
<1>4. CASE RemoveSynced(id)
  <2>1. /\ StoreTypeOK' /\ StoreInv' /\ RecsSteady /\ id <= seq /\ recs'[id] = NoRecord
        /\ index' \subseteq index
    BY <1>1, <1>2, <1>4, RemoveStore DEF RemoveSynced
  <2>2. CASE SetPass(t, Rest(rcn[t]))
    BY <1>1, <2>1, <2>2, RestStep
  <2>3. CASE SetPass(t, p)
    <3>1. /\ p \in Pass /\ p.pc = "unblob" /\ p.cursor = rcn[t].cursor /\ p.gone = rcn[t].gone
          /\ p.del = id
      <4>1. id \in 0..MaxId
        BY <1>2, InboundStoreAssumption DEF Ids
      <4> QED BY <1>1, <4>1 DEF Pass
    <3> HIDE DEF p
    <3>2. id <= seq' /\ (\A j \in rcn[t].gone : j <= seq') /\ recs'[id].kind = "absent"
      <4>1. recs'[id].kind = "absent" /\ seq' = seq
        BY <1>4, <2>1, RecordTypes DEF RemoveSynced
      <4> QED BY <1>1, <2>1, <4>1 DEF PassOK
    <3>3. rcn'[t] = p => PassOK(t)'
      BY <1>1, <1>2, <3>1, <3>2 DEF PassOK, Below
    <3> QED BY <1>1, <2>1, <2>3, <3>1, <3>3, RunningPass
  <2> QED BY <1>3, <1>4, <2>2, <2>3 DEF Retract, id
<1> QED BY <1>3, <1>4 DEF Retract, id

LEMMA RetractBlobStep == ASSUME IInv, NEW t \in Passes, RetractBlob(t) PROVE IInv'
<1>1. /\ StoreTypeOK /\ StoreInv /\ rcn[t].pc = "unblob" /\ faults' \in 0..MaxFaults
      /\ rcn[t].del \in Ids /\ recs[rcn[t].del].kind = "absent" /\ index' = index
      /\ UNCHANGED <<upVars, stateVars>>
  BY DEF IInv, TypeOK, RetractBlob, PassOK, DeleteBlob
<1>2. StoreTypeOK' /\ StoreInv' /\ RecsSteady
  BY <1>1, DeleteBlobStore DEF RetractBlob
<1> QED BY <1>1, <1>2, RestStep DEF RetractBlob
-----------------------------------------------------------------------------
(* Reads, bounces, restarts.                                               *)

LEMMA EndFetch ==
  ASSUME IInv, NEW t \in Readers, SetFetch(t, NoFetch), StoreTypeOK', StoreInv', RecsSteady,
         UNCHANGED <<upVars, stateVars>>, index' \subseteq index, faults' \in 0..MaxFaults
  PROVE  IInv'
<1>1. rdr'[t] = NoFetch => FetchOK(t)'
  BY IdleOK DEF FetchOK
<1> QED BY <1>1, IdleOK, OneFetch

LEMMA FetchBeginStep ==
  ASSUME IInv, NEW t \in Readers, NEW id \in Ids, FetchBegin(t, id) PROVE IInv'
<1> DEFINE p == [pc |-> "fetch", id |-> id, v |-> recs[id].validity, uid |-> recs[id].uid]
<1>1. /\ TypeOK /\ StoreTypeOK /\ StoreInv /\ SetFetch(t, p) /\ recs[id].kind = "synced"
      /\ UNCHANGED <<storeVars, upVars, stateVars, faults>> /\ recs[id] \in Record
      /\ UNCHANGED <<recs, index, mbox, seq>>
  BY DEF IInv, TypeOK, StoreTypeOK, FetchBegin, storeVars, upVars
<1>2. Key(recs[id]) \in index /\ Key(recs[id]) = <<recs[id].validity, recs[id].uid>>
  BY <1>1 DEF StoreInv, Key
<1>3. recs[id].uid \in Uids /\ Below(recs[id].validity, recs[id].uid)
  BY <1>1, <1>2 DEF IInv, SpaceInv, StoreTypeOK
<1>4. id <= seq /\ id \in 0..MaxId
  BY <1>1, UsedIds, InboundStoreAssumption DEF Ids
<1>5. /\ p \in Fetch /\ p.pc = "fetch" /\ p.id = id /\ p.v = recs[id].validity
      /\ p.uid = recs[id].uid
  BY <1>1, <1>4 DEF Record, Fetch
<1>6. StoreTypeOK' /\ StoreInv' /\ RecsSteady
  BY <1>1, StoreSame
<1> HIDE DEF p
<1>7. rdr'[t] = p => FetchOK(t)'
  BY <1>1, <1>2, <1>3, <1>4, <1>5 DEF FetchOK, Below
<1> QED BY <1>1, <1>5, <1>6, <1>7, OneFetch DEF TypeOK

(* A UID the session does not find in its own UID space has left.          *)
LEMMA FetchBodyStep == ASSUME IInv, NEW t \in Readers, FetchBody(t) PROVE IInv'
<1>1. /\ TypeOK /\ rdr[t] \in Fetch /\ rdr[t].pc = "fetch" /\ FetchOK(t)
      /\ UNCHANGED <<storeVars, upVars, stateVars, faults>>
      /\ UNCHANGED <<recs, index, mbox, left, seq>>
  BY DEF IInv, TypeOK, FetchBody, storeVars, upVars
<1>2. StoreTypeOK' /\ StoreInv' /\ RecsSteady
  BY <1>1, StoreSame DEF IInv, TypeOK
<1>3. CASE SetFetch(t, NoFetch)
  BY <1>1, <1>2, <1>3, EndFetch DEF TypeOK
<1>4. ASSUME NEW pc \in {"fill", "drop"}, SetFetch(t, [rdr[t] EXCEPT !.pc = pc]),
             pc = "drop" => rdr[t].v = mbox.validity /\ rdr[t].uid \notin mbox.present
      PROVE  IInv'
  <2> DEFINE p == [rdr[t] EXCEPT !.pc = pc]
  <2>1. /\ p \in Fetch /\ p.pc = pc /\ p.id = rdr[t].id /\ p.v = rdr[t].v
        /\ p.uid = rdr[t].uid
    BY <1>1 DEF Fetch
  <2>2. pc = "drop" => <<rdr[t].v, rdr[t].uid>> \in left
    BY <1>1, <1>4 DEF FetchOK, Below, IInv, SpaceInv
  <2> HIDE DEF p
  <2>3. rdr'[t] = p => FetchOK(t)'
    BY <1>1, <2>1, <2>2 DEF FetchOK, Below
  <2> QED BY <1>1, <1>2, <1>4, <2>1, <2>3, OneFetch DEF TypeOK, p
<1> QED BY <1>3, <1>4 DEF FetchBody

LEMMA FetchFillStep == ASSUME IInv, NEW t \in Readers, FetchFill(t) PROVE IInv'
<1>1. /\ StoreTypeOK /\ StoreInv /\ rdr[t].id \in Ids /\ faults' \in 0..MaxFaults
      /\ UNCHANGED <<upVars, stateVars>> /\ SetFetch(t, NoFetch)
      /\ SetContent(rdr[t].id) \/ UNCHANGED storeVars
  BY DEF IInv, TypeOK, FetchFill, FetchOK
<1>2. StoreTypeOK' /\ StoreInv' /\ RecsSteady /\ index' = index
  BY <1>1, StoreSame, SetContentStore DEF SetContent, storeVars
<1> QED BY <1>1, <1>2, EndFetch

LEMMA FetchDropStep == ASSUME IInv, NEW t \in Readers, FetchDrop(t) PROVE IInv'
<1> DEFINE id == rdr[t].id
           p == [rdr[t] EXCEPT !.pc = "unblob"]
<1>1. /\ TypeOK /\ StoreTypeOK /\ StoreInv /\ rdr[t] \in Fetch /\ id \in Ids
      /\ rdr[t].pc = "drop" /\ FetchOK(t) /\ faults' \in 0..MaxFaults /\ UNCHANGED mbox
      /\ UNCHANGED <<upVars, stateVars>>
  BY DEF IInv, TypeOK, FetchDrop, FetchOK, upVars
<1>2. CASE SetFetch(t, NoFetch) /\ UNCHANGED storeVars
  BY <1>1, <1>2, StoreSame, EndFetch DEF storeVars
<1>3. CASE RemoveSynced(id)
  <2>1. /\ StoreTypeOK' /\ StoreInv' /\ RecsSteady /\ id <= seq /\ recs'[id] = NoRecord
        /\ index' \subseteq index /\ seq' = seq
    BY <1>1, <1>3, RemoveStore DEF RemoveSynced
  <2>2. CASE SetFetch(t, NoFetch)
    BY <1>1, <2>1, <2>2, EndFetch
  <2>3. CASE SetFetch(t, p)
    <3>1. p \in Fetch /\ p.pc = "unblob" /\ p.id = id /\ p.v = rdr[t].v /\ p.uid = rdr[t].uid
      BY <1>1 DEF Fetch
    <3>2. recs'[id].kind = "absent"
      BY <2>1, RecordTypes
    <3> HIDE DEF p
    <3>3. rdr'[t] = p => FetchOK(t)'
      BY <1>1, <2>1, <3>1, <3>2 DEF FetchOK, Below
    <3> QED BY <1>1, <2>1, <2>3, <3>1, <3>3, OneFetch
  <2> QED BY <1>2, <2>2, <2>3 DEF FetchDrop
<1> QED BY <1>2, <1>3 DEF FetchDrop

LEMMA FetchUnblobStep == ASSUME IInv, NEW t \in Readers, FetchUnblob(t) PROVE IInv'
<1>1. /\ StoreTypeOK /\ StoreInv /\ faults' \in 0..MaxFaults
      /\ rdr[t].id \in Ids /\ recs[rdr[t].id].kind = "absent" /\ index' = index
      /\ UNCHANGED <<upVars, stateVars>>
  BY DEF IInv, TypeOK, FetchUnblob, FetchOK, DeleteBlob
<1>2. StoreTypeOK' /\ StoreInv' /\ RecsSteady
  BY <1>1, DeleteBlobStore DEF FetchUnblob
<1> QED BY <1>1, <1>2, EndFetch DEF FetchUnblob

LEMMA FetchFailsStep == ASSUME IInv, NEW t \in Readers, FetchFails(t) PROVE IInv'
<1>1. faults' \in 0..MaxFaults /\ index' = index
  BY InboundSyncAssumption DEF FetchFails, IInv, TypeOK, storeVars
<1>2. StoreTypeOK' /\ StoreInv' /\ RecsSteady
  BY StoreSame DEF FetchFails, IInv, TypeOK
<1> QED BY <1>1, <1>2, EndFetch DEF FetchFails

LEMMA BounceStep == ASSUME IInv, Bounce PROVE IInv'
<1>1. /\ TypeOK /\ StoreTypeOK /\ StoreInv /\ PutNew(Generated) /\ index' = index
      /\ UNCHANGED <<upVars, cursor, latch, syn, rcn, rdr, faults>>
  BY DEF IInv, TypeOK, Bounce, AddGenerated, stateVars
<1>2. StoreTypeOK' /\ StoreInv' /\ RecsSteady
  BY <1>1, RecordTypes, PutNewStore
<1>3. TypeOK' /\ UpSteady
  BY <1>1, <1>2, UpSame DEF TypeOK, upVars
<1>4. (\A s \in Syncers : PullOK(s)') /\ (\A s \in Passes : PassOK(s)')
  BY <1>1, <1>2, <1>3, PullStays, PassStays DEF IInv
<1>5. (\A s \in Readers : FetchOK(s)') /\ SpaceInv'
  BY <1>1, <1>2, <1>3, FetchStays, SpaceStays DEF IInv
<1>6. LatchInv'
  BY <1>1 DEF IInv, LatchInv
<1> QED BY <1>2, <1>3, <1>4, <1>5, <1>6 DEF IInv

LEMMA RestartStep == ASSUME IInv, Restart PROVE IInv'
<1>1. /\ TypeOK /\ UNCHANGED <<upVars, cursor, latch>> /\ faults' \in 0..MaxFaults
      /\ \A s \in Syncers : syn'[s] = NoPull
      /\ \A s \in Passes : rcn'[s] = NoPass
      /\ \A s \in Readers : rdr'[s] = NoFetch
  BY InboundSyncAssumption DEF IInv, TypeOK, Restart, stateVars
<1>2. StoreTypeOK' /\ StoreInv' /\ RecsSteady /\ index' = index
  BY SweepStore DEF IInv, TypeOK, Restart, SweepOrphans
<1>3. TypeOK'
  <2>1. /\ syn' \in [Syncers -> Pull] /\ rcn' \in [Passes -> Pass]
        /\ rdr' \in [Readers -> Fetch]
    BY IdleOK DEF Restart
  <2> QED BY <1>1, <1>2, <2>1 DEF TypeOK, upVars
<1>4. SpaceInv'
  BY <1>1, <1>2, SpaceStays DEF IInv
<1>5. (\A s \in Syncers : PullOK(s)') /\ (\A s \in Readers : FetchOK(s)')
  BY <1>1, IdleOK DEF PullOK, FetchOK
<1>6. \A s \in Passes : PassOK(s)'
  BY <1>1, <1>3, IdleOK, BlankOK
<1>7. LatchInv'
  BY <1>1, IdleOK DEF LatchInv, Passes
<1> QED BY <1>2, <1>3, <1>4, <1>5, <1>6, <1>7 DEF IInv
-----------------------------------------------------------------------------
LEMMA IInvInit == Init => IInv
<1> SUFFICES ASSUME Init PROVE IInv
  OBVIOUS
<1>1. PICK n \in 0..MaxUid : mbox = Mailbox(1, n)
  BY DEF Init
<1>2. mbox.validity = 1 /\ mbox.next = n + 1 /\ mbox.present = 1..n
  BY <1>1, MailboxFields
<1>3. mbox \in MailboxType
  <2>1. 1 \in Validities /\ n + 1 \in 1..MaxUid + 1 /\ 1..n \in SUBSET Uids
    BY InboundStoreAssumption DEF Validities, Uids
  <2> QED BY <1>1, <2>1 DEF Mailbox, MailboxType
<1>4. StoreTypeOK
  BY RecordTypes, InboundStoreAssumption DEF Init, StoreInit, StoreTypeOK
<1>5. TypeOK
  <2>1. /\ syn \in [Syncers -> Pull] /\ rcn \in [Passes -> Pass] /\ rdr \in [Readers -> Fetch]
    BY IdleOK DEF Init
  <2>2. cursor \in Cursor /\ latch \in BOOLEAN /\ faults \in 0..MaxFaults /\ left = {}
    <3>1. 0 \in 0..MaxFaults
      BY InboundSyncAssumption
    <3>2. faults = 0 /\ cursor = NoCursor /\ latch = FALSE /\ left = {}
      BY DEF Init
    <3> QED BY <3>1, <3>2, IdleOK
  <2> QED BY <1>3, <1>4, <2>1, <2>2 DEF TypeOK, MailboxType
<1>6. \A id \in Ids : recs[id] = NoRecord
  BY DEF Init, StoreInit
<1>7. StoreInv
  <2>1. index = {} /\ NoRecord.kind = "absent"
    BY RecordTypes DEF Init, StoreInit
  <2> QED BY <1>6, <2>1 DEF StoreInv, NoDuplicates, ContentBacked, Live
<1>8. SpaceInv
  <2>1. index = {} /\ left = {} /\ cursor = NoCursor
    BY DEF Init, StoreInit
  <2> QED BY <1>2, <2>1, IdleOK, InboundStoreAssumption DEF SpaceInv, Below, Uids
<1>9. (\A s \in Syncers : PullOK(s)) /\ (\A s \in Readers : FetchOK(s))
  BY IdleOK DEF PullOK, FetchOK, Init
<1>10. (\A s \in Passes : PassOK(s)) /\ LatchInv
  <2>1. \A s \in Passes : rcn[s] = NoPass
    BY DEF Init
  <2> QED BY <1>2, <2>1, IdleOK DEF PassOK, Below, LatchInv, Passes
<1> QED BY <1>5, <1>7, <1>8, <1>9, <1>10 DEF IInv

LEMMA IInvNext == IInv /\ [Next]_vars => IInv'
<1> SUFFICES ASSUME IInv, [Next]_vars PROVE IInv'
  OBVIOUS
<1>1. CASE Upstream
  BY <1>1, ArriveStep, DepartStep, ResetStep DEF Upstream
<1>2. ASSUME NEW t \in Syncers, SyncStep(t) \/ SyncFails(t) PROVE IInv'
  BY <1>2, SyncSelectStep, SyncLoadStep, SyncEndStep, SyncStoreStep, SyncFailsStep DEF SyncStep
<1>3. ASSUME NEW t \in Passes, ReleaseBegin(t) \/ PassStep(t) \/ PassFails(t) PROVE IInv'
  BY <1>3, ReleaseStep, CheckLatchStep, HorizonStep, ListUpstreamStep, ListStoreStep, HoldStep,
     RetractStep, RetractBlobStep, PassFailsStep DEF PassStep
<1>4. ASSUME NEW t \in Readers,
             FetchStep(t) \/ FetchFails(t) \/ \E id \in Ids : FetchBegin(t, id)
      PROVE  IInv'
  BY <1>4, FetchBeginStep, FetchBodyStep, FetchFillStep, FetchDropStep, FetchUnblobStep,
     FetchFailsStep DEF FetchStep
<1>5. CASE UNCHANGED vars
  <2>1. /\ UNCHANGED <<storeVars, stateVars, syn, rcn, rdr, faults>> /\ UNCHANGED upVars
        /\ UNCHANGED <<mbox, left, index, cursor>>
    BY <1>5 DEF vars, storeVars, stateVars, upVars
  <2>2. UpSteady /\ SpaceInv' /\ mbox' \in MailboxType /\ left' \in SUBSET (Validities \X Uids)
    BY <2>1, UpSame, SpaceStays DEF IInv, TypeOK, MailboxType
  <2> QED BY <2>1, <2>2, OneUpstream
<1> QED BY <1>1, <1>2, <1>3, <1>4, <1>5, BounceStep, RestartStep DEF Next

LEMMA IInvAlways == Spec => []IInv
  BY IInvInit, IInvNext, PTL DEF Spec

(* Every state of the inbound side has its declared types.                 *)
THEOREM InboundTypeCorrect == Spec => []TypeOK
<1>1. IInv => TypeOK
  BY DEF IInv
<1> QED BY <1>1, IInvAlways, PTL

(* One record per upstream message, for any number of overlapping pulls.   *)
THEOREM Deduplicated == Spec => []NoDuplicates
<1>1. IInv => NoDuplicates
  BY DEF IInv, StoreInv
<1> QED BY <1>1, IInvAlways, PTL

(* A record marked present has its body, whatever deletion comes late.     *)
THEOREM BodiesBacked == Spec => []ContentBacked
<1>1. IInv => ContentBacked
  BY DEF IInv, StoreInv
<1> QED BY <1>1, IInvAlways, PTL

(* The loop has no purge under way while the safety cap holds the inbox,   *)
(* however releases interleave with it.                                    *)
THEOREM CapLatches == Spec => []LatchHolds
<1>1. IInv => LatchHolds
  BY DEF IInv, LatchInv, LatchHolds
<1> QED BY <1>1, IInvAlways, PTL
-----------------------------------------------------------------------------
(* What leaves the store, and what cannot be lost.                         *)

(* Every synced record came with its body.                                 *)
BodiesInv == Eager => \A id \in Ids : recs[id].kind = "synced" => ~recs[id].pending

(* The store is eager, or the UID space is never reset: no record is an    *)
(* orphan of another UID space.                                            *)
Stable == Eager \/ MaxValidity = 1

(* A lazy store under resets: no pull has stored mail of a newer UID space *)
(* between a pass's listing of the upstream and its listing of the store.  *)
FreshListing ==
    ~Eager => \A t \in Passes : rcn[t].pc = "store" =>
        \A id \in Ids : recs[id].kind = "synced"
                         => recs[id].validity <= rcn[t].cursor.validity

(* The message left the source, or its whole UID space was superseded.     *)
Departed(k) == k \in left \/ (~Stable /\ k[1] < mbox.validity)

GoneDeparted(t) ==
    rcn[t].pc \in {"retract", "unblob"} =>
        \A id \in rcn[t].gone : recs[id].kind = "synced" => Departed(Key(recs[id]))

(* A pull in flight still has to store, or has stored, what its cursor     *)
(* will pass.                                                              *)
PullCovers(t) ==
    syn[t].pc = "store" /\ syn[t].v = mbox.validity =>
        \A u \in mbox.present : u <= syn[t].highest /\ Wanted(u) =>
            u \in syn[t].todo \/ Stored(mbox.validity, u)

LInv ==
    /\ BodiesInv
    /\ \A t \in Passes : GoneDeparted(t)
    /\ \A t \in Syncers : PullCovers(t)
    /\ NoLostMail

(* How a record, and the upstream, evolve in one step.                     *)
RecordKeeps(id) ==
    \/ id > seq
    \/ recs'[id].kind = recs[id].kind /\ Key(recs'[id]) = Key(recs[id])
    \/ recs[id].kind = "synced" /\ recs'[id].kind = "absent" /\ Departed(Key(recs[id]))

UpKeeps ==
    /\ left \subseteq left'
    /\ \/ mbox.validity < mbox'.validity
       \/ /\ mbox'.validity = mbox.validity
          /\ \A u \in mbox'.present : u \in mbox.present \/ mbox.next <= u

LEMMA NextUpKeeps == ASSUME IInv, [Next]_vars PROVE UpKeeps
<1>1. TypeOK /\ mbox \in MailboxType
  BY DEF IInv, TypeOK, MailboxType
<1>2. CASE UNCHANGED upVars
  BY <1>2 DEF UpKeeps, upVars
<1>3. CASE Arrive
  <2>1. /\ mbox'.validity = mbox.validity /\ mbox'.present = mbox.present \cup {mbox.next}
        /\ left' = left /\ mbox.next <= mbox.next
    BY <1>1, <1>3, MboxTypes DEF Arrive, MailboxType
  <2> QED BY <2>1 DEF UpKeeps
<1>4. CASE \E u \in Uids : Depart(u)
  BY <1>1, <1>4 DEF Depart, MailboxType, UpKeeps
<1>5. CASE \E n \in 0..MaxUid : Reset(n)
  BY <1>1, <1>5, MailboxFields, MboxTypes DEF Reset, UpKeeps
<1>6. UNCHANGED upVars \/ Upstream
  BY DEF Next, vars, SyncStep, SyncSelect, SyncLoad, SyncLosesMailbox, SyncStore, SyncSave,
         SyncFails, ReleaseBegin, PassStep, PassFails, ReleaseClear, CheckLatch, LoadHorizon,
         ListUpstream, ListStore, Hold, Retract, RetractBlob, FetchStep, FetchBegin, FetchBody,
         FetchFill, FetchDrop, FetchUnblob, FetchFails, Bounce, Restart, upVars
<1> QED BY <1>2, <1>3, <1>4, <1>5, <1>6 DEF Upstream

(* The transactions on the records, by what they do.                       *)
LEMMA StoreCases ==
  ASSUME IInv, [Next]_vars
  PROVE  \/ UNCHANGED <<seq, recs>>
         \/ PutNew(Generated)
         \/ \E t \in Syncers : syn[t].pc = "store" /\ PutNew(Synced(syn[t].v, Least(syn[t].todo)))
         \/ \E id \in Ids : SetContent(id)
         \/ \E t \in Passes : rcn[t].pc = "retract" /\ RemoveSynced(Least(rcn[t].gone))
         \/ \E t \in Readers : rdr[t].pc = "drop" /\ RemoveSynced(rdr[t].id)
<1>1. CASE Upstream \/ UNCHANGED vars
  BY <1>1 DEF Upstream, Arrive, Depart, Reset, vars, storeVars
<1>2. ASSUME NEW t \in Syncers, SyncStep(t) \/ SyncFails(t), ~UNCHANGED <<seq, recs>>
      PROVE  syn[t].pc = "store" /\ PutNew(Synced(syn[t].v, Least(syn[t].todo)))
  BY <1>2 DEF SyncStep, SyncSelect, SyncLoad, SyncLosesMailbox, SyncStore, SyncSave, SyncFails,
              AddSynced, PutNewFails, storeVars
<1>3. ASSUME NEW t \in Passes, ReleaseBegin(t) \/ PassStep(t) \/ PassFails(t),
             ~UNCHANGED <<seq, recs>>
      PROVE  rcn[t].pc = "retract" /\ RemoveSynced(Least(rcn[t].gone))
  BY <1>3 DEF ReleaseBegin, PassStep, PassFails, ReleaseClear, CheckLatch, LoadHorizon,
              ListUpstream, ListStore, Hold, Retract, RetractBlob, DeleteBlob, storeVars
<1>4. ASSUME NEW t \in Readers, FetchStep(t), ~UNCHANGED <<seq, recs>>
      PROVE  \/ rdr[t].id \in Ids /\ SetContent(rdr[t].id)
             \/ rdr[t].pc = "drop" /\ RemoveSynced(rdr[t].id)
  <2>1. rdr[t].pc # "idle" => rdr[t].id \in Ids
    BY DEF IInv, FetchOK
  <2> QED BY <1>4, <2>1 DEF FetchStep, FetchBody, FetchFill, FetchDrop, FetchUnblob, DeleteBlob,
                            storeVars
<1>5. ASSUME NEW t \in Readers, FetchFails(t) \/ \E id \in Ids : FetchBegin(t, id)
      PROVE  UNCHANGED <<seq, recs>>
  BY <1>5 DEF FetchFails, FetchBegin, storeVars
<1>6. CASE Bounce \/ Restart
  BY <1>6 DEF Bounce, AddGenerated, Restart, SweepOrphans
<1> QED BY <1>1, <1>2, <1>3, <1>4, <1>5, <1>6 DEF Next

LEMMA TodoLeast ==
  ASSUME IInv, NEW t \in Syncers, syn[t].todo # {}
  PROVE  Least(syn[t].todo) \in syn[t].todo /\ Least(syn[t].todo) \in Uids
<1>1. syn[t].todo \subseteq Uids /\ Uids \subseteq Nat
  BY DEF IInv, TypeOK, Pull, Uids
<1> QED BY <1>1, LeastInSet

LEMMA GoneLeast ==
  ASSUME IInv, NEW t \in Passes, rcn[t].pc \in {"retract", "unblob"}
  PROVE  Least(rcn[t].gone) \in rcn[t].gone /\ Least(rcn[t].gone) \in Ids
<1>1. rcn[t].gone \subseteq Ids /\ Ids \subseteq Nat /\ rcn[t].gone # {}
  BY DEF IInv, TypeOK, Pass, PassOK, Ids
<1> QED BY <1>1, LeastInSet

(* Only what left the source is removed.                                   *)
LEMMA NextRecordKeeps ==
  ASSUME IInv, \A t \in Passes : GoneDeparted(t), [Next]_vars
  PROVE  \A id \in Ids : RecordKeeps(id)
<1>1. StoreTypeOK /\ StoreInv
  BY DEF IInv, TypeOK
<1>2. ASSUME NEW j \in Ids, RemoveSynced(j), Departed(Key(recs[j]))
      PROVE  \A id \in Ids : RecordKeeps(id)
  <2>1. recs'[j].kind = "absent" /\ \A i \in Ids \ {j} : recs'[i] = recs[i]
    BY <1>1, <1>2, RemoveStore, RecordTypes
  <2> QED BY <1>2, <2>1 DEF RecordKeeps, RemoveSynced, Removable
<1>3. ASSUME NEW r, PutNew(r) PROVE \A id \in Ids : RecordKeeps(id)
  <2>1. \A id \in Ids : id # seq + 1 => recs'[id] = recs[id]
    BY <1>1, <1>3 DEF PutNew, StoreTypeOK
  <2>2. seq + 1 > seq
    BY <1>1 DEF StoreTypeOK
  <2> QED BY <2>1, <2>2 DEF RecordKeeps
<1>4. ASSUME NEW j \in Ids, SetContent(j) PROVE \A id \in Ids : RecordKeeps(id)
  BY <1>1, <1>4, SetContentStore DEF RecordKeeps
<1>5. ASSUME NEW t \in Passes, rcn[t].pc = "retract", RemoveSynced(Least(rcn[t].gone))
      PROVE  \A id \in Ids : RecordKeeps(id)
  <2>1. Departed(Key(recs[Least(rcn[t].gone)]))
    BY <1>5, GoneLeast DEF GoneDeparted, RemoveSynced, Removable
  <2> QED BY <1>2, <1>5, <2>1, GoneLeast
<1>6. ASSUME NEW t \in Readers, rdr[t].pc = "drop", RemoveSynced(rdr[t].id)
      PROVE  \A id \in Ids : RecordKeeps(id)
  <2>1. rdr[t].id \in Ids /\ Key(recs[rdr[t].id]) \in left
    BY <1>6 DEF IInv, FetchOK, RemoveSynced, Removable
  <2> QED BY <1>2, <1>6, <2>1 DEF Departed
<1>7. CASE UNCHANGED <<seq, recs>>
  BY <1>7 DEF RecordKeeps
<1> QED BY <1>3, <1>4, <1>5, <1>6, <1>7, StoreCases

LEMMA NextBodies ==
  ASSUME IInv, BodiesInv, [Next]_vars PROVE BodiesInv'
<1> SUFFICES ASSUME Eager, NEW id \in Ids, recs'[id].kind = "synced" PROVE ~recs'[id].pending
  BY DEF BodiesInv
<1>1. StoreTypeOK /\ StoreInv
  BY DEF IInv, TypeOK
<1>2. CASE recs'[id] = recs[id]
  BY <1>2 DEF BodiesInv
<1>3. ASSUME NEW r, PutNew(r), r.kind = "synced" => ~r.pending PROVE ~recs'[id].pending
  <2>1. recs'[id] = recs[id] \/ recs'[id] = r
    BY <1>1, <1>3 DEF PutNew, StoreTypeOK
  <2> QED BY <1>2, <1>3, <2>1
<1>4. ASSUME NEW j \in Ids, SetContent(j) PROVE ~recs'[id].pending
  <2>1. recs'[id] = recs[id] \/ recs'[id] = [recs[id] EXCEPT !.pending = FALSE]
    BY <1>1, <1>4 DEF SetContent, StoreTypeOK
  <2>2. recs[id] \in Record
    BY <1>1 DEF StoreTypeOK
  <2> QED BY <1>2, <2>1, <2>2 DEF Record
<1>5. ASSUME NEW j, RemoveSynced(j) PROVE recs'[id] = recs[id]
  <2>1. recs'[id] = recs[id] \/ recs'[id] = NoRecord
    BY <1>1, <1>5 DEF RemoveSynced, StoreTypeOK
  <2> QED BY <2>1, RecordTypes
<1>6. /\ Generated.kind # "synced"
      /\ \A t \in Syncers : ~Synced(syn[t].v, Least(syn[t].todo)).pending
  BY RecordTypes DEF Synced
<1> QED BY <1>2, <1>3, <1>4, <1>5, <1>6, StoreCases

(* How a pass evolves: from nothing, through its one listing of the store, *)
(* by dropping candidates.                                                 *)
LEMMA PassCases ==
  ASSUME IInv, [Next]_vars, NEW t \in Passes
  PROVE  \/ rcn'[t] = rcn[t]
         \/ rcn'[t].pc \notin {"retract", "unblob"}
         \/ rcn[t].pc \in {"retract", "unblob"} /\ rcn'[t].gone \subseteq rcn[t].gone
         \/ /\ rcn[t].pc = "store" /\ rcn'[t].gone = Gone(rcn[t])
            /\ UNCHANGED <<recs, left>>
<1>1. rcn \in [Passes -> Pass] /\ rcn[t] \in Pass
  BY DEF IInv, TypeOK
<1>2. CASE rcn' = rcn
  BY <1>2
<1>3. CASE Restart
  BY <1>3, IdleOK DEF Restart
<1>4. ASSUME NEW s \in Passes \ {t}, ReleaseBegin(s) \/ PassStep(s) \/ PassFails(s)
      PROVE  rcn'[t] = rcn[t]
  BY <1>1, <1>4 DEF ReleaseBegin, PassStep, PassFails, ReleaseClear, CheckLatch, LoadHorizon,
                    ListUpstream, ListStore, Hold, Retract, RetractBlob, SetPass
<1>5. ASSUME NEW q, SetPass(t, q) PROVE rcn'[t] = q
  BY <1>1, <1>5 DEF SetPass
<1>6. CASE ReleaseBegin(t) \/ ReleaseClear(t) \/ CheckLatch(t) \/ Hold(t) \/ PassFails(t)
  <2>1. PICK pc \in {"idle", "clear", "check", "cursor"} : SetPass(t, [NoPass EXCEPT !.pc = pc])
    BY <1>6, NoPassBlank DEF ReleaseBegin, ReleaseClear, CheckLatch, Hold, PassFails
  <2> QED BY <1>5, <2>1, Blank
<1>7. CASE LoadHorizon(t) \/ ListUpstream(t)
  <2>1. [rcn[t] EXCEPT !.pc = "list", !.cursor = cursor].pc = "list"
    BY <1>1 DEF Pass
  <2>2. [rcn[t] EXCEPT !.pc = "store", !.present = mbox.present].pc = "store"
    BY <1>1 DEF Pass
  <2> QED BY <1>5, <1>7, <2>1, <2>2, IdleOK DEF LoadHorizon, ListUpstream
<1>8. CASE ListStore(t)
  <2> DEFINE p == [rcn[t] EXCEPT !.pc = "retract", !.present = {}, !.gone = Gone(rcn[t])]
  <2>1. p.gone = Gone(rcn[t])
    BY <1>1 DEF Pass
  <2>2. [NoPass EXCEPT !.pc = "hold"].pc = "hold"
    BY Blank
  <2>3. rcn[t].pc = "store" /\ UNCHANGED <<recs, left>>
    BY <1>8 DEF ListStore, storeVars, upVars
  <2>4. \/ SetPass(t, NoPass) \/ SetPass(t, [NoPass EXCEPT !.pc = "hold"])
        \/ SetPass(t, p)
    BY <1>8 DEF ListStore
  <2> HIDE DEF p
  <2> QED BY <1>5, <2>1, <2>2, <2>3, <2>4, IdleOK
<1>9. CASE Retract(t) \/ RetractBlob(t)
  <2> DEFINE q == [rcn[t] EXCEPT !.pc = "unblob", !.del = Least(rcn[t].gone)]
  <2>1. q.gone = rcn[t].gone
    BY <1>1 DEF Pass
  <2>2. Rest(rcn[t]).pc = "idle" \/ Rest(rcn[t]).gone \subseteq rcn[t].gone
    BY <1>1, IdleOK DEF Rest, Pass
  <2>3. rcn[t].pc \in {"retract", "unblob"} /\ (SetPass(t, q) \/ SetPass(t, Rest(rcn[t])))
    BY <1>9 DEF Retract, RetractBlob
  <2> HIDE DEF q
  <2> QED BY <1>5, <2>1, <2>2, <2>3
<1>10. \/ rcn' = rcn \/ Restart
       \/ \E s \in Passes : ReleaseBegin(s) \/ PassStep(s) \/ PassFails(s)
  BY DEF Next, vars, Upstream, Arrive, Depart, Reset, SyncStep, SyncSelect, SyncLoad,
         SyncLosesMailbox, SyncStore, SyncSave, SyncFails, FetchStep, FetchBegin, FetchBody,
         FetchFill, FetchDrop, FetchUnblob, FetchFails, Bounce, SetPull, SetFetch
<1> QED BY <1>2, <1>3, <1>4, <1>6, <1>7, <1>8, <1>9, <1>10 DEF PassStep

(* Departed is for good.                                                   *)
LEMMA DepartedStays ==
  ASSUME IInv, IInv', [Next]_vars, NEW k, k[1] \in Nat, Departed(k)
  PROVE  Departed(k)'
<1>1. mbox.validity \in Nat /\ mbox'.validity \in Nat
  BY InboundStoreAssumption DEF IInv, TypeOK, Validities
<1>2. left \subseteq left' /\ mbox.validity <= mbox'.validity
  BY <1>1, NextUpKeeps DEF UpKeeps
<1> QED BY <1>1, <1>2 DEF Departed, Stable

LEMMA KeyTypes ==
  ASSUME IInv, NEW id \in Ids, recs[id].kind = "synced"
  PROVE  /\ recs[id].validity \in Validities /\ recs[id].uid \in Uids
         /\ Key(recs[id])[1] = recs[id].validity /\ recs[id].validity \in Nat
<1>1. Key(recs[id]) \in Validities \X Uids
  BY DEF IInv, StoreInv, TypeOK, StoreTypeOK
<1> QED BY <1>1, InboundStoreAssumption DEF Key, Validities

(* What the store's listing selects has left or was superseded: an orphan  *)
(* cannot be of a space newer than the one the pass listed.                *)
LEMMA CandidatesDeparted ==
  ASSUME IInv, BodiesInv, Stable \/ FreshListing, NEW t \in Passes, rcn[t].pc = "store",
         NEW id \in Gone(rcn[t])
  PROVE  recs[id].kind = "synced" /\ Departed(Key(recs[id]))
<1>1. id \in Ids /\ recs[id].kind = "synced"
  BY DEF Gone, Orphan, Judged
<1>2. /\ recs[id].validity \in Validities /\ recs[id].uid \in Uids
      /\ Key(recs[id])[1] = recs[id].validity /\ recs[id].validity \in Nat
  BY <1>1, KeyTypes
<1>3. /\ rcn[t].cursor.validity \in Validities
      /\ Below(rcn[t].cursor.validity, rcn[t].cursor.uid)
      /\ \A u \in Uids : u <= rcn[t].cursor.uid /\ u \notin rcn[t].present
                         => <<rcn[t].cursor.validity, u>> \in left
  BY DEF IInv, PassOK
<1>4. CASE Orphan(recs[id], rcn[t].cursor.validity)
  <2>1. ~Eager /\ recs[id].validity # rcn[t].cursor.validity
    BY <1>1, <1>4 DEF BodiesInv, Orphan
  <2>2. MaxValidity # 1
    BY <1>2, <1>3, <2>1 DEF Validities
  <2>3. ~Stable /\ recs[id].validity <= rcn[t].cursor.validity
    BY <1>1, <2>1, <2>2 DEF Stable, FreshListing
  <2>4. rcn[t].cursor.validity \in Nat /\ mbox.validity \in Nat
    BY <1>3, InboundStoreAssumption DEF IInv, TypeOK, Validities
  <2>5. rcn[t].cursor.validity <= mbox.validity
    BY <1>3, <2>4 DEF Below
  <2>6. recs[id].validity < mbox.validity
    BY <1>2, <2>1, <2>3, <2>4, <2>5
  <2> QED BY <1>1, <1>2, <2>3, <2>6 DEF Departed
<1>5. CASE Judged(recs[id], rcn[t].cursor) /\ recs[id].uid \notin rcn[t].present
  BY <1>1, <1>2, <1>3, <1>5 DEF Judged, Key, Departed
<1> QED BY <1>4, <1>5 DEF Gone

LEMMA NextGone ==
  ASSUME IInv, IInv', LInv, Stable \/ FreshListing, [Next]_vars, NEW t \in Passes
  PROVE  GoneDeparted(t)'
<1>1. \A id \in Ids : RecordKeeps(id)
  BY NextRecordKeeps DEF LInv
<1>2. CASE rcn[t].pc \in {"retract", "unblob"} /\ rcn'[t].gone \subseteq rcn[t].gone
  <2> SUFFICES ASSUME NEW id \in rcn'[t].gone, recs'[id].kind = "synced"
               PROVE  Departed(Key(recs[id]))'
    BY DEF GoneDeparted
  <2>1. id \in Ids /\ ~(id > seq)
    BY <1>2 DEF IInv, PassOK, TypeOK, StoreTypeOK, Pass, Ids
  <2>2. recs[id].kind = "synced" /\ Key(recs'[id]) = Key(recs[id])
    BY <1>1, <2>1 DEF RecordKeeps
  <2>3. Departed(Key(recs[id])) /\ Key(recs[id])[1] \in Nat
    BY <1>2, <2>1, <2>2, KeyTypes DEF LInv, GoneDeparted
  <2>4. PICK k : k = Key(recs[id])
    OBVIOUS
  <2>5. Departed(k)'
    BY <2>3, <2>4, DepartedStays
  <2> QED BY <2>2, <2>4, <2>5 DEF Departed
<1>3. CASE rcn'[t] = rcn[t]
  BY <1>2, <1>3 DEF GoneDeparted
<1>4. CASE rcn[t].pc = "store" /\ rcn'[t].gone = Gone(rcn[t]) /\ UNCHANGED <<recs, left>>
  <2> SUFFICES ASSUME NEW id \in rcn'[t].gone, recs'[id].kind = "synced"
               PROVE  Departed(Key(recs[id]))'
    BY DEF GoneDeparted
  <2>1. id \in Ids /\ recs[id].kind = "synced" /\ Departed(Key(recs[id]))
    BY <1>4, CandidatesDeparted DEF LInv, Gone
  <2>2. Key(recs[id])[1] \in Nat
    BY <2>1, KeyTypes
  <2>3. PICK k : k = Key(recs[id])
    OBVIOUS
  <2>4. Departed(k)'
    BY <2>1, <2>2, <2>3, DepartedStays
  <2>5. Key(recs'[id]) = k
    BY <1>4, <2>3
  <2> QED BY <2>4, <2>5 DEF Departed
<1>5. CASE rcn'[t].pc \notin {"retract", "unblob"}
  BY <1>5 DEF GoneDeparted
<1> QED BY <1>2, <1>3, <1>4, <1>5, PassCases
-----------------------------------------------------------------------------
(* A stored message that has not left stays stored.                        *)
LEMMA StoredStays ==
  ASSUME IInv, \A id \in Ids : RecordKeeps(id), NEW v, NEW u, Stored(v, u), ~Departed(<<v, u>>)
  PROVE  \E id \in Ids : recs'[id].kind = "synced" /\ recs'[id].validity = v /\ recs'[id].uid = u
<1>1. PICK id \in Ids : recs[id].kind = "synced" /\ recs[id].validity = v /\ recs[id].uid = u
  BY DEF Stored
<1>2. ~(id > seq)
  BY <1>1, RecordTypes DEF IInv, StoreInv
<1>3. recs'[id].kind = "synced" /\ Key(recs'[id]) = Key(recs[id])
  BY <1>1, <1>2 DEF RecordKeeps, Key
<1> QED BY <1>1, <1>3 DEF Key

(* The messages a cursor up to some UID must find stored are no more after *)
(* the step than before it.                                                *)
LEMMA CoverStays ==
  ASSUME IInv, IInv', LInv, [Next]_vars, NEW v, NEW high \in Nat, NEW todo,
         Below(v, high), v = mbox'.validity,
         v = mbox.validity => \A u \in mbox.present : u <= high /\ Wanted(u) =>
                                 u \in todo \/ Stored(mbox.validity, u),
         NEW u \in mbox'.present, u <= high, Wanted(u)
  PROVE  u \in todo \/ \E id \in Ids : /\ recs'[id].kind = "synced"
                                       /\ recs'[id].validity = v /\ recs'[id].uid = u
<1>1. TypeOK /\ TypeOK' /\ u \in Nat
  BY DEF IInv, TypeOK, Uids
<1>2. mbox.validity \in Nat /\ mbox'.validity \in Nat /\ mbox.next \in Nat
  BY <1>1, InboundStoreAssumption DEF TypeOK, Validities
<1>3. v = mbox.validity /\ u \in mbox.present
  BY <1>1, <1>2, NextUpKeeps DEF UpKeeps, Below
<1>4. ~Departed(<<v, u>>)
  BY <1>2, <1>3 DEF IInv, SpaceInv, Departed
<1>5. u \in todo \/ Stored(v, u)
  BY <1>3
<1>6. \A id \in Ids : RecordKeeps(id)
  BY NextRecordKeeps DEF LInv
<1> QED BY <1>4, <1>5, <1>6, StoredStays

LEMMA PullCases ==
  ASSUME IInv, [Next]_vars, NEW t \in Syncers
  PROVE  \/ syn'[t] = syn[t]
         \/ syn'[t].pc # "store"
         \/ SyncLoad(t) \/ SyncStore(t)
<1>1. syn \in [Syncers -> Pull]
  BY DEF IInv, TypeOK
<1>2. CASE syn' = syn
  BY <1>2
<1>3. CASE Restart
  BY <1>3, IdleOK DEF Restart
<1>4. ASSUME NEW s \in Syncers \ {t}, SyncStep(s) \/ SyncFails(s) PROVE syn'[t] = syn[t]
  BY <1>1, <1>4 DEF SyncStep, SyncSelect, SyncLoad, SyncLosesMailbox, SyncStore, SyncSave,
                    SyncFails, SetPull
<1>5. CASE SyncSelect(t) \/ SyncLosesMailbox(t) \/ SyncSave(t) \/ SyncFails(t)
  <2>1. [NoPull EXCEPT !.pc = "load", !.v = mbox.validity, !.next = mbox.next].pc = "load"
    BY DEF NoPull
  <2> QED BY <1>1, <1>5, <2>1, IdleOK
          DEF SyncSelect, SyncLosesMailbox, SyncSave, SyncFails, SetPull
<1>6. \/ syn' = syn \/ Restart \/ \E s \in Syncers : SyncStep(s) \/ SyncFails(s)
  BY DEF Next, vars, Upstream, Arrive, Depart, Reset, ReleaseBegin, PassStep, PassFails,
         ReleaseClear, CheckLatch, LoadHorizon, ListUpstream, ListStore, Hold, Retract,
         RetractBlob, FetchStep, FetchBegin, FetchBody, FetchFill, FetchDrop, FetchUnblob,
         FetchFails, Bounce, SetPass, SetFetch
<1> QED BY <1>2, <1>3, <1>4, <1>5, <1>6 DEF SyncStep

(* What a pull will pass and does not take is below the cursor it loaded,  *)
(* and so stored.                                                          *)
LEMMA LoadCovers ==
  ASSUME IInv, LInv, NEW t \in Syncers, SyncLoad(t) PROVE PullCovers(t)'
<1> DEFINE last == LastUid(cursor, syn[t].v)
           todo == PullSet(syn[t].next, last)
           high == Highest(syn[t].next, last, todo)
           p == [syn[t] EXCEPT !.pc = "store", !.loaded = cursor, !.todo = todo,
                               !.highest = high]
<1>1. /\ TypeOK /\ SetPull(t, p) /\ UNCHANGED <<recs, mbox>> /\ syn[t].pc = "load"
      /\ mbox.validity = syn[t].v /\ syn[t] \in Pull
  BY DEF IInv, SyncLoad, storeVars, upVars, TypeOK
<1>2. /\ last \in 0..MaxUid /\ todo \subseteq Uids /\ high \in 0..MaxUid
      /\ RecentOnly /\ todo = {} => high = syn[t].next - 1
      /\ ~(RecentOnly /\ todo = {}) => high \in todo \cup {last, syn[t].next - 1}
  BY <1>1, PullBounds
<1>3. syn[t].next \in Nat
  BY <1>1, InboundStoreAssumption DEF Pull
<1>4. ASSUME NEW u \in mbox.present, u <= high, Wanted(u)
      PROVE  u \in todo \/ Stored(mbox.validity, u)
  <2>1. u \in Nat
    BY <1>1 DEF TypeOK, Uids
  <2>2. CASE u <= last
    <3>1. u # 0
      BY <1>1 DEF TypeOK, Uids
    <3>2. cursor.validity = mbox.validity /\ last = cursor.uid
      BY <1>1, <1>2, <2>1, <2>2, <3>1 DEF LastUid
    <3> QED BY <1>4, <2>2, <3>2 DEF LInv, NoLostMail
  <2>3. CASE u > last
    <3>1. CASE RecentOnly
      BY <1>4, <2>3, <3>1 DEF PullSet, Wanted
    <3>2. CASE ~RecentOnly
      <4>1. \A w \in todo : w < syn[t].next
        BY <3>2 DEF PullSet
      <4> HIDE DEF todo, high, last
      <4>2. high < syn[t].next \/ high = last
        BY <1>2, <1>3, <3>2, <4>1
      <4>3. u < syn[t].next
        BY <1>2, <1>3, <1>4, <2>1, <2>3, <4>2
      <4> QED BY <1>4, <2>3, <3>2, <4>3 DEF PullSet, todo
    <3> QED BY <3>1, <3>2
  <2> QED BY <1>2, <2>1, <2>2, <2>3
<1> HIDE DEF todo, high
<1>5. syn'[t] = p /\ p.todo = todo /\ p.highest = high /\ p.v = syn[t].v
  BY <1>1 DEF SetPull, TypeOK, Pull
<1> HIDE DEF p
<1>6. \A u : Stored(mbox.validity, u) => Stored(mbox.validity, u)'
  BY <1>1 DEF Stored
<1> QED BY <1>1, <1>4, <1>5, <1>6 DEF PullCovers

(* Storing one message of a pull.                                          *)
LEMMA StoreAdds ==
  ASSUME IInv, NEW t \in Syncers, SyncStore(t)
  PROVE  \E id \in Ids : /\ recs'[id].kind = "synced" /\ recs'[id].validity = syn[t].v
                         /\ recs'[id].uid = Least(syn[t].todo)
<1> DEFINE u == Least(syn[t].todo)
           v == syn[t].v
<1>1. /\ StoreTypeOK /\ StoreInv /\ AddSynced(v, u) /\ syn[t].todo # {} /\ v \in Validities
  BY DEF IInv, TypeOK, SyncStore, PullOK
<1>2. u \in Uids
  BY <1>1, TodoLeast
<1> HIDE DEF u, v
<1>3. CASE <<v, u>> \in index
  <2>1. PICK id \in Ids : recs[id].kind = "synced" /\ Key(recs[id]) = <<v, u>>
    BY <1>1, <1>3 DEF StoreInv
  <2>2. recs' = recs
    BY <1>1, <1>3 DEF AddSynced, storeVars
  <2> QED BY <2>1, <2>2 DEF Key, u, v
<1>4. CASE <<v, u>> \notin index
  <2>1. PutNew(Synced(v, u)) /\ seq \in Nat /\ seq + 1 \in Ids
    BY <1>1, <1>4, InboundStoreAssumption DEF AddSynced, PutNew, StoreTypeOK, Ids
  <2>2. recs'[seq + 1] = Synced(v, u)
    BY <1>1, <2>1 DEF PutNew, StoreTypeOK
  <2>3. Synced(v, u).kind = "synced" /\ Synced(v, u).validity = v /\ Synced(v, u).uid = u
    BY DEF Synced
  <2> QED BY <2>1, <2>2, <2>3 DEF u, v
<1> QED BY <1>3, <1>4

LEMMA NextPullCovers ==
  ASSUME IInv, IInv', LInv, [Next]_vars, NEW t \in Syncers PROVE PullCovers(t)'
<1>1. TypeOK /\ syn[t] \in Pull /\ syn[t].highest \in Nat /\ PullOK(t) /\ PullCovers(t)
  BY DEF IInv, LInv, TypeOK, Pull
<1>2. ASSUME syn[t].pc = "store", syn[t].v = mbox'.validity, NEW u \in mbox'.present,
             u <= syn[t].highest, Wanted(u)
      PROVE  u \in syn[t].todo \/ Stored(mbox.validity, u)'
  <2>1. Below(syn[t].v, syn[t].highest)
    BY <1>1, <1>2 DEF PullOK, Below
  <2>2. syn[t].v = mbox.validity =>
          \A w \in mbox.present : w <= syn[t].highest /\ Wanted(w) =>
              w \in syn[t].todo \/ Stored(mbox.validity, w)
    BY <1>1, <1>2 DEF PullCovers
  <2>3. u \in syn[t].todo \/ \E id \in Ids : /\ recs'[id].kind = "synced"
                                             /\ recs'[id].validity = syn[t].v
                                             /\ recs'[id].uid = u
    BY <1>1, <1>2, <2>1, <2>2, CoverStays
  <2> QED BY <1>2, <2>3 DEF Stored
<1>3. CASE syn'[t] = syn[t]
  BY <1>2, <1>3 DEF PullCovers
<1>4. CASE syn'[t].pc # "store"
  BY <1>4 DEF PullCovers
<1>5. CASE SyncLoad(t)
  BY <1>5, LoadCovers
<1>6. CASE SyncStore(t)
  <2>0. PICK l \in Uids : l = Least(syn[t].todo)
    BY <1>6, TodoLeast DEF SyncStore
  <2> DEFINE p == [syn[t] EXCEPT !.todo = @ \ {l}]
  <2>1. SetPull(t, p) /\ syn[t].pc = "store"
    BY <1>6, <2>0 DEF SyncStore
  <2>2. \E id \in Ids : /\ recs'[id].kind = "synced" /\ recs'[id].validity = syn[t].v
                        /\ recs'[id].uid = l
    BY <1>6, <2>0, StoreAdds
  <2>3. /\ p.v = syn[t].v /\ p.highest = syn[t].highest /\ p.todo = syn[t].todo \ {l}
        /\ syn'[t] = p
    BY <1>1, <2>1 DEF SetPull, TypeOK, Pull
  <2> HIDE DEF p
  <2>4. syn[t].v = mbox'.validity => Stored(mbox.validity, l)'
    BY <2>2 DEF Stored
  <2> QED BY <1>2, <2>1, <2>3, <2>4 DEF PullCovers
<1> QED BY <1>3, <1>4, <1>5, <1>6, PullCases

LEMMA CursorCases ==
  ASSUME [Next]_vars PROVE cursor' = cursor \/ \E t \in Syncers : SyncSave(t)
  BY DEF Next, vars, Upstream, Arrive, Depart, Reset, SyncStep, SyncSelect, SyncLoad,
         SyncLosesMailbox, SyncStore, SyncFails, ReleaseBegin, PassStep, PassFails,
         ReleaseClear, CheckLatch, LoadHorizon, ListUpstream, ListStore, Hold, Retract,
         RetractBlob, FetchStep, FetchBegin, FetchBody, FetchFill, FetchDrop, FetchUnblob,
         FetchFails, Bounce, Restart, stateVars

LEMMA NextNoLostMail ==
  ASSUME IInv, IInv', LInv, [Next]_vars PROVE NoLostMail'
<1>1. CASE cursor' = cursor
  <2>1. cursor.uid \in Nat /\ Below(cursor.validity, cursor.uid)
    BY DEF IInv, TypeOK, SpaceInv, Cursor
  <2>2. PICK todo : todo = {}
    OBVIOUS
  <2>3. cursor.validity = mbox.validity =>
          \A w \in mbox.present : w <= cursor.uid /\ Wanted(w) =>
              w \in todo \/ Stored(mbox.validity, w)
    BY DEF LInv, NoLostMail
  <2>4. ASSUME cursor.validity = mbox'.validity, NEW u \in mbox'.present, u <= cursor.uid,
               Wanted(u)
        PROVE  \E id \in Ids : /\ recs'[id].kind = "synced"
                              /\ recs'[id].validity = cursor.validity /\ recs'[id].uid = u
    <3>1. u \in todo \/ \E id \in Ids : /\ recs'[id].kind = "synced"
                                        /\ recs'[id].validity = cursor.validity
                                        /\ recs'[id].uid = u
      BY <2>1, <2>3, <2>4, CoverStays
    <3> QED BY <2>2, <3>1
  <2> QED BY <1>1, <2>4 DEF NoLostMail, Stored
<1>2. ASSUME NEW t \in Syncers, SyncSave(t), cursor' # cursor PROVE NoLostMail'
  <2>1. /\ cursor' = [validity |-> syn[t].v, uid |-> syn[t].highest]
        /\ syn[t].pc = "store" /\ syn[t].todo = {} /\ UNCHANGED <<recs, mbox>>
    BY <1>2 DEF SyncSave, storeVars, upVars
  <2>2. cursor'.validity = syn[t].v /\ cursor'.uid = syn[t].highest
    BY <2>1
  <2>3. PullCovers(t)
    BY DEF LInv
  <2> QED BY <2>1, <2>2, <2>3 DEF PullCovers, NoLostMail, Stored
<1> QED BY <1>1, <1>2, CursorCases

LEMMA LInvInit == Init => LInv
<1> SUFFICES ASSUME Init PROVE LInv
  OBVIOUS
<1>1. \A id \in Ids : recs[id].kind = "absent"
  BY RecordTypes DEF Init, StoreInit
<1>2. /\ \A t \in Passes : rcn[t].pc = "idle"
      /\ \A t \in Syncers : syn[t].pc = "idle"
  BY IdleOK DEF Init
<1>3. PICK n \in 0..MaxUid : mbox = Mailbox(1, n)
  BY DEF Init
<1>4. cursor.validity # mbox.validity
  BY <1>3, MailboxFields, IdleOK DEF Init
<1> QED BY <1>1, <1>2, <1>4 DEF LInv, BodiesInv, GoneDeparted, PullCovers, NoLostMail

LEMMA LInvNext ==
  (Stable \/ FreshListing) /\ IInv /\ IInv' /\ LInv /\ [Next]_vars => LInv'
<1> SUFFICES ASSUME Stable \/ FreshListing, IInv, IInv', LInv, [Next]_vars PROVE LInv'
  OBVIOUS
<1>1. BodiesInv'
  BY NextBodies DEF LInv
<1>2. \A t \in Passes : GoneDeparted(t)'
  BY NextGone
<1>3. \A t \in Syncers : PullCovers(t)'
  BY NextPullCovers
<1> QED BY <1>1, <1>2, <1>3, NextNoLostMail DEF LInv

LEMMA LInvAlways == ASSUME Stable PROVE Spec => [](IInv /\ LInv)
<1>1. Init => IInv /\ LInv
  BY IInvInit, LInvInit
<1>2. (IInv /\ LInv) /\ [Next]_vars => (IInv /\ LInv)'
  BY IInvNext, LInvNext
<1> QED BY <1>1, <1>2, PTL DEF Spec

(* No message still in the mailbox that the cursor has passed is missing   *)
(* from the store, for any number of overlapping pulls, passes, fetches    *)
(* and failures, while the store is eager or the UID space is not reset.   *)
(* A lazy store under a reset does lose mail: a pass that listed the old   *)
(* space takes the pending records of the new one for orphans.             *)
THEOREM NothingLost == ASSUME Stable PROVE Spec => []NoLostMail
<1>1. IInv /\ LInv => NoLostMail
  BY DEF LInv
<1> QED BY <1>1, LInvAlways, PTL

(* A lazy store loses no mail under resets either, as long as no pull      *)
(* stores mail of the new UID space inside a pass's window between its two *)
(* listings: that window is the only way the reconciliation loses mail.    *)
THEOREM NothingLostFresh == Spec /\ []FreshListing => []NoLostMail
<1>1. Init => IInv /\ LInv
  BY IInvInit, LInvInit
<1>2. FreshListing /\ (IInv /\ LInv) /\ [Next]_vars => (IInv /\ LInv)'
  BY IInvNext, LInvNext
<1>3. IInv /\ LInv => NoLostMail
  BY DEF LInv
<1> QED BY <1>1, <1>2, <1>3, PTL DEF Spec

(* While the store is stable every retraction is of a synced message that  *)
(* left the source: a bounce and a message still upstream are never        *)
(* removed.                                                                *)
THEOREM OnlyDepartedRetracted == ASSUME Stable PROVE Spec => RetractsOnlyDeparted
<1> DEFINE Step == \A id \in Live : recs'[id].kind = "absent" =>
                     /\ recs[id].kind = "synced"
                     /\ \/ Key(recs[id]) \in left
                        \/ recs[id].pending /\ recs[id].validity # mbox.validity
<1>1. (IInv /\ LInv) /\ [Next]_vars => [Step]_vars
  <2> SUFFICES ASSUME IInv, LInv, [Next]_vars, NEW id \in Live, recs'[id].kind = "absent"
               PROVE  recs[id].kind = "synced" /\ Key(recs[id]) \in left
    OBVIOUS
  <2>1. id \in Ids /\ recs[id].kind # "absent" /\ ~(id > seq)
    BY RecordTypes DEF Live, IInv, StoreInv
  <2>2. RecordKeeps(id)
    BY <2>1, NextRecordKeeps DEF LInv
  <2> QED BY <2>1, <2>2 DEF RecordKeeps, Departed
<1> QED BY <1>1, LInvAlways, PTL DEF Spec, RetractsOnlyDeparted

(* What survives of it for a lazy store under resets, outside that window: *)
(* a retraction may take a body that a fetch filled after its record was   *)
(* selected, but never a bounce and never a message still upstream.        *)
THEOREM NothingLiveRetracted ==
  Spec /\ []FreshListing =>
    [][\A id \in Live : recs'[id].kind = "absent" =>
         /\ recs[id].kind = "synced"
         /\ recs[id].validity = mbox.validity => recs[id].uid \notin mbox.present]_vars
<1> DEFINE Step == \A id \in Live : recs'[id].kind = "absent" =>
                     /\ recs[id].kind = "synced"
                     /\ recs[id].validity = mbox.validity => recs[id].uid \notin mbox.present
<1>1. Init => IInv /\ LInv
  BY IInvInit, LInvInit
<1>2. FreshListing /\ (IInv /\ LInv) /\ [Next]_vars => (IInv /\ LInv)'
  BY IInvNext, LInvNext
<1>3. (IInv /\ LInv) /\ [Next]_vars => [Step]_vars
  <2> SUFFICES ASSUME IInv, LInv, [Next]_vars, NEW id \in Live, recs'[id].kind = "absent"
               PROVE  /\ recs[id].kind = "synced"
                      /\ recs[id].validity = mbox.validity
                           => recs[id].uid \notin mbox.present
    OBVIOUS
  <2>1. id \in Ids /\ recs[id].kind # "absent" /\ ~(id > seq)
    BY RecordTypes DEF Live, IInv, StoreInv
  <2>2. RecordKeeps(id)
    BY <2>1, NextRecordKeeps DEF LInv
  <2>3. recs[id].kind = "synced" /\ Departed(Key(recs[id]))
    BY <2>1, <2>2 DEF RecordKeeps
  <2>4. Key(recs[id])[1] = recs[id].validity /\ mbox.validity \in Nat
    BY <2>1, <2>3, KeyTypes, InboundStoreAssumption DEF IInv, TypeOK, Validities
  <2>5. recs[id].validity = mbox.validity => Key(recs[id]) \in left
    BY <2>3, <2>4 DEF Departed
  <2> QED BY <2>3, <2>5 DEF Key, IInv, SpaceInv
<1> QED BY <1>1, <1>2, <1>3, PTL DEF Spec
=============================================================================
