---------------------------- MODULE LabelsProofs ----------------------------
(***************************************************************************)
(* A keyword write never reaches another message, for any number of        *)
(* sessions, keywords and mailbox resets; and a keyword whose mark is gone *)
(* is upstream, unless the STORE that set it exposed it.                   *)
(***************************************************************************)
EXTENDS Labels, TLAPS

(* The states in which a write acts on a validity it believes in.          *)
Bound == {"stamp", "select", "add", "remove"}

(* That validity is one under which the record's UID is this message's.    *)
BoundIsOwn ==
    \A p \in Writers : w[p].pc \in Bound => w[p].known # 0 /\ holds[w[p].known] = "this"

OwnInv == TypeOK /\ ValidityIsOwn /\ OwnMailOnly /\ BoundIsOwn

(* The window after a stalled pull is at least the debounce window and,    *)
(* where there is one, at most ten of it.                                  *)
LEMMA BackoffBounds ==
  ASSUME NEW min \in Nat, NEW stall \in Nat
  PROVE  /\ BackoffWindow(min, stall) \in Nat
         /\ min <= BackoffWindow(min, stall)
         /\ min > 0 => BackoffWindow(min, stall) <= 10 * min
  BY DEF BackoffWindow

LEMMA WindowTyped ==
  ASSUME NEW stall \in Stalls
  PROVE  BackoffWindow(MinInterval, stall) \in Windows /\ MinInterval \in Windows /\ 0 \in Windows
<1>1. MinInterval \in Nat /\ stall \in Nat
  BY LabelsAssumption
<1>2. /\ BackoffWindow(MinInterval, stall) \in Nat
      /\ MinInterval > 0 => BackoffWindow(MinInterval, stall) <= 10 * MinInterval
  BY <1>1, BackoffBounds
<1> QED
  BY <1>1, <1>2 DEF Windows

LEMMA Zero == MinInterval \in Windows /\ 0 \in Windows
  BY LabelsAssumption DEF Windows

LEMMA InitOwn == Init => OwnInv
<1> SUFFICES ASSUME Init PROVE OwnInv
  OBVIOUS
<1>1. TypeOK
  BY Zero, LabelsAssumption DEF Init, TypeOK, Record, Writer, Steps, Idle, Validities
<1>2. ValidityIsOwn
  <2>1. rec.validity \in 0..MaxValidity /\ rec.validity <= 1
    BY DEF Init, Record
  <2> QED
    BY <2>1, LabelsAssumption DEF Init, ValidityIsOwn
<1>3. OwnMailOnly /\ BoundIsOwn
  BY DEF Init, OwnMailOnly, BoundIsOwn, Idle, Bound
<1> QED
  BY <1>1, <1>2, <1>3 DEF OwnInv

(* A step that leaves mailbox and record alone, and moves writer p to a    *)
(* state that satisfies the invariant.                                     *)
LEMMA WriterMoves ==
  ASSUME OwnInv, NEW p \in Writers, NEW r \in Writer,
         r.pc \in Bound => r.known # 0 /\ holds[r.known] = "this",
         w' = [w EXCEPT ![p] = r],
         holds' = holds
  PROVE  BoundIsOwn' /\ w' \in [Writers -> Writer]
<1>1. w \in [Writers -> Writer]
  BY DEF OwnInv, TypeOK
<1>2. w'[p] = r /\ \A q \in Writers : q # p => w'[q] = w[q]
  BY <1>1
<1>3. BoundIsOwn'
  BY <1>2 DEF OwnInv, BoundIsOwn
<1> QED
  BY <1>1, <1>3

LEMMA RecordTyped == rec \in Record => rec.validity \in 0..MaxValidity /\ rec.kw \subseteq Keywords
  BY DEF Record

LEMMA RestTyped ==
  ASSUME NEW p \in Writers, OwnInv, Rest(p), holds' = holds
  PROVE  BoundIsOwn' /\ w' \in [Writers -> Writer] /\ exposed' \subseteq Keywords
<1> DEFINE r == IF p \in Syncs THEN [Idle EXCEPT !.pc = "end"] ELSE Idle
<1>1. r \in Writer /\ r.pc \notin Bound
  BY LabelsAssumption DEF Writer, Steps, Idle, Bound
<1>2. w' = [w EXCEPT ![p] = r]
  BY DEF Rest
<1>3. exposed' \subseteq Keywords
  BY DEF Rest, OwnInv, TypeOK
<1> QED
  BY <1>1, <1>2, <1>3, WriterMoves

(* A write goes on to its next step with a validity of this message.       *)
LEMMA GotoOwn ==
  ASSUME OwnInv, NEW p \in Writers, NEW pc \in Steps, NEW v \in 0..MaxValidity,
         Goto(p, pc, v), pc \in Bound => v # 0 /\ holds[v] = "this", holds' = holds
  PROVE  BoundIsOwn' /\ w' \in [Writers -> Writer]
<1> DEFINE r == [w[p] EXCEPT !.pc = pc, !.known = v]
<1>1. w[p] \in Writer
  BY DEF OwnInv, TypeOK
<1>2. r \in Writer /\ r.pc = pc /\ r.known = v
  BY <1>1 DEF Writer
<1>3. w' = [w EXCEPT ![p] = r]
  BY DEF Goto
<1> HIDE DEF r
<1> QED
  BY <1>2, <1>3, WriterMoves

LEMMA KnownTyped ==
  ASSUME OwnInv, NEW p \in Writers
  PROVE  w[p].known \in 0..MaxValidity /\ w[p].add \subseteq Keywords /\ w[p].rem \subseteq Keywords
<1>1. w[p] \in Writer
  BY DEF OwnInv, TypeOK
<1> QED
  BY <1>1 DEF Writer

LEMMA GetOwn ==
  ASSUME OwnInv, NEW p \in Writers, Get(p) PROVE OwnInv'
<1> DEFINE pc == IF w[p].add = {} /\ w[p].rem = {} THEN "clear"
                 ELSE IF rec.validity = 0 THEN "identify" ELSE "select"
<1>1. rec.validity \in 0..MaxValidity
  BY RecordTyped DEF OwnInv, TypeOK
<1>2. Goto(p, pc, rec.validity) /\ pc \in Steps /\ holds' = holds
  BY DEF Get, Steps
<1>3. pc \in Bound => rec.validity # 0 /\ holds[rec.validity] = "this"
  BY DEF Bound, OwnInv, ValidityIsOwn
<1>4. BoundIsOwn' /\ w' \in [Writers -> Writer]
  <2> HIDE DEF pc
  <2> QED
    BY <1>1, <1>2, <1>3, GotoOwn
<1> QED
  BY <1>4 DEF Get, OwnInv, TypeOK, ValidityIsOwn, OwnMailOnly

LEMMA IdentifyOwn ==
  ASSUME OwnInv, NEW p \in Writers, Identify(p) PROVE OwnInv'
<1>1. validity \in 0..MaxValidity /\ validity # 0
  BY LabelsAssumption DEF OwnInv, TypeOK, Validities
<1>2. CASE Identified
  <2>1. Goto(p, "stamp", validity) /\ "stamp" \in Steps /\ holds' = holds
    BY <1>2 DEF Identify, Steps
  <2>2. holds[validity] = "this"
    BY <1>2 DEF Identified
  <2>3. BoundIsOwn' /\ w' \in [Writers -> Writer]
    BY <1>1, <2>1, <2>2, GotoOwn
  <2> QED
    BY <1>2, <2>3 DEF Identify, OwnInv, TypeOK, ValidityIsOwn, OwnMailOnly
<1>3. CASE ~Identified
  BY <1>3, RestTyped DEF Identify, OwnInv, TypeOK, ValidityIsOwn, OwnMailOnly
<1> QED
  BY <1>2, <1>3

LEMMA StampOwn ==
  ASSUME OwnInv, NEW p \in Writers, Stamp(p) PROVE OwnInv'
<1>1. w[p].known \in 0..MaxValidity /\ w[p].known # 0 /\ holds[w[p].known] = "this"
  BY KnownTyped DEF Stamp, OwnInv, BoundIsOwn, Bound
<1>2. /\ rec' \in Record
      /\ rec'.validity = IF rec.validity = 0 THEN w[p].known ELSE rec.validity
  BY <1>1 DEF Stamp, StampUIDValidity, OwnInv, TypeOK, Record
<1>3. rec'.validity \in 0..MaxValidity /\ rec'.validity # 0 /\ holds[rec'.validity] = "this"
  BY <1>1, <1>2, RecordTyped DEF OwnInv, TypeOK, ValidityIsOwn
<1>4. Goto(p, "select", rec'.validity) /\ "select" \in Steps /\ holds' = holds
  BY DEF Stamp, Steps
<1>5. BoundIsOwn' /\ w' \in [Writers -> Writer]
  <2> DEFINE v == rec'.validity
  <2> HIDE DEF v
  <2>1. Goto(p, "select", v) /\ v \in 0..MaxValidity /\ v # 0 /\ holds[v] = "this"
    BY <1>3, <1>4 DEF v
  <2> QED
    BY <1>4, <2>1, GotoOwn
<1> QED
  BY <1>2, <1>3, <1>5 DEF Stamp, OwnInv, TypeOK, ValidityIsOwn, OwnMailOnly

LEMMA SelectMailboxOwn ==
  ASSUME OwnInv, NEW p \in Writers, SelectMailbox(p) PROVE OwnInv'
<1>1. validity \in 0..MaxValidity
  BY DEF OwnInv, TypeOK, Validities
<1>2. CASE Confirmed(p)
  <2> DEFINE pc == IF w[p].add = {} THEN "remove" ELSE "add"
  <2>1. Goto(p, pc, validity) /\ pc \in Steps /\ holds' = holds
    BY <1>2 DEF SelectMailbox, Steps
  <2>2. validity # 0 /\ holds[validity] = "this"
    BY <1>2 DEF Confirmed, SelectMailbox, OwnInv, BoundIsOwn, Bound
  <2>3. BoundIsOwn' /\ w' \in [Writers -> Writer]
    <3> HIDE DEF pc
    <3> QED
      BY <1>1, <2>1, <2>2, GotoOwn
  <2> QED
    BY <1>2, <2>3 DEF SelectMailbox, OwnInv, TypeOK, ValidityIsOwn, OwnMailOnly
<1>3. CASE ~Confirmed(p)
  BY <1>3, RestTyped DEF SelectMailbox, OwnInv, TypeOK, ValidityIsOwn, OwnMailOnly
<1> QED
  BY <1>2, <1>3

(* A command on the selected mailbox labels this message.                  *)
LEMMA StoredOwn ==
  ASSUME OwnInv, NEW p \in Writers, w[p].pc \in {"add", "remove"}, w[p].known = validity,
         NEW add \in SUBSET Keywords, NEW rem \in SUBSET Keywords, Stored(add, rem)
  PROVE  OwnMailOnly' /\ labels' \in [{"this", "other"} -> SUBSET Keywords]
<1>1. holds[validity] = "this"
  BY DEF OwnInv, BoundIsOwn, Bound
<1>2. labels' = [labels EXCEPT !["this"] = (labels["this"] \cup add) \ rem]
  BY <1>1 DEF Stored
<1>3. labels \in [{"this", "other"} -> SUBSET Keywords]
  BY DEF OwnInv, TypeOK
<1> QED
  BY <1>2, <1>3 DEF OwnInv, OwnMailOnly

LEMMA StoreAddOwn ==
  ASSUME OwnInv, NEW p \in Writers, StoreAdd(p) PROVE OwnInv'
<1>1. CASE w[p].known = validity
  <2> DEFINE pc == IF w[p].rem = {} THEN "clear" ELSE "remove"
  <2>1. OwnMailOnly' /\ labels' \in [{"this", "other"} -> SUBSET Keywords]
    <3>1. Stored(w[p].add, {}) /\ w[p].add \in SUBSET Keywords /\ w[p].pc = "add"
      BY <1>1, KnownTyped DEF StoreAdd
    <3> QED
      BY <1>1, <3>1, StoredOwn
  <2>2. validity \in 0..MaxValidity /\ validity # 0 /\ holds[validity] = "this"
    BY <1>1, KnownTyped DEF StoreAdd, OwnInv, BoundIsOwn, Bound
  <2>3. Goto(p, pc, validity) /\ pc \in Steps /\ holds' = holds
    BY <1>1 DEF StoreAdd, Steps
  <2>4. BoundIsOwn' /\ w' \in [Writers -> Writer]
    <3> HIDE DEF pc
    <3> QED
      BY <2>2, <2>3, GotoOwn
  <2> QED
    BY <1>1, <2>1, <2>4 DEF StoreAdd, OwnInv, TypeOK, ValidityIsOwn
<1>2. CASE w[p].known # validity
  BY <1>2, RestTyped DEF StoreAdd, OwnInv, TypeOK, ValidityIsOwn, OwnMailOnly
<1> QED
  BY <1>1, <1>2

LEMMA StoreRemoveOwn ==
  ASSUME OwnInv, NEW p \in Writers, StoreRemove(p) PROVE OwnInv'
<1>1. CASE w[p].known = validity
  <2>1. OwnMailOnly' /\ labels' \in [{"this", "other"} -> SUBSET Keywords]
    <3>1. Stored({}, w[p].rem) /\ w[p].rem \in SUBSET Keywords /\ w[p].pc = "remove"
      BY <1>1, KnownTyped DEF StoreRemove
    <3> QED
      BY <1>1, <3>1, StoredOwn
  <2>2. validity \in 0..MaxValidity
    BY <1>1, KnownTyped
  <2>3. Goto(p, "clear", validity) /\ "clear" \in Steps /\ "clear" \notin Bound
        /\ holds' = holds
    BY <1>1 DEF StoreRemove, Steps, Bound
  <2>4. BoundIsOwn' /\ w' \in [Writers -> Writer]
    BY <2>2, <2>3, GotoOwn
  <2> QED
    BY <1>1, <2>1, <2>4 DEF StoreRemove, OwnInv, TypeOK, ValidityIsOwn
<1>2. CASE w[p].known # validity
  BY <1>2, RestTyped DEF StoreRemove, OwnInv, TypeOK, ValidityIsOwn, OwnMailOnly
<1> QED
  BY <1>1, <1>2

LEMMA ClearOwn ==
  ASSUME OwnInv, NEW p \in Writers, Clear(p) PROVE OwnInv'
<1>1. rec' \in Record /\ rec'.validity = rec.validity
  BY DEF Clear, ClearKeywordsDirty, OwnInv, TypeOK, Record
<1>2. BoundIsOwn' /\ w' \in [Writers -> Writer] /\ exposed' \subseteq Keywords
  BY RestTyped DEF Clear
<1> QED
  BY <1>1, <1>2 DEF Clear, OwnInv, TypeOK, ValidityIsOwn, OwnMailOnly

LEMMA WriteFailsOwn ==
  ASSUME OwnInv, NEW p \in Writers, WriteFails(p) PROVE OwnInv'
<1>1. faults' \in 0..MaxFaults
  BY LabelsAssumption DEF WriteFails, OwnInv, TypeOK
<1> QED
  BY <1>1, RestTyped DEF WriteFails, OwnInv, TypeOK, ValidityIsOwn, OwnMailOnly

LEMMA WriteOwn ==
  ASSUME OwnInv, NEW p \in Writers, Write(p) PROVE OwnInv'
  BY GetOwn, IdentifyOwn, StampOwn, SelectMailboxOwn, StoreAddOwn, StoreRemoveOwn, ClearOwn,
     WriteFailsOwn DEF Write

-----------------------------------------------------------------------------
(* The starts and ends of syncs move a writer between unbound states.      *)
LEMMA UnboundMoves ==
  ASSUME OwnInv, NEW p \in Writers, NEW r \in Writer, r.pc \notin Bound,
         w' = [w EXCEPT ![p] = r], UNCHANGED <<rec, holds, validity, labels, exposed>>
  PROVE  /\ BoundIsOwn' /\ w' \in [Writers -> Writer]
         /\ ValidityIsOwn' /\ OwnMailOnly'
         /\ rec' \in Record /\ exposed' \subseteq Keywords
         /\ labels' \in [{"this", "other"} -> SUBSET Keywords]
  BY WriterMoves DEF OwnInv, TypeOK, ValidityIsOwn, OwnMailOnly

LEMMA IdleTyped ==
  /\ Idle \in Writer /\ Idle.pc \notin Bound
  /\ \A pc \in {"pull", "list", "end"} : [Idle EXCEPT !.pc = pc] \in Writer
                                         /\ [Idle EXCEPT !.pc = pc].pc \notin Bound
  /\ \A kw \in SUBSET Keywords : [Idle EXCEPT !.pc = "get", !.add = kw] \in Writer
                                 /\ [Idle EXCEPT !.pc = "get", !.add = kw].pc \notin Bound
<1>1. 0 \in 0..MaxValidity
  BY LabelsAssumption
<1>2. Idle \in Writer /\ Idle.pc \notin Bound
  BY <1>1 DEF Idle, Writer, Steps, Bound
<1>3. ASSUME NEW pc \in {"pull", "list", "end"}
      PROVE  [Idle EXCEPT !.pc = pc] \in Writer /\ [Idle EXCEPT !.pc = pc].pc \notin Bound
  BY <1>1 DEF Idle, Writer, Steps, Bound
<1>4. ASSUME NEW kw \in SUBSET Keywords
      PROVE  [Idle EXCEPT !.pc = "get", !.add = kw] \in Writer
             /\ [Idle EXCEPT !.pc = "get", !.add = kw].pc \notin Bound
  BY <1>1 DEF Idle, Writer, Steps, Bound
<1> QED
  BY <1>2, <1>3, <1>4

LEMMA CompletedTyped ==
  ASSUME NEW win \in Windows, Completed(win)
  PROVE  od' \in [inflight : BOOLEAN, window : Windows]
  BY DEF Completed

LEMMA SyncOwn ==
  ASSUME OwnInv, NEW p \in Syncs, Sync(p) PROVE OwnInv'
<1> p \in Writers
  BY DEF Writers
<1>1. CASE Pull(p)
  <2>1. w' = [w EXCEPT ![p] = [Idle EXCEPT !.pc = "list"]]
        /\ UNCHANGED <<rec, holds, validity, labels, exposed>>
    BY <1>1 DEF Pull
  <2>2. cursor' \in 0..MaxValidity
    BY <1>1 DEF Pull, OwnInv, TypeOK, Validities
  <2> QED
    BY <1>1, <2>1, <2>2, IdleTyped, UnboundMoves DEF Pull, OwnInv, TypeOK
<1>2. CASE PullFails(p)
  <2>1. w' = [w EXCEPT ![p] = Idle] /\ UNCHANGED <<rec, holds, validity, labels, exposed>>
    BY <1>2 DEF PullFails
  <2>2. od' \in [inflight : BOOLEAN, window : Windows]
    <3>1. od' = od \/ \E win \in Windows : Completed(win)
      BY <1>2, WindowTyped, Zero, Zenon DEF PullFails
    <3> QED
      BY <3>1, CompletedTyped DEF OwnInv, TypeOK
  <2>3. faults' \in 0..MaxFaults
    BY <1>2, LabelsAssumption DEF PullFails, OwnInv, TypeOK
  <2> QED
    BY <1>2, <2>1, <2>2, <2>3, IdleTyped, UnboundMoves DEF PullFails, OwnInv, TypeOK
<1>3. CASE ListDirty(p)
  <2> DEFINE r == IF rec.dirty THEN [Idle EXCEPT !.pc = "get", !.add = rec.kw]
                  ELSE [Idle EXCEPT !.pc = "end"]
  <2>1. w' = [w EXCEPT ![p] = r] /\ UNCHANGED <<rec, holds, validity, labels, exposed>>
    BY <1>3 DEF ListDirty
  <2>2. r \in Writer /\ r.pc \notin Bound
    BY IdleTyped, RecordTyped DEF OwnInv, TypeOK
  <2> QED
    BY <1>3, <2>1, <2>2, UnboundMoves DEF ListDirty, OwnInv, TypeOK
<1>4. CASE EndSync(p)
  <2>1. w' = [w EXCEPT ![p] = Idle] /\ UNCHANGED <<rec, holds, validity, labels, exposed>>
    BY <1>4 DEF EndSync
  <2>2. od' \in [inflight : BOOLEAN, window : Windows]
    <3>1. od' = od \/ \E win \in Windows : Completed(win)
      BY <1>4, Zero, Zenon DEF EndSync
    <3> QED
      BY <3>1, CompletedTyped DEF OwnInv, TypeOK
  <2> QED
    BY <1>4, <2>1, <2>2, IdleTyped, UnboundMoves DEF EndSync, OwnInv, TypeOK
<1> QED
  BY <1>1, <1>2, <1>3, <1>4, WriteOwn DEF Sync

LEMMA StartOwn ==
  ASSUME OwnInv, Poll \/ Trigger \/ Elapse \/ Reset PROVE OwnInv'
<1>1. Loop \in Writers /\ OnDemand \in Writers
  BY DEF Writers, Syncs
<1>2. CASE Poll
  <2>1. w' = [w EXCEPT ![Loop] = [Idle EXCEPT !.pc = "pull"]]
        /\ UNCHANGED <<rec, holds, validity, labels, exposed>>
    BY <1>2 DEF Poll, Begin
  <2> QED
    BY <1>1, <1>2, <2>1, IdleTyped, UnboundMoves DEF Poll, OwnInv, TypeOK
<1>3. CASE Trigger
  <2>1. w' = [w EXCEPT ![OnDemand] = [Idle EXCEPT !.pc = "pull"]]
        /\ UNCHANGED <<rec, holds, validity, labels, exposed>>
    BY <1>3 DEF Trigger, Begin
  <2>2. od' \in [inflight : BOOLEAN, window : Windows]
    BY <1>3 DEF Trigger, OwnInv, TypeOK
  <2> QED
    BY <1>1, <1>3, <2>1, <2>2, IdleTyped, UnboundMoves DEF Trigger, OwnInv, TypeOK
<1>4. CASE Elapse
  <2>1. od' \in [inflight : BOOLEAN, window : Windows]
    BY <1>4, Zero DEF Elapse, OwnInv, TypeOK
  <2> QED
    BY <1>4, <2>1 DEF Elapse, OwnInv, TypeOK, ValidityIsOwn, OwnMailOnly, BoundIsOwn
<1>5. CASE Reset
  <2>1. validity' \in Validities
    BY <1>5, LabelsAssumption DEF Reset, OwnInv, TypeOK, Validities
  <2> QED
    BY <1>5, <2>1 DEF Reset, OwnInv, TypeOK, ValidityIsOwn, OwnMailOnly, BoundIsOwn
<1> QED
  BY <1>2, <1>3, <1>4, <1>5

LEMMA AgentOwn ==
  ASSUME OwnInv, NEW s \in Sessions, Agent(s) PROVE OwnInv'
<1> s \in Writers
  BY DEF Writers
<1>1. rec.kw \subseteq Keywords /\ view \in [Sessions -> SUBSET Keywords] /\ rec \in Record
  BY RecordTyped DEF OwnInv, TypeOK
<1>2. CASE Select(s)
  <2>1. view' \in [Sessions -> SUBSET Keywords]
    BY <1>1, <1>2 DEF Select
  <2> QED
    BY <1>2, <2>1 DEF Select, OwnInv, TypeOK, ValidityIsOwn, OwnMailOnly, BoundIsOwn
<1>3. ASSUME NEW op \in {"add", "del", "set"}, NEW kw \in SUBSET Keywords, Store(s, op, kw)
      PROVE  OwnInv'
  <2> DEFINE next == ApplyKeywordOp(view[s], op, kw)
             r == [pc |-> "get", add |-> next \ view[s], rem |-> view[s] \ next, known |-> 0]
  <2>1. next \in SUBSET Keywords /\ view[s] \in SUBSET Keywords
    BY <1>1 DEF ApplyKeywordOp
  <2> HIDE DEF next
  <2>2. rec' \in Record /\ rec'.validity = rec.validity
    BY <1>1, <1>3, <2>1 DEF Store, SetKeywords, Record, next
  <2>3. view' \in [Sessions -> SUBSET Keywords]
    BY <1>1, <1>3, <2>1 DEF Store, next
  <2>4. r \in Writer /\ r.pc \notin Bound
    BY <2>1, LabelsAssumption DEF Writer, Steps, Bound
  <2>5. BoundIsOwn' /\ w' \in [Writers -> Writer]
    <3>1. CASE rec.uid
      <4>1. w' = [w EXCEPT ![s] = r] /\ holds' = holds
        BY <3>1, <1>3 DEF Store, next
      <4> QED
        BY <4>1, <2>4, WriterMoves
    <3>2. CASE ~rec.uid
      BY <3>2, <1>3 DEF Store, OwnInv, TypeOK, BoundIsOwn
    <3> QED
      BY <3>1, <3>2
  <2>6. stores' \in 0..MaxStores
    BY <1>3, LabelsAssumption DEF Store, OwnInv, TypeOK
  <2>7. exposed' \subseteq Keywords
    BY <1>3, <2>1 DEF Store, Exposes, OwnInv, TypeOK, next
  <2> QED
    BY <1>3, <2>2, <2>3, <2>5, <2>6, <2>7 DEF Store, OwnInv, TypeOK, ValidityIsOwn, OwnMailOnly
<1> QED
  BY <1>2, <1>3 DEF Agent

LEMMA StepOwn == OwnInv /\ [Next]_vars => OwnInv'
<1> SUFFICES ASSUME OwnInv, [Next]_vars PROVE OwnInv'
  OBVIOUS
<1>1. ASSUME UNCHANGED vars PROVE OwnInv'
  BY <1>1 DEF vars, OwnInv, TypeOK, ValidityIsOwn, OwnMailOnly, BoundIsOwn
<1>2. Sessions \subseteq Writers
  BY DEF Writers
<1> QED
  BY <1>1, <1>2, AgentOwn, WriteOwn, SyncOwn, StartOwn DEF Next

LEMMA OwnHolds == Spec => []OwnInv
  BY InitOwn, StepOwn, PTL DEF Spec

(* The type invariant: among it, that no backoff holds on-demand pulls off *)
(* longer than ten debounce windows.                                       *)
THEOREM TypeTheorem == Spec => []TypeOK
<1>1. OwnInv => TypeOK
  BY DEF OwnInv
<1> QED
  BY <1>1, OwnHolds, PTL

(* No keyword write labels another message, for any number of sessions,    *)
(* keywords, failures and resets.                                          *)
THEOREM OwnMailTheorem == Spec => []OwnMailOnly
<1>1. OwnInv => OwnMailOnly
  BY DEF OwnInv
<1> QED
  BY <1>1, OwnHolds, PTL

(* A validity is only ever stamped on a record whose UID it names.         *)
THEOREM ValidityTheorem == Spec => []ValidityIsOwn
<1>1. OwnInv => ValidityIsOwn
  BY DEF OwnInv
<1> QED
  BY <1>1, OwnHolds, PTL
-----------------------------------------------------------------------------
(* What is remembered.  A running write finds upstream, or has still to    *)
(* send, every keyword that is not exposed, so that the mark it clears at  *)
(* its end is not the last trace of one.                                   *)
ToSend == {"get", "identify", "stamp", "select", "add"}

Sends ==
    rec.uid => \A p \in Writers : Writing(p) =>
        \A k \in rec.kw \ exposed :
            k \in labels["this"] \/ (k \in w[p].add /\ w[p].pc \in ToSend)

(* It takes off upstream only what is gone locally, or exposed.            *)
Takes ==
    rec.uid => \A p \in Writers : Writing(p) => w[p].rem \cap rec.kw \subseteq exposed

MemInv == OwnInv /\ Sends /\ Takes /\ Remembered

LEMMA OtherWriters ==
  ASSUME OwnInv, NEW p \in Writers, NEW r, w' = [w EXCEPT ![p] = r]
  PROVE  w'[p] = r /\ \A q \in Writers : q # p => w'[q] = w[q]
  BY DEF OwnInv, TypeOK

(* A writer takes a step outside a write, or begins one with the whole set *)
(* to send.                                                                *)
LEMMA FreshMem ==
  ASSUME MemInv, NEW p \in Writers, NEW r, w' = [w EXCEPT ![p] = r],
         UNCHANGED <<rec, labels, exposed>>,
         \/ r.pc \in {"idle", "pull", "list", "end"}
         \/ r.pc = "get" /\ r.add = rec.kw /\ r.rem = {}
  PROVE  Sends' /\ Takes' /\ Remembered'
<1>1. w'[p] = r /\ \A q \in Writers : q # p => w'[q] = w[q]
  BY OtherWriters DEF MemInv
<1>2. Sends'
  BY <1>1 DEF MemInv, Sends, Writing, ToSend
<1>3. Takes'
  BY <1>1 DEF MemInv, Takes, Writing
<1> QED
  BY <1>2, <1>3 DEF MemInv, Remembered

(* A write ends: if others go on, the exposed keywords are those before;   *)
(* if none does, nothing is left to send or to take.                       *)
LEMMA RestMem ==
  ASSUME MemInv, NEW p \in Writers, Rest(p), UNCHANGED labels,
         rec'.kw = rec.kw, rec'.uid = rec.uid,
         rec.uid /\ ~rec'.dirty => rec.kw \ exposed \subseteq labels["this"]
  PROVE  Sends' /\ Takes' /\ Remembered'
<1> DEFINE r == IF p \in Syncs THEN [Idle EXCEPT !.pc = "end"] ELSE Idle
<1>1. w' = [w EXCEPT ![p] = r] /\ r.pc \in {"idle", "end"}
  BY DEF Rest, Idle
<1> HIDE DEF r
<1>2. w'[p] = r /\ \A q \in Writers : q # p => w'[q] = w[q]
  BY <1>1, OtherWriters DEF MemInv
<1>3. \A q \in Writers : Writing(q)' => q # p /\ Writing(q)
  BY <1>1, <1>2 DEF Writing
<1>4. (\E q \in Writers : Writing(q)') => exposed' = exposed
  BY <1>3 DEF Rest
<1>5. Sends'
  BY <1>2, <1>3, <1>4 DEF MemInv, Sends
<1>6. Takes'
  BY <1>2, <1>3, <1>4 DEF MemInv, Takes
<1>7. Remembered'
  BY DEF Rest, Remembered
<1> QED
  BY <1>5, <1>6, <1>7

LEMMA RefusedMem ==
  ASSUME MemInv, NEW p \in Writers, Rest(p), UNCHANGED <<rec, labels>>
  PROVE  Sends' /\ Takes' /\ Remembered'
  BY RestMem DEF MemInv, Remembered

LEMMA GotoWriter ==
  ASSUME OwnInv, NEW p \in Writers, NEW pc, NEW v, Goto(p, pc, v)
  PROVE  \E r : /\ w' = [w EXCEPT ![p] = r] /\ r.pc = pc
               /\ r.add = w[p].add /\ r.rem = w[p].rem
<1> DEFINE r == [w[p] EXCEPT !.pc = pc, !.known = v]
<1>1. w[p] \in Writer
  BY DEF OwnInv, TypeOK
<1>2. r.pc = pc /\ r.add = w[p].add /\ r.rem = w[p].rem /\ w' = [w EXCEPT ![p] = r]
  BY <1>1 DEF Writer, Goto
<1> QED
  BY <1>2

(* A write goes on with what it has, or with nothing to send; the record   *)
(* keeps its set and the mailbox what is not exposed.                      *)
LEMMA GotoMem ==
  ASSUME MemInv, NEW p \in Writers, NEW pc, NEW v, Goto(p, pc, v), Writing(p),
         rec'.kw = rec.kw, rec'.uid = rec.uid, rec'.dirty = rec.dirty, exposed' = exposed,
         rec.uid => \A k \in rec.kw \ exposed :
             /\ k \in labels["this"] => k \in labels'["this"]
             /\ w[p].pc \in ToSend /\ k \in w[p].add => k \in labels'["this"] \/ pc \in ToSend
  PROVE  Sends' /\ Takes' /\ Remembered'
<1>1. PICK r : /\ w' = [w EXCEPT ![p] = r] /\ r.pc = pc
               /\ r.add = w[p].add /\ r.rem = w[p].rem
  BY GotoWriter DEF MemInv
<1>2. w'[p] = r /\ \A q \in Writers : q # p => w'[q] = w[q]
  BY <1>1, OtherWriters DEF MemInv
<1>3. \A q \in Writers : Writing(q)' => Writing(q)
  BY <1>2 DEF Writing
<1>4. Sends'
  <2> SUFFICES ASSUME rec.uid, NEW q \in Writers, Writing(q), NEW k \in rec.kw \ exposed
               PROVE  k \in labels'["this"] \/ (k \in w'[q].add /\ w'[q].pc \in ToSend)
    BY <1>3 DEF Sends
  <2>1. k \in labels["this"] \/ (k \in w[q].add /\ w[q].pc \in ToSend)
    BY DEF MemInv, Sends
  <2> QED
    BY <1>1, <1>2, <2>1
<1>5. Takes'
  BY <1>1, <1>2, <1>3 DEF MemInv, Takes
<1>6. Remembered'
  BY DEF MemInv, Remembered
<1> QED
  BY <1>4, <1>5, <1>6

LEMMA StampMem ==
  ASSUME MemInv, NEW p \in Writers, Stamp(p) PROVE Sends' /\ Takes' /\ Remembered'
<1>1. /\ rec'.kw = rec.kw /\ rec'.dirty = rec.dirty /\ rec'.uid = rec.uid
      /\ labels' = labels /\ exposed' = exposed
  BY DEF Stamp, StampUIDValidity, MemInv, OwnInv, TypeOK, Record
<1>2. Goto(p, "select", rec'.validity) /\ Writing(p) /\ "select" \in ToSend
  BY DEF Stamp, Writing, ToSend
<1> QED
  BY <1>1, <1>2, GotoMem

LEMMA StoreAddMem ==
  ASSUME MemInv, NEW p \in Writers, StoreAdd(p) PROVE Sends' /\ Takes' /\ Remembered'
<1>1. CASE w[p].known = validity
  <2>1. labels'["this"] = labels["this"] \cup w[p].add
    <3>1. holds[validity] = "this" /\ labels \in [{"this", "other"} -> SUBSET Keywords]
      BY <1>1 DEF StoreAdd, MemInv, OwnInv, BoundIsOwn, Bound, TypeOK
    <3> QED
      BY <1>1, <3>1 DEF StoreAdd, Stored
  <2>2. PICK pc : Goto(p, pc, validity)
    BY <1>1 DEF StoreAdd
  <2>3. rec' = rec /\ exposed' = exposed /\ Writing(p)
    BY <1>1 DEF StoreAdd, Writing
  <2> QED
    BY <2>1, <2>2, <2>3, GotoMem
<1>2. CASE w[p].known # validity
  BY <1>2, RefusedMem DEF StoreAdd
<1> QED
  BY <1>1, <1>2

(* What it removes is gone locally, or exposed.                            *)
LEMMA StoreRemoveMem ==
  ASSUME MemInv, NEW p \in Writers, StoreRemove(p) PROVE Sends' /\ Takes' /\ Remembered'
<1>1. CASE w[p].known = validity
  <2>1. labels'["this"] = labels["this"] \ w[p].rem
    <3>1. holds[validity] = "this" /\ labels \in [{"this", "other"} -> SUBSET Keywords]
      BY <1>1 DEF StoreRemove, MemInv, OwnInv, BoundIsOwn, Bound, TypeOK
    <3> QED
      BY <1>1, <3>1 DEF StoreRemove, Stored
  <2>2. Goto(p, "clear", validity) /\ rec' = rec /\ exposed' = exposed
    BY <1>1 DEF StoreRemove
  <2>3. w[p].pc = "remove" /\ Writing(p) /\ w[p].pc \notin ToSend
    BY DEF StoreRemove, Writing, ToSend
  <2>4. rec.uid => w[p].rem \cap rec.kw \subseteq exposed
    BY <2>3 DEF MemInv, Takes
  <2>5. ASSUME rec.uid, NEW k \in rec.kw \ exposed
        PROVE  k \in labels["this"] => k \in labels'["this"]
    BY <2>1, <2>4, <2>5
  <2> QED
    BY <2>2, <2>3, <2>5, GotoMem
<1>2. CASE w[p].known # validity
  BY <1>2, RefusedMem DEF StoreRemove
<1> QED
  BY <1>1, <1>2

(* The mark goes when all that is not exposed is upstream.                 *)
LEMMA ClearMem ==
  ASSUME MemInv, NEW p \in Writers, Clear(p) PROVE Sends' /\ Takes' /\ Remembered'
<1>1. /\ rec'.kw = rec.kw /\ rec'.uid = rec.uid /\ labels' = labels /\ Rest(p)
  BY DEF Clear, ClearKeywordsDirty, MemInv, OwnInv, TypeOK, Record
<1>2. w[p].pc = "clear" /\ Writing(p) /\ w[p].pc \notin ToSend
  BY DEF Clear, Writing, ToSend
<1>3. rec.uid => rec.kw \ exposed \subseteq labels["this"]
  BY <1>2 DEF MemInv, Sends
<1> QED
  BY <1>1, <1>3, RestMem

LEMMA WriteMem ==
  ASSUME MemInv, NEW p \in Writers, Write(p) PROVE Sends' /\ Takes' /\ Remembered'
<1>1. CASE Get(p)
  <2>1. PICK pc : Goto(p, pc, rec.validity) /\ (pc \in ToSend \/ w[p].add = {})
    BY <1>1 DEF Get, ToSend
  <2>2. UNCHANGED <<rec, labels, exposed>> /\ Writing(p)
    BY <1>1 DEF Get, Writing
  <2> QED
    BY <2>1, <2>2, GotoMem
<1>2. CASE Identify(p)
  <2>1. CASE Identified
    <3>1. /\ Goto(p, "stamp", validity) /\ UNCHANGED <<rec, labels, exposed>>
          /\ Writing(p) /\ "stamp" \in ToSend
      BY <1>2, <2>1 DEF Identify, Writing, ToSend
    <3> QED
      BY <3>1, GotoMem
  <2>2. CASE ~Identified
    BY <1>2, <2>2, RefusedMem DEF Identify
  <2> QED
    BY <2>1, <2>2
<1>3. CASE SelectMailbox(p)
  <2>1. CASE Confirmed(p)
    <3>1. PICK pc : Goto(p, pc, validity) /\ (pc \in ToSend \/ w[p].add = {})
      BY <1>3, <2>1 DEF SelectMailbox, ToSend
    <3>2. UNCHANGED <<rec, labels, exposed>> /\ Writing(p)
      BY <1>3, <2>1 DEF SelectMailbox, Writing
    <3> QED
      BY <3>1, <3>2, GotoMem
  <2>2. CASE ~Confirmed(p)
    BY <1>3, <2>2, RefusedMem DEF SelectMailbox
  <2> QED
    BY <2>1, <2>2
<1>4. CASE WriteFails(p)
  BY <1>4, RefusedMem DEF WriteFails
<1> QED
  BY <1>1, <1>2, <1>3, <1>4, StampMem, StoreAddMem, StoreRemoveMem, ClearMem DEF Write

LEMMA SyncMem ==
  ASSUME MemInv, NEW p \in Syncs, Sync(p) PROVE Sends' /\ Takes' /\ Remembered'
<1>0. p \in Writers
  BY DEF Writers
<1>1. CASE Pull(p) \/ PullFails(p) \/ ListDirty(p) \/ EndSync(p)
  <2>1. \E r : /\ w' = [w EXCEPT ![p] = r]
               /\ \/ r.pc \in {"idle", "pull", "list", "end"}
                  \/ r.pc = "get" /\ r.add = rec.kw /\ r.rem = {}
    <3>1. CASE Pull(p)
      <4> DEFINE r == [Idle EXCEPT !.pc = "list"]
      <4>1. w' = [w EXCEPT ![p] = r] /\ r.pc = "list"
        BY <3>1 DEF Pull, Idle
      <4> QED
        BY <4>1
    <3>2. CASE PullFails(p) \/ EndSync(p)
      BY <3>2 DEF PullFails, EndSync, Idle
    <3>3. CASE ListDirty(p)
      <4> DEFINE r == IF rec.dirty THEN [Idle EXCEPT !.pc = "get", !.add = rec.kw]
                      ELSE [Idle EXCEPT !.pc = "end"]
      <4>1. w' = [w EXCEPT ![p] = r]
        BY <3>3 DEF ListDirty
      <4>2. r.pc = "end" \/ (r.pc = "get" /\ r.add = rec.kw /\ r.rem = {})
        BY DEF Idle
      <4> QED
        BY <4>1, <4>2
    <3> QED
      BY <1>1, <3>1, <3>2, <3>3
  <2>2. UNCHANGED <<rec, labels, exposed>>
    BY <1>1 DEF Pull, PullFails, ListDirty, EndSync
  <2> QED
    BY <1>0, <2>1, <2>2, FreshMem
<1> QED
  BY <1>0, <1>1, WriteMem DEF Sync

LEMMA StartMem ==
  ASSUME MemInv, Poll \/ Trigger PROVE Sends' /\ Takes' /\ Remembered'
<1>1. \E p \in Writers : w' = [w EXCEPT ![p] = [Idle EXCEPT !.pc = "pull"]]
  BY DEF Poll, Trigger, Begin, Writers, Syncs
<1>2. UNCHANGED <<rec, labels, exposed>>
  BY DEF Poll, Trigger
<1>3. [Idle EXCEPT !.pc = "pull"].pc = "pull"
  BY DEF Idle
<1> QED
  BY <1>1, <1>2, <1>3, FreshMem

(* A STORE marks the record.  What it keeps unexposed was local, unmarked  *)
(* and unexposed before, so it is upstream; what it adds it will send, and *)
(* unexposed it meets no other write.                                      *)
LEMMA StoreMem ==
  ASSUME MemInv, NEW s \in Sessions, NEW op, NEW kw, Store(s, op, kw)
  PROVE  Sends' /\ Takes' /\ Remembered'
<1> DEFINE next == ApplyKeywordOp(view[s], op, kw)
           r == [pc |-> "get", add |-> next \ view[s], rem |-> view[s] \ next, known |-> 0]
<1>1. /\ rec'.kw = next /\ rec'.dirty = rec.uid /\ rec'.uid = rec.uid /\ labels' = labels
  BY DEF Store, SetKeywords, MemInv, OwnInv, TypeOK, Record
<1>2. /\ w' = IF rec.uid THEN [w EXCEPT ![s] = r] ELSE w
      /\ Exposes(s, next)
  BY DEF Store
<1>3. r.pc = "get" /\ r.add = next \ view[s] /\ r.rem = view[s] \ next
  OBVIOUS
<1> HIDE DEF next, r
<1>4. s \in Writers
  BY DEF Writers
<1>5. rec.uid => w'[s] = r /\ \A q \in Writers : q # s => w'[q] = w[q]
  BY <1>2, <1>4, OtherWriters DEF MemInv
<1>6. rec.uid => \A k \in (next \cap view[s]) \ exposed' :
                    k \in rec.kw \ exposed /\ k \in labels["this"]
  BY <1>2 DEF Exposes, MemInv, Remembered
<1>7. ASSUME NEW q \in Writers, q # s, Writing(q) PROVE next \ view[s] \subseteq exposed'
  BY <1>2, <1>7 DEF Exposes
<1>8. Sends'
  <2> SUFFICES ASSUME rec.uid, NEW q \in Writers, Writing(q)', NEW k \in next \ exposed'
               PROVE  k \in labels["this"] \/ (k \in w'[q].add /\ w'[q].pc \in ToSend)
    BY <1>1 DEF Sends
  <2>1. CASE k \in view[s]
    BY <2>1, <1>6
  <2>2. CASE k \notin view[s]
    <3>1. q = s
      BY <2>2, <1>5, <1>7 DEF Writing
    <3> QED
      BY <3>1, <2>2, <1>3, <1>5 DEF ToSend
  <2> QED
    BY <2>1, <2>2
<1>9. Takes'
  <2> SUFFICES ASSUME rec.uid, NEW q \in Writers, Writing(q)', NEW k \in w'[q].rem \cap next
               PROVE  k \in exposed'
    BY <1>1 DEF Takes
  <2>1. q # s /\ w'[q] = w[q] /\ Writing(q)
    BY <1>3, <1>5 DEF Writing
  <2>2. k \in rec.kw => k \in exposed
    BY <2>1 DEF MemInv, Takes
  <2> QED
    BY <2>1, <2>2, <1>6, <1>7
<1>10. Remembered'
  BY <1>1 DEF Remembered
<1> QED
  BY <1>8, <1>9, <1>10

LEMMA NextMem == MemInv /\ [Next]_vars => MemInv'
<1> SUFFICES ASSUME MemInv, [Next]_vars PROVE MemInv'
  OBVIOUS
<1>1. OwnInv'
  BY StepOwn DEF MemInv
<1>2. UNCHANGED <<rec, labels, exposed, w>> => Sends' /\ Takes' /\ Remembered'
  BY DEF MemInv, Sends, Takes, Remembered, Writing
<1>3. ASSUME NEW s \in Sessions, Agent(s) PROVE Sends' /\ Takes' /\ Remembered'
  BY <1>2, <1>3, StoreMem DEF Agent, Select
<1>4. Elapse \/ Reset \/ UNCHANGED vars => UNCHANGED <<rec, labels, exposed, w>>
  BY DEF Elapse, Reset, vars
<1>5. Sessions \subseteq Writers
  BY DEF Writers
<1>6. Sends' /\ Takes' /\ Remembered'
  BY <1>2, <1>3, <1>4, <1>5, WriteMem, SyncMem, StartMem DEF Next
<1> QED
  BY <1>1, <1>6 DEF MemInv

LEMMA InitMem == Init => MemInv
<1> SUFFICES ASSUME Init PROVE MemInv
  OBVIOUS
<1>1. OwnInv
  BY InitOwn
<1>2. rec.kw = {}
  BY DEF Init
<1> QED
  BY <1>1, <1>2 DEF MemInv, Sends, Takes, Remembered

(* A record without the mark has all its keywords upstream, but for those  *)
(* that a STORE kept while an earlier change waited for its retry, put     *)
(* back from a stale snapshot, or added while another write was under way: *)
(* for any number of sessions, keywords, resets and failures, and any      *)
(* overlap of their writes with both kinds of sync (imap.go's STORE,       *)
(* WriteKeywords, reconcileKeywords).                                      *)
THEOREM MemoryTheorem == Spec => []Remembered
<1>1. MemInv => Remembered
  BY DEF MemInv
<1> QED
  BY <1>1, InitMem, NextMem, PTL DEF Spec
=============================================================================
