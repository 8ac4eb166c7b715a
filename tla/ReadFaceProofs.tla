--------------------------- MODULE ReadFaceProofs ---------------------------
(***************************************************************************)
(* Theorems about ReadFace, for any number of messages and sessions: what  *)
(* a session hides is what the operator is asked about, and a body goes    *)
(* out only cleared unless two sessions fetch the same message at once.    *)
(***************************************************************************)
EXTENDS ReadFace, WellFoundedInduction, TLAPS

(* A listed record was alive, and a body once stored is not pending again. *)
SnapshotOK(x, r) ==
    \A m \in x.todo : /\ Alive(x.view[m])
                      /\ x.view[m].state = "present" => r[m].state \in {"present", "gone"}

(* A session judges one message after the other; the one it fetches is     *)
(* the first and was listed without its body.                              *)
SessionOK(x, r) ==
    /\ x.pc = "judge" <=> x.todo # {}
    /\ x.pc = "idle" => x.fetch = NoMail
    /\ x.pc = "judge" /\ x.fetch # NoMail =>
         x.fetch = First(x.todo) /\ x.view[x.fetch].state = "pending"
    /\ SnapshotOK(x, r)

FaceInv == TypeOK /\ \A s \in Sessions : SessionOK(ses[s], recs)

(* No two sessions have a fetch of the same message in flight.             *)
NoOverlap ==
    \A s, t \in Sessions :
        s # t /\ ses[s].fetch # NoMail => ses[t].fetch # ses[s].fetch

(* An assessment is made once: a message that was ever held has a body and *)
(* stays held, and a fetch in flight is of a message without one.          *)
AssessedOnce ==
    /\ \A m \in heldOnce : recs[m].state # "new" /\ recs[m].state # "pending"
    /\ \A m \in heldOnce : Alive(recs[m]) => recs[m].assess = "held"
    /\ \A s \in Sessions : ses[s].fetch # NoMail =>
                           recs[ses[s].fetch].state \in {"pending", "gone"}

ServeInv == FaceInv /\ AssessedOnce /\ ServedOnlyCleared
-----------------------------------------------------------------------------
LEMMA FirstInSet ==
  ASSUME NEW S \in SUBSET Mail, S # {} PROVE First(S) \in S /\ First(S) \in Mail
<1>0. S \subseteq Nat
  BY DEF Mail
<1>1. PICK x \in S : \A y \in S : ~(<<y, x>> \in OpToRel(<, Nat))
  BY <1>0, NatLessThanWellFounded, WFMin
<1>2. \A y \in S : y \in Nat /\ x \in Nat
  BY <1>0
<1>3. \A y \in S : ~(y < x)
  BY <1>1, <1>2 DEF OpToRel
<1>4. \A y \in S : x <= y
  BY <1>2, <1>3
<1> QED BY <1>4 DEF First

(* The store only moves on: a body that was stored stays or is gone.       *)
Moves(r) == \A m \in Mail : recs[m].state \in {"present", "gone"} =>
                               r[m].state \in {"present", "gone"}

LEMMA SessionStays ==
  ASSUME NEW x \in Session, SessionOK(x, recs), NEW r, Moves(r)
  PROVE  SessionOK(x, r)
<1>1. x.todo \subseteq Mail
  BY DEF Session
<1> QED BY <1>1 DEF SessionOK, SnapshotOK, Moves

(* A step that leaves the sessions alone, and one that moves one session.  *)
OthersTyped ==
    /\ recs' \in [Mail -> Record] /\ Moves(recs')
    /\ assessing' \in BOOLEAN /\ holdSpoof' \in BOOLEAN
    /\ cards' \in SUBSET Mail /\ heldOnce' \in SUBSET Mail
    /\ out' \in Mail \cup {NoMail}

LEMMA FaceStore ==
  ASSUME FaceInv, OthersTyped, UNCHANGED ses PROVE FaceInv'
<1>1. ses \in [Sessions -> Session]
  BY DEF FaceInv, TypeOK
<1>2. \A s \in Sessions : SessionOK(ses[s], recs')
  BY <1>1, SessionStays DEF FaceInv, OthersTyped
<1> QED BY <1>1, <1>2 DEF FaceInv, TypeOK, OthersTyped

LEMMA FaceSession ==
  ASSUME FaceInv, OthersTyped, NEW s \in Sessions, NEW x \in Session, SessionOK(x, recs'),
         Set(s, x)
  PROVE  FaceInv'
<1>1. ses \in [Sessions -> Session]
  BY DEF FaceInv, TypeOK
<1>2. ses' \in [Sessions -> Session] /\ \A t \in Sessions : ses'[t] = IF t = s THEN x ELSE ses[t]
  BY <1>1 DEF Set
<1>3. \A t \in Sessions : SessionOK(ses'[t], recs')
  BY <1>1, <1>2, SessionStays DEF FaceInv, OthersTyped
<1> QED BY <1>2, <1>3 DEF FaceInv, TypeOK, OthersTyped

LEMMA NoRecordTyped == NoRecord \in Record /\ [NoRecord EXCEPT !.state = "gone"] \in Record
                       /\ [NoRecord EXCEPT !.state = "gone"].state = "gone"
  BY DEF NoRecord, Record, Rules

(* The records a step writes.                                              *)
LEMMA WriteRecord ==
  ASSUME TypeOK, NEW m \in Mail, NEW r \in Record, recs' = [recs EXCEPT ![m] = r],
         recs[m].state \in {"present", "gone"} => r.state \in {"present", "gone"}
  PROVE  recs' \in [Mail -> Record] /\ Moves(recs')
  BY DEF TypeOK, Moves

LEMMA RemovedTyped ==
  ASSUME TypeOK, NEW m \in Mail, Removed(m)
  PROVE  recs' \in [Mail -> Record] /\ Moves(recs')
<1>1. CASE recs' = recs
  BY <1>1 DEF TypeOK, Moves
<1>2. CASE recs' = [recs EXCEPT ![m] = [NoRecord EXCEPT !.state = "gone"]]
  BY <1>2, NoRecordTyped, WriteRecord
<1> QED BY <1>1, <1>2 DEF Removed

(* The session after a judgement.                                          *)
LEMMA JudgedOK ==
  ASSUME NEW x \in Session, NEW r, SessionOK(x, r), x.pc = "judge", NEW spoof
  PROVE  JudgedView(x, spoof) \in Session /\ SessionOK(JudgedView(x, spoof), r)
<1> DEFINE m == First(x.todo)
           y == JudgedView(x, spoof)
<1>1. x.todo \in SUBSET Mail /\ x.todo # {} /\ x.view \in [Mail -> Record]
  BY DEF Session, SessionOK
<1>2. m \in x.todo /\ m \in Mail
  BY <1>1, FirstInSet
<1> HIDE DEF m
<1>3. /\ y.pc = (IF x.todo = {m} THEN "open" ELSE "judge") /\ y.todo = x.todo \ {m}
      /\ y.fetch = NoMail /\ y.view \in [Mail -> Record]
      /\ \A n \in Mail : n # m => y.view[n] = x.view[n]
      /\ y \in [pc : {"open", "judge"}, view : [Mail -> Record], todo : SUBSET Mail,
                fetch : {NoMail}]
  BY <1>1, <1>2, NoRecordTyped DEF JudgedView, m
<1> HIDE DEF y
<1>4. y \in Session
  BY <1>3 DEF Session
<1>5. SessionOK(y, r)
  BY <1>1, <1>2, <1>3 DEF SessionOK, SnapshotOK
<1> QED BY <1>4, <1>5 DEF y
-----------------------------------------------------------------------------
(* Each step keeps the sessions' snapshots in order.                       *)

LEMMA SameStore ==
  ASSUME TypeOK, UNCHANGED <<recs, conf, cards, heldOnce>>, out' \in Mail \cup {NoMail}
  PROVE  OthersTyped
  BY DEF TypeOK, OthersTyped, Moves, conf

LEMMA ArriveFace == ASSUME FaceInv, NEW m \in Mail, Arrive(m) PROVE FaceInv'
<1>1. TypeOK /\ recs[m].state = "new"
  BY DEF FaceInv, Arrive
<1>2. PICK k \in {"plain", "daemon", "report", "own"}, a \in Dispositions, rule \in Rules :
        SetRecord(m, [kind |-> k,
             state |-> IF k = "own" \/ assessing THEN "present" ELSE "pending",
             assess |-> IF k = "own" THEN "none" ELSE a,
             decision |-> "none", rule |-> rule])
  BY DEF Arrive
<1> DEFINE r == [kind |-> k,
                 state |-> IF k = "own" \/ assessing THEN "present" ELSE "pending",
                 assess |-> IF k = "own" THEN "none" ELSE a,
                 decision |-> "none", rule |-> rule]
<1>3. r \in Record
  BY DEF Record, Dispositions
<1> HIDE DEF r
<1>4. recs' = [recs EXCEPT ![m] = r] /\ heldOnce' \in SUBSET Mail
  BY <1>1, <1>2 DEF SetRecord, TypeOK, r
<1>5. OthersTyped
  BY <1>1, <1>3, <1>4, WriteRecord DEF Arrive, OthersTyped, TypeOK, conf
<1> QED BY <1>5, FaceStore DEF Arrive

LEMMA RuleShiftsFace == ASSUME FaceInv, NEW m \in Mail, RuleShifts(m) PROVE FaceInv'
<1>1. TypeOK /\ recs[m] \in Record
  BY DEF FaceInv, TypeOK
<1>2. PICK rule \in Rules : recs' = [recs EXCEPT ![m].rule = rule]
  BY DEF RuleShifts
<1> DEFINE r == [recs[m] EXCEPT !.rule = rule]
<1>3. r \in Record /\ r.state = recs[m].state /\ recs' = [recs EXCEPT ![m] = r]
  BY <1>1, <1>2 DEF Record
<1> HIDE DEF r
<1>4. OthersTyped
  BY <1>1, <1>3, WriteRecord DEF RuleShifts, OthersTyped, TypeOK, conf
<1> QED BY <1>4, FaceStore DEF RuleShifts

LEMMA DecideHeldFace == ASSUME FaceInv, NEW m \in Mail, DecideHeld(m) PROVE FaceInv'
<1>1. TypeOK /\ recs[m] \in Record
  BY DEF FaceInv, TypeOK
<1>2. PICK d \in {"approved", "rejected"} : recs' = [recs EXCEPT ![m].decision = d]
  BY DEF DecideHeld
<1> DEFINE r == [recs[m] EXCEPT !.decision = d]
<1>3. r \in Record /\ r.state = recs[m].state /\ recs' = [recs EXCEPT ![m] = r]
  BY <1>1, <1>2 DEF Record
<1> HIDE DEF r
<1>4. OthersTyped
  BY <1>1, <1>3, WriteRecord DEF DecideHeld, OthersTyped, TypeOK, conf
<1> QED BY <1>4, FaceStore DEF DecideHeld

LEMMA RetractFace == ASSUME FaceInv, NEW m \in Mail, Retract(m) PROVE FaceInv'
<1>1. OthersTyped
  BY RemovedTyped DEF Retract, FaceInv, TypeOK, OthersTyped, conf
<1> QED BY <1>1, FaceStore DEF Retract

LEMMA ShowHeldFace == ASSUME FaceInv, ShowHeld PROVE FaceInv'
<1>1. HeldList \subseteq Mail
  BY DEF HeldList
<1>2. OthersTyped
  BY <1>1 DEF ShowHeld, FaceInv, TypeOK, OthersTyped, Moves, conf
<1> QED BY <1>2, FaceStore DEF ShowHeld

LEMMA NoSessionOK == NoSession \in Session /\ \A r : SessionOK(NoSession, r)
<1>1. NoSession \in Session
  BY NoRecordTyped DEF NoSession, Session
<1>2. NoSession.pc = "idle" /\ NoSession.todo = {} /\ NoSession.fetch = NoMail
  BY DEF NoSession
<1> QED BY <1>1, <1>2 DEF SessionOK, SnapshotOK

LEMMA RestartFace == ASSUME FaceInv, Restart PROVE FaceInv'
<1>1. ses' \in [Sessions -> Session] /\ \A s \in Sessions : SessionOK(ses'[s], recs')
  BY NoSessionOK DEF Restart
<1> QED BY <1>1 DEF Restart, FaceInv, TypeOK

LEMMA SelectFace == ASSUME FaceInv, NEW s \in Sessions, Select(s) PROVE FaceInv'
<1> DEFINE todo == {m \in Mail : Alive(recs[m])}
           view == [m \in Mail |-> IF m \in todo THEN recs[m] ELSE NoRecord]
           x == [pc |-> IF todo = {} THEN "open" ELSE "judge", todo |-> todo,
                 view |-> view, fetch |-> NoMail]
<1>1. TypeOK /\ OthersTyped /\ recs' = recs
  BY SameStore DEF FaceInv, Select
<1>2. Set(s, x)
  BY DEF Select
<1>3. view \in [Mail -> Record] /\ \A m \in todo : view[m] = recs[m] /\ Alive(recs[m])
  BY <1>1, NoRecordTyped DEF TypeOK
<1>4. todo \in SUBSET Mail
  OBVIOUS
<1> HIDE DEF todo, view
<1>5. x \in Session
  BY <1>3, <1>4 DEF Session
<1>6. SessionOK(x, recs')
  BY <1>1, <1>3 DEF SessionOK, SnapshotOK
<1> HIDE DEF x
<1> QED BY <1>1, <1>2, <1>5, <1>6, FaceSession

LEMMA JudgeFace == ASSUME FaceInv, NEW s \in Sessions, Judge(s) PROVE FaceInv'
<1>1. TypeOK /\ OthersTyped /\ recs' = recs
  BY SameStore DEF FaceInv, Judge
<1>2. PICK spoof : Set(s, JudgedView(ses[s], spoof))
  BY DEF Judge
<1>3. ses[s] \in Session /\ SessionOK(ses[s], recs) /\ ses[s].pc = "judge"
  BY DEF FaceInv, TypeOK, Judge
<1>4. PICK x \in Session : x = JudgedView(ses[s], spoof) /\ SessionOK(x, recs)
  BY <1>3, JudgedOK
<1> QED BY <1>1, <1>2, <1>4, FaceSession

(* The fetch is of a message listed without its body.                      *)
LEMMA JudgeFetchesFace == ASSUME FaceInv, NEW s \in Sessions, JudgeFetches(s) PROVE FaceInv'
<1> DEFINE m == First(ses[s].todo)
           x == [ses[s] EXCEPT !.fetch = m]
<1>1. TypeOK /\ OthersTyped /\ recs' = recs
  BY SameStore DEF FaceInv, JudgeFetches
<1>2. /\ ses[s] \in Session /\ SessionOK(ses[s], recs) /\ ses[s].pc = "judge" /\ Set(s, x)
      /\ recs[m].state = "pending"
  BY DEF FaceInv, TypeOK, JudgeFetches
<1>3. ses[s].todo \in SUBSET Mail /\ ses[s].todo # {}
  BY <1>2 DEF Session, SessionOK
<1>4. m \in ses[s].todo /\ m \in Mail
  BY <1>3, FirstInSet
<1>5. ses[s].view[m].state = "pending"
  BY <1>2, <1>4 DEF SessionOK, SnapshotOK, Alive
<1> HIDE DEF m
<1>6. /\ x \in Session /\ x.pc = "judge" /\ x.fetch = m /\ x.todo = ses[s].todo
      /\ x.view = ses[s].view
  BY <1>2, <1>4 DEF Session
<1> HIDE DEF x
<1>7. SessionOK(x, recs')
  BY <1>1, <1>2, <1>5, <1>6 DEF SessionOK, SnapshotOK, m
<1> QED BY <1>1, <1>2, <1>6, <1>7, FaceSession

LEMMA ReadBodyFace == ASSUME FaceInv, NEW s \in Sessions, NEW m \in Mail, Read(s, m) PROVE FaceInv'
<1>1. OthersTyped /\ UNCHANGED ses
  BY SameStore DEF FaceInv, Read
<1> QED BY <1>1, FaceStore

LEMMA ReadFetchesFace ==
  ASSUME FaceInv, NEW s \in Sessions, NEW m \in Mail, ReadFetches(s, m) PROVE FaceInv'
<1> DEFINE x == [ses[s] EXCEPT !.fetch = m]
<1>1. TypeOK /\ OthersTyped /\ recs' = recs
  BY SameStore DEF FaceInv, ReadFetches
<1>2. ses[s] \in Session /\ SessionOK(ses[s], recs) /\ ses[s].pc = "open" /\ Set(s, x)
  BY DEF FaceInv, TypeOK, ReadFetches, Wants
<1>3. /\ x \in Session /\ x.pc = "open" /\ x.todo = ses[s].todo /\ x.view = ses[s].view
  BY <1>2 DEF Session
<1> HIDE DEF x
<1>4. SessionOK(x, recs')
  BY <1>1, <1>2, <1>3 DEF SessionOK, SnapshotOK
<1> QED BY <1>1, <1>2, <1>3, <1>4, FaceSession

(* A session goes on after its fetch.                                      *)
LEMMA ResumeFace ==
  ASSUME FaceInv, NEW s \in Sessions, NEW spoof, Resume(s, spoof), OthersTyped PROVE FaceInv'
<1> DEFINE y == [ses[s] EXCEPT !.fetch = NoMail]
<1>1. ses[s] \in Session /\ SessionOK(ses[s], recs) /\ Moves(recs')
  BY DEF FaceInv, TypeOK, OthersTyped
<1>2. CASE ses[s].pc = "judge"
  <2>1. PICK x \in Session : x = JudgedView(ses[s], spoof) /\ SessionOK(x, recs)
    BY <1>1, <1>2, JudgedOK
  <2>2. SessionOK(x, recs') /\ Set(s, x)
    BY <1>1, <1>2, <2>1, SessionStays DEF Resume
  <2> QED BY <2>2, FaceSession
<1>3. CASE ses[s].pc # "judge"
  <2>1. y \in Session /\ y.pc = ses[s].pc /\ y.todo = ses[s].todo /\ y.fetch = NoMail
    BY <1>1 DEF Session
  <2>2. Set(s, y)
    BY <1>3 DEF Resume
  <2> HIDE DEF y
  <2>3. SessionOK(y, recs')
    BY <1>1, <1>3, <2>1 DEF SessionOK, SnapshotOK
  <2> QED BY <2>1, <2>2, <2>3, FaceSession
<1> QED BY <1>2, <1>3

LEMMA FetchTyped ==
  ASSUME FaceInv, NEW s \in Sessions, ses[s].fetch # NoMail PROVE ses[s].fetch \in Mail
<1>1. ses[s] \in Session
  BY DEF FaceInv, TypeOK
<1> QED BY <1>1 DEF Session

LEMMA FetchFillsFace == ASSUME FaceInv, NEW s \in Sessions, FetchFills(s) PROVE FaceInv'
<1> DEFINE m == ses[s].fetch
<1>1. TypeOK /\ m \in Mail
  BY FetchTyped DEF FaceInv, FetchFills
<1>2. PICK a \in Dispositions :
        LET full == [recs[m] EXCEPT !.state = "present", !.assess = a] IN
        /\ SetRecord(m, full)
        /\ Resume(s, Spoof(full) /\ ~Withheld(full))
        /\ out' = IF ses[s].pc = "open" /\ Servable(full) THEN m ELSE NoMail
  BY DEF FetchFills
<1> DEFINE full == [recs[m] EXCEPT !.state = "present", !.assess = a]
<1>3. full \in Record /\ full.state = "present"
  <2>1. recs[m] \in Record /\ a \in {"none", "handled", "held"}
    BY <1>1 DEF TypeOK, Dispositions
  <2> QED BY <2>1 DEF Record
<1>4. /\ recs' = [recs EXCEPT ![m] = full] /\ heldOnce' \in SUBSET Mail
      /\ out' \in Mail \cup {NoMail} /\ Resume(s, Spoof(full) /\ ~Withheld(full))
  BY <1>1, <1>2 DEF SetRecord, TypeOK
<1> HIDE DEF full, m
<1>5. OthersTyped
  BY <1>1, <1>3, <1>4, WriteRecord DEF FetchFills, OthersTyped, TypeOK, conf
<1> QED BY <1>4, <1>5, ResumeFace

LEMMA FetchEndsFace ==
  ASSUME FaceInv, NEW s \in Sessions, FetchFails(s) \/ FetchGone(s) PROVE FaceInv'
<1>1. CASE FetchFails(s)
  BY <1>1, SameStore, ResumeFace DEF FetchFails, FaceInv
<1>2. CASE FetchGone(s)
  <2>1. OthersTyped
    BY <1>2, FetchTyped, RemovedTyped DEF FetchGone, FaceInv, TypeOK, OthersTyped, conf
  <2> QED BY <1>2, <2>1, ResumeFace DEF FetchGone
<1> QED BY <1>1, <1>2

LEMMA CloseFace == ASSUME FaceInv, NEW s \in Sessions, Close(s) PROVE FaceInv'
  BY SameStore, NoSessionOK, FaceSession DEF Close, FaceInv

LEMMA FaceNext == FaceInv /\ [Next]_vars => FaceInv'
<1> SUFFICES ASSUME FaceInv, [Next]_vars PROVE FaceInv'
  OBVIOUS
<1>1. CASE UNCHANGED vars
  BY <1>1 DEF vars, FaceInv, TypeOK
<1>2. ASSUME NEW s \in Sessions, Serve(s) PROVE FaceInv'
  BY <1>2, SelectFace, JudgeFace, JudgeFetchesFace, FetchFillsFace, FetchEndsFace, CloseFace,
     ReadBodyFace, ReadFetchesFace DEF Serve
<1> QED BY <1>1, <1>2, ArriveFace, RuleShiftsFace, RetractFace, DecideHeldFace, ShowHeldFace,
           RestartFace DEF Next

LEMMA FaceInit == Init => FaceInv
<1> SUFFICES ASSUME Init PROVE FaceInv
  OBVIOUS
<1>1. recs \in [Mail -> Record] /\ ses \in [Sessions -> Session]
  BY NoRecordTyped, NoSessionOK DEF Init
<1>2. \A s \in Sessions : SessionOK(ses[s], recs)
  BY NoSessionOK DEF Init
<1> QED BY <1>1, <1>2 DEF Init, FaceInv, TypeOK
-----------------------------------------------------------------------------
(* A message leaves a session's list by a judgement on the listed record,  *)
(* or after a fetch, and then it was listed without its body.              *)
LEMMA JudgedViewFields ==
  ASSUME NEW x, NEW spoof
  PROVE  /\ JudgedView(x, spoof).todo = x.todo \ {First(x.todo)}
         /\ Visible(x.view[First(x.todo)], spoof) => JudgedView(x, spoof).view = x.view
  BY DEF JudgedView

LEMMA HidesCases ==
  ASSUME FaceInv, [Next]_vars, NEW s \in Sessions, NEW m \in Mail, Hides(s, m)
  PROVE  Judge(s) \/ ses[s].view[m].state = "pending"
<1>1. ses \in [Sessions -> Session] /\ ses[s] \in Session /\ SessionOK(ses[s], recs)
  BY DEF FaceInv, TypeOK
<1>2. /\ ses[s].pc = "judge" /\ m \in ses[s].todo /\ m \notin ses'[s].todo
      /\ ses'[s].pc # "idle"
  BY <1>1 DEF Hides, SessionOK
<1>3. ses' # ses
  BY <1>2
<1>4. ASSUME Restart PROVE FALSE
  BY <1>2, <1>4, NoSessionOK DEF Restart, NoSession
<1>5. ASSUME NEW t \in Sessions, Serve(t), t # s PROVE FALSE
  <2>1. ses'[s] = ses[s]
    BY <1>1, <1>5 DEF Serve, Select, Judge, JudgeFetches, FetchFills, FetchFails, FetchGone,
                      Close, Read, ReadFetches, Resume, Set
  <2> QED BY <1>2, <2>1
<1>6. ASSUME NEW x, Set(s, x) PROVE ses'[s] = x
  BY <1>1, <1>6 DEF Set
<1>7. ASSUME Close(s) PROVE FALSE
  BY <1>2, <1>6, <1>7 DEF Close, NoSession
<1>8. ASSUME JudgeFetches(s) PROVE FALSE
  <2> DEFINE x == [ses[s] EXCEPT !.fetch = First(ses[s].todo)]
  <2>1. Set(s, x) /\ x.todo = ses[s].todo
    BY <1>1, <1>8 DEF JudgeFetches, Session
  <2> HIDE DEF x
  <2> QED BY <1>2, <1>6, <2>1
<1>9. ASSUME NEW spoof, Resume(s, spoof), ses[s].fetch # NoMail
      PROVE  ses[s].view[m].state = "pending"
  <2>1. Set(s, JudgedView(ses[s], spoof))
    BY <1>2, <1>9 DEF Resume
  <2>2. m = First(ses[s].todo)
    BY <1>2, <1>6, <2>1, JudgedViewFields
  <2> QED BY <1>1, <1>2, <1>9, <2>2 DEF SessionOK
<1>10. ASSUME FetchFills(s) \/ FetchFails(s) \/ FetchGone(s)
       PROVE  ses[s].view[m].state = "pending"
  <2>1. ses[s].fetch # NoMail /\ \E spoof : Resume(s, spoof)
    BY <1>10 DEF FetchFills, FetchFails, FetchGone
  <2> QED BY <1>9, <2>1
<1>11. ~Select(s) /\ \A n \in Mail : ~Read(s, n) /\ ~ReadFetches(s, n)
  BY <1>2 DEF Select, Read, ReadFetches, Wants
<1>12. \/ ses' = ses \/ Restart \/ \E t \in Sessions : Serve(t)
  BY DEF Next, vars, Arrive, RuleShifts, Retract, DecideHeld, ShowHeld
<1> QED BY <1>3, <1>4, <1>5, <1>7, <1>8, <1>10, <1>11, <1>12 DEF Serve

(* What the read face hides on the stored record, and no rule hides, is    *)
(* held by one of the queue's sources.                                     *)
LEMMA HiddenIsHeld ==
  ASSUME TypeOK, NEW m \in Mail, recs[m].state = "present", recs[m].rule # "hide",
         Spoof(recs[m]) => holdSpoof,
         ~Visible(recs[m], /\ Suspect(recs[m])
                           /\ ~Alive(recs[m]) \/ (Spoof(recs[m]) /\ ~Withheld(recs[m])))
  PROVE  m \in HeldList
<1> DEFINE r == recs[m]
<1>1. /\ r.decision \in {"none", "approved", "rejected"} /\ r.rule \in {"allow", "hide", "hold"}
      /\ Alive(r)
  BY DEF TypeOK, Record, Rules, Alive
<1>2. CASE GuardHides(r, Suspect(r) /\ (~Alive(r) \/ (Spoof(r) /\ ~Withheld(r))))
  <2>1. Suspect(r) /\ Spoof(r) /\ holdSpoof /\ r.decision # "approved"
    BY <1>1, <1>2 DEF GuardHides
  <2>2. r.decision = "none"
    BY <1>1, <1>2, <2>1 DEF Visible
  <2> QED BY <1>1, <2>1, <2>2 DEF HeldList, GuardHoldsSpoof
<1>3. CASE ~GuardHides(r, Suspect(r) /\ (~Alive(r) \/ (Spoof(r) /\ ~Withheld(r))))
  <2>1. r.decision = "none" /\ (r.assess = "held" \/ r.rule # "allow")
    BY <1>3 DEF Visible
  <2> QED BY <1>1, <2>1 DEF HeldList
<1> QED BY <1>2, <1>3

(* The read face and the held queue agree: whatever a session hides and no *)
(* rule hides, the operator is asked about, for any number of sessions and *)
(* whatever they fetched, decided or relabelled in between (listAndFilter, *)
(* HeldList).                                                              *)
THEOREM QueueCoversHidden == Spec => HeldIsQueued
<1> DEFINE Step == \A s \in Sessions, m \in Mail :
                     /\ Hides(s, m)
                     /\ recs[m] = ses[s].view[m] /\ recs[m].state = "present"
                     /\ recs[m].rule # "hide"
                     /\ Spoof(recs[m]) => holdSpoof
                     => m \in HeldList
<1>1. FaceInv /\ [Next]_vars => [Step]_vars
  <2> SUFFICES ASSUME FaceInv, [Next]_vars, NEW s \in Sessions, NEW m \in Mail, Hides(s, m),
                      recs[m] = ses[s].view[m], recs[m].state = "present",
                      recs[m].rule # "hide", Spoof(recs[m]) => holdSpoof
               PROVE  m \in HeldList
    OBVIOUS
  <2> DEFINE first == First(ses[s].todo)
             spoof == /\ Suspect(ses[s].view[first])
                      /\ ~Alive(recs[first]) \/ (Spoof(recs[first]) /\ ~Withheld(recs[first]))
  <2>1. Judge(s) /\ ses \in [Sessions -> Session] /\ TypeOK
    BY HidesCases DEF FaceInv, TypeOK
  <2>2. PICK sp : sp = spoof /\ ses'[s] = JudgedView(ses[s], sp)
    BY <2>1 DEF Judge, Set
  <2> HIDE DEF spoof
  <2>3. m = first
    BY <2>2, JudgedViewFields DEF Hides
  <2>4. Alive(ses[s].view[m])
    BY DEF FaceInv, SessionOK, SnapshotOK, Hides
  <2>5. ~Visible(ses[s].view[m], sp)
    BY <2>2, <2>3, <2>4, JudgedViewFields DEF Hides
  <2>6. ~Visible(recs[m], spoof)
    BY <2>2, <2>5
  <2> QED BY <2>1, <2>3, <2>6, HiddenIsHeld DEF spoof
<1>2. Init => FaceInv
  BY FaceInit
<1>3. FaceInv /\ [Next]_vars => FaceInv'
  BY FaceNext
<1> QED BY <1>1, <1>2, <1>3, PTL DEF Spec, HeldIsQueued
-----------------------------------------------------------------------------
(* A message is assessed once where no two fetches of it overlap.          *)

(* A record that keeps its body and assessment, or is gone.                *)
KeepsBody(m) == \/ recs'[m].state = recs[m].state /\ recs'[m].assess = recs[m].assess
                \/ recs'[m].state = "gone"

LEMMA AssessedStays ==
  ASSUME TypeOK, TypeOK', AssessedOnce, heldOnce' = heldOnce, \A m \in Mail : KeepsBody(m),
         \A s \in Sessions : \/ ses'[s].fetch \in {NoMail, ses[s].fetch}
                             \/ recs'[ses'[s].fetch].state = "pending"
  PROVE  AssessedOnce'
<1>1. heldOnce \subseteq Mail /\ \A s \in Sessions : ses'[s].fetch \in Mail \cup {NoMail}
  BY DEF TypeOK, Session
<1>2. \A m \in heldOnce : recs'[m].state # "new" /\ recs'[m].state # "pending"
  BY <1>1 DEF AssessedOnce, KeepsBody
<1>3. \A m \in heldOnce : Alive(recs'[m]) => recs'[m].assess = "held"
  BY <1>1 DEF AssessedOnce, KeepsBody, Alive
<1>4. ASSUME NEW s \in Sessions, ses'[s].fetch # NoMail
      PROVE  recs'[ses'[s].fetch].state \in {"pending", "gone"}
  BY <1>1, <1>4 DEF AssessedOnce, KeepsBody
<1> QED BY <1>2, <1>3, <1>4 DEF AssessedOnce

(* Where a session's fetch comes from and ends.                            *)
LEMMA FetchCases ==
  ASSUME FaceInv, [Next]_vars, NEW s \in Sessions
  PROVE  \/ ses'[s].fetch \in {NoMail, ses[s].fetch}
         \/ recs'[ses'[s].fetch].state = "pending"
<1>1. ses \in [Sessions -> Session] /\ ses[s] \in Session
  BY DEF FaceInv, TypeOK
<1>2. ASSUME NEW x, Set(s, x) PROVE ses'[s] = x
  BY <1>1, <1>2 DEF Set
<1>3. \A spoof : JudgedView(ses[s], spoof).fetch = NoMail
  BY DEF JudgedView
<1>4. ASSUME NEW spoof, Resume(s, spoof) PROVE ses'[s].fetch = NoMail
  BY <1>1, <1>2, <1>3, <1>4 DEF Resume, Session
<1>5. ASSUME NEW m, Set(s, [ses[s] EXCEPT !.fetch = m]), recs' = recs, recs[m].state = "pending"
      PROVE  recs'[ses'[s].fetch].state = "pending"
  BY <1>1, <1>2, <1>5 DEF Session
<1>6. CASE JudgeFetches(s) \/ \E m \in Mail : ReadFetches(s, m)
  <2>1. PICK m : /\ Set(s, [ses[s] EXCEPT !.fetch = m]) /\ recs' = recs
                 /\ recs[m].state = "pending"
    BY <1>6 DEF JudgeFetches, ReadFetches
  <2> QED BY <1>5, <2>1
<1>7. CASE Judge(s) \/ FetchFills(s) \/ FetchFails(s) \/ FetchGone(s)
  BY <1>2, <1>3, <1>4, <1>7 DEF Judge, FetchFills, FetchFails, FetchGone
<1>8. CASE Select(s) \/ Close(s)
  BY <1>2, <1>8 DEF Select, Close, NoSession
<1>9. CASE Restart
  BY <1>9 DEF Restart, NoSession
<1>10. ASSUME NEW t \in Sessions, t # s, Serve(t) PROVE ses'[s] = ses[s]
  BY <1>1, <1>10 DEF Serve, Select, Judge, JudgeFetches, FetchFills, FetchFails, FetchGone,
                     Close, Read, ReadFetches, Resume, Set
<1>11. \/ ses' = ses \/ Restart \/ \E t \in Sessions : Serve(t)
  BY DEF Next, vars, Arrive, RuleShifts, Retract, DecideHeld, ShowHeld
<1>12. \A m \in Mail : Read(s, m) => ses' = ses
  BY DEF Read
<1> QED BY <1>6, <1>7, <1>8, <1>9, <1>10, <1>11, <1>12 DEF Serve

LEMMA RemovedKeeps == ASSUME TypeOK, NEW n, Removed(n), NEW m \in Mail PROVE KeepsBody(m)
<1>1. recs'[m] = recs[m] \/ recs'[m] = [NoRecord EXCEPT !.state = "gone"]
  BY DEF Removed, TypeOK
<1> QED BY <1>1, NoRecordTyped DEF KeepsBody

(* The steps that assess nothing.                                          *)
LEMMA UnassessedStep ==
  ASSUME FaceInv, [Next]_vars, \A m \in Mail : ~Arrive(m), \A s \in Sessions : ~FetchFills(s)
  PROVE  heldOnce' = heldOnce /\ \A m \in Mail : KeepsBody(m)
<1>1. TypeOK
  BY DEF FaceInv
<1>2. ASSUME NEW n \in Mail, RuleShifts(n) \/ DecideHeld(n), NEW m \in Mail PROVE KeepsBody(m)
  <2>1. recs[m] \in Record /\ recs \in [Mail -> Record]
    BY <1>1 DEF TypeOK
  <2>2. \/ recs'[m] = recs[m] \/ \E rule : recs'[m] = [recs[m] EXCEPT !.rule = rule]
        \/ \E d : recs'[m] = [recs[m] EXCEPT !.decision = d]
    BY <1>2, <2>1 DEF RuleShifts, DecideHeld
  <2> QED BY <2>1, <2>2 DEF KeepsBody, Record
<1>3. ASSUME UNCHANGED recs PROVE \A m \in Mail : KeepsBody(m)
  BY <1>3 DEF KeepsBody
<1>4. ASSUME NEW s \in Sessions, Serve(s)
      PROVE  heldOnce' = heldOnce /\ (UNCHANGED recs \/ Removed(ses[s].fetch))
  BY <1>4 DEF Serve, Select, Judge, JudgeFetches, FetchFails, FetchGone, Close, Read, ReadFetches
<1>5. ASSUME NEW n \in Mail, RuleShifts(n) \/ DecideHeld(n) \/ Retract(n)
      PROVE  heldOnce' = heldOnce
  BY <1>5 DEF RuleShifts, DecideHeld, Retract
<1>6. CASE ShowHeld \/ Restart \/ UNCHANGED vars
  BY <1>3, <1>6 DEF ShowHeld, Restart, vars
<1>7. \A n \in Mail : Retract(n) => Removed(n)
  BY DEF Retract
<1> QED BY <1>1, <1>2, <1>3, <1>4, <1>5, <1>6, <1>7, RemovedKeeps DEF Next

LEMMA ArriveAssessed ==
  ASSUME ServeInv, TypeOK', NEW m \in Mail, Arrive(m) PROVE AssessedOnce'
<1>1. TypeOK /\ AssessedOnce /\ recs[m].state = "new" /\ ses' = ses
  BY DEF ServeInv, FaceInv, Arrive
<1>2. PICK r : /\ SetRecord(m, r) /\ r.state \in {"pending", "present"}
               /\ r.assess = "held" => r.state = "present"
  <2>1. PICK k \in {"plain", "daemon", "report", "own"}, a \in Dispositions, rule \in Rules :
          SetRecord(m, [kind |-> k,
               state |-> IF k = "own" \/ assessing THEN "present" ELSE "pending",
               assess |-> IF k = "own" THEN "none" ELSE a,
               decision |-> "none", rule |-> rule])
    BY DEF Arrive
  <2> DEFINE r == [kind |-> k,
                   state |-> IF k = "own" \/ assessing THEN "present" ELSE "pending",
                   assess |-> IF k = "own" THEN "none" ELSE a,
                   decision |-> "none", rule |-> rule]
  <2>2. r.state \in {"pending", "present"} /\ (r.assess = "held" => r.state = "present")
    BY DEF Dispositions
  <2> QED BY <2>1, <2>2
<1>3. recs'[m] = r /\ \A n \in Mail : n # m => recs'[n] = recs[n]
  BY <1>1, <1>2 DEF SetRecord, TypeOK
<1>4. m \notin heldOnce /\ heldOnce \subseteq Mail
  BY <1>1 DEF AssessedOnce, TypeOK
<1>5. heldOnce' = IF r.assess = "held" THEN heldOnce \cup {m} ELSE heldOnce
  BY <1>2 DEF SetRecord
<1>6. \A n \in heldOnce' : /\ recs'[n].state # "new" /\ recs'[n].state # "pending"
                           /\ Alive(recs'[n]) => recs'[n].assess = "held"
  BY <1>1, <1>2, <1>3, <1>4, <1>5 DEF AssessedOnce
<1>7. \A s \in Sessions : ses[s].fetch \in Mail \cup {NoMail}
  BY <1>1 DEF TypeOK, Session
<1>8. \A s \in Sessions : ses[s].fetch # NoMail => recs'[ses[s].fetch] = recs[ses[s].fetch]
  BY <1>1, <1>3, <1>7 DEF AssessedOnce
<1> QED BY <1>1, <1>6, <1>8 DEF AssessedOnce

(* The fetch that fills the body is the only one of its message, so the    *)
(* message had no disposition before.                                      *)
LEMMA FillAssessed ==
  ASSUME ServeInv, NoOverlap, FaceInv', NEW s \in Sessions, FetchFills(s), [Next]_vars
  PROVE  AssessedOnce' /\ ServedOnlyCleared'
<1> DEFINE m == ses[s].fetch
<1>1. /\ FaceInv /\ TypeOK /\ AssessedOnce /\ m # NoMail /\ m \in Mail /\ Alive(recs[m])
      /\ recs[m] \in Record
  BY FetchTyped DEF ServeInv, FaceInv, FetchFills, TypeOK
<1>2. PICK full : /\ SetRecord(m, full) /\ full.state = "present"
                  /\ \E spoof : Resume(s, spoof)
                  /\ out' # NoMail => out' = m /\ Servable(full)
  <2>1. PICK a \in Dispositions :
          LET full == [recs[m] EXCEPT !.state = "present", !.assess = a] IN
          /\ SetRecord(m, full)
          /\ Resume(s, Spoof(full) /\ ~Withheld(full))
          /\ out' = IF ses[s].pc = "open" /\ Servable(full) THEN m ELSE NoMail
    BY DEF FetchFills
  <2> DEFINE full == [recs[m] EXCEPT !.state = "present", !.assess = a]
  <2>2. full.state = "present"
    BY <1>1 DEF Record
  <2> HIDE DEF m
  <2>3. /\ SetRecord(m, full) /\ Resume(s, Spoof(full) /\ ~Withheld(full))
        /\ out' # NoMail => out' = m /\ Servable(full)
    BY <2>1 DEF m
  <2> QED BY <2>2, <2>3
<1>3. recs[m].state = "pending" /\ m \notin heldOnce /\ heldOnce \subseteq Mail
  BY <1>1 DEF AssessedOnce, Alive, TypeOK
<1>4. recs'[m] = full /\ \A n \in Mail : n # m => recs'[n] = recs[n]
  BY <1>1, <1>2 DEF SetRecord, TypeOK
<1>5. heldOnce' = IF full.assess = "held" THEN heldOnce \cup {m} ELSE heldOnce
  BY <1>2 DEF SetRecord
<1>6. \A n \in heldOnce' : /\ recs'[n].state # "new" /\ recs'[n].state # "pending"
                           /\ Alive(recs'[n]) => recs'[n].assess = "held"
  BY <1>1, <1>2, <1>3, <1>4, <1>5 DEF AssessedOnce
<1>7. ses'[s].fetch = NoMail /\ \A t \in Sessions : t # s => ses'[t] = ses[t]
  <2>1. ses \in [Sessions -> Session] /\ ses[s] \in Session
    BY <1>1 DEF TypeOK
  <2>2. \A spoof : JudgedView(ses[s], spoof).fetch = NoMail
    BY DEF JudgedView
  <2>3. [ses[s] EXCEPT !.fetch = NoMail].fetch = NoMail
    BY <2>1 DEF Session
  <2> QED BY <1>2, <2>1, <2>2, <2>3 DEF Resume, Set
<1>8. ASSUME NEW t \in Sessions, ses'[t].fetch # NoMail
      PROVE  recs'[ses'[t].fetch].state \in {"pending", "gone"}
  <2>1. t # s /\ ses'[t].fetch = ses[t].fetch /\ ses[t].fetch # m
    BY <1>1, <1>7, <1>8 DEF NoOverlap
  <2>2. ses[t].fetch \in Mail
    BY <1>1, <1>8, <2>1, FetchTyped
  <2> QED BY <1>1, <1>4, <1>8, <2>1, <2>2 DEF AssessedOnce
<1>9. ServedOnlyCleared'
  <2> SUFFICES ASSUME out' # NoMail
               PROVE  /\ out' \in heldOnce' => recs'[out'].decision = "approved"
                      /\ Spoof(recs'[out']) => holdSpoof' /\ recs'[out'].decision = "approved"
    BY DEF ServedOnlyCleared
  <2>1. out' = m /\ Servable(full) /\ holdSpoof' = holdSpoof
    BY <1>2 DEF FetchFills, conf
  <2>2. m \in heldOnce' => full.assess = "held"
    BY <1>3, <1>5
  <2> QED BY <1>4, <2>1, <2>2 DEF Servable, Withheld, GuardHides
<1> QED BY <1>6, <1>8, <1>9 DEF AssessedOnce

LEMMA ServeNext == ServeInv /\ NoOverlap /\ [Next]_vars => ServeInv'
<1> SUFFICES ASSUME ServeInv, NoOverlap, [Next]_vars PROVE ServeInv'
  OBVIOUS
<1>1. FaceInv /\ FaceInv' /\ TypeOK /\ TypeOK' /\ AssessedOnce
  BY FaceNext DEF ServeInv, FaceInv
<1>2. CASE \E s \in Sessions : FetchFills(s)
  BY <1>1, <1>2, FillAssessed DEF ServeInv
<1>3. CASE \E m \in Mail : Arrive(m)
  <2>1. out' = NoMail
    BY <1>3 DEF Arrive
  <2> QED BY <1>1, <1>3, <2>1, ArriveAssessed DEF ServeInv, ServedOnlyCleared
<1>4. CASE ~(\E s \in Sessions : FetchFills(s)) /\ ~(\E m \in Mail : Arrive(m))
  <2>1. AssessedOnce'
    BY <1>1, <1>4, UnassessedStep, FetchCases, AssessedStays
  <2>2. CASE \E s \in Sessions, m \in Mail : Read(s, m)
    <3>1. PICK s \in Sessions, m \in Mail : Read(s, m)
      BY <2>2
    <3>2. /\ UNCHANGED <<recs, heldOnce, holdSpoof>> /\ recs[m].state = "present"
          /\ out' # NoMail => out' = m /\ Servable(recs[m])
      BY <3>1 DEF Read, conf
    <3>3. m \in heldOnce => recs[m].assess = "held"
      BY <1>1, <3>2 DEF AssessedOnce, Alive
    <3> QED BY <1>1, <2>1, <3>2, <3>3 DEF ServeInv, ServedOnlyCleared, Servable, Withheld, GuardHides
  <2>3. CASE out' = NoMail
    BY <1>1, <2>1, <2>3 DEF ServeInv, ServedOnlyCleared
  <2>4. CASE UNCHANGED vars
    BY <1>1, <2>1, <2>4 DEF vars, ServeInv, ServedOnlyCleared
  <2>5. \/ UNCHANGED vars \/ out' = NoMail \/ \E s \in Sessions, m \in Mail : Read(s, m)
    BY <1>4 DEF Next, Serve, RuleShifts, Retract, DecideHeld, ShowHeld, Restart, Select, Judge,
                JudgeFetches, FetchFails, FetchGone, Close, ReadFetches
  <2> QED BY <2>2, <2>3, <2>4, <2>5
<1> QED BY <1>2, <1>3, <1>4

LEMMA ServeInit == Init => ServeInv
<1> SUFFICES ASSUME Init PROVE ServeInv
  OBVIOUS
<1>1. FaceInv
  BY FaceInit
<1>2. \A s \in Sessions : ses[s].fetch = NoMail
  BY DEF Init, NoSession
<1> QED BY <1>1, <1>2 DEF Init, ServeInv, AssessedOnce, ServedOnlyCleared

(* Every state of the read face has its declared types.                    *)
THEOREM FaceTypeCorrect == Spec => []TypeOK
<1>1. FaceInv => TypeOK
  BY DEF FaceInv
<1> QED BY <1>1, FaceInit, FaceNext, PTL DEF Spec

(* A message an assessment ever held, and an unsigned bounce, are served   *)
(* only after the operator exposed them, for any number of messages and    *)
(* sessions, as long as no two sessions fetch the same message at once:    *)
(* the second assessment would replace the first (FetchContent,            *)
(* SetContentAssessed).                                                    *)
THEOREM ServedCleared == Spec /\ []NoOverlap => []ServedOnlyCleared
<1>1. ServeInv => ServedOnlyCleared
  BY DEF ServeInv
<1>2. ServeInv /\ NoOverlap /\ [Next]_vars => ServeInv'
  BY ServeNext
<1> QED BY <1>1, <1>2, ServeInit, PTL DEF Spec

(* In particular with one session, the setting of the readface run.        *)
THEOREM ServedClearedAlone ==
  ASSUME \A s, t \in Sessions : s = t PROVE Spec => []ServedOnlyCleared
<1>1. NoOverlap
  BY DEF NoOverlap
<1>2. Spec => []NoOverlap
  BY <1>1, PTL
<1> QED BY <1>2, ServedCleared, PTL
=============================================================================
