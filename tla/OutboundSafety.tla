--------------------------- MODULE OutboundSafety ---------------------------
(***************************************************************************)
(* Further theorems about Outbound: what may leave, through which inbox    *)
(* and with which body, who holds a claim, and what no handler may undo.   *)
(* OutboundProofs' invariant IInv says which handlers exclude each other;  *)
(* here every step is first shown to let the records, bodies, histories    *)
(* and handlers evolve in a few named ways, and the invariants follow from *)
(* those alone.                                                            *)
(***************************************************************************)
EXTENDS OutboundProofs

(* Who released a record: the chain, or the bypass for operators only.     *)
ReleasedBy(r) ==
    \/ r.decidedBy = "chain"
    \/ r.decidedBy = "bypass" /\ r.sub.rcpt \subseteq OperatorIds

Out == {"approved", "sent"}

(* A bypass handler owns the message it enqueued, for operators only.      *)
BypassOwn(t) ==
    thr[t].op = "bypass" =>
        /\ recs[thr[t].id].status # "absent"
        /\ recs[thr[t].id].sub.rcpt \subseteq OperatorIds

(* The inbox a handler carries to its send is still the approved one.      *)
Carrying == {"claim", "send", "record"}

InboxCarried(t) ==
    thr[t].pc \in Carrying =>
        /\ recs[thr[t].id].status \in Out
        /\ thr[t].via = SendInbox(recs[thr[t].id])

(* The deliveries of a message, by what its record says.                   *)
ViasApproved(id) ==
    /\ recs[id].status \notin Out => vias[id] = {}
    /\ recs[id].status \in Out => vias[id] \subseteq {SendInbox(recs[id])}

Resends(t, id) == Sending(t) /\ thr[t].op = "resend" /\ thr[t].id = id

ClaimOwned ==
    phase = "up" /\ "disk" \notin Faults =>
        \A id \in Ids : recs[id].claim => \E t \in Threads : Resends(t, id)

SInv ==
    /\ ContentMatchesRecord
    /\ \A id \in Ids : recs[id].status \in Out => ReleasedBy(recs[id])
    /\ \A id \in Ids : ViasApproved(id)
    /\ \A t \in Threads : BypassOwn(t) /\ InboxCarried(t)
    /\ ClaimOwned
-----------------------------------------------------------------------------
(* How one step may change a record: not at all; from nothing to pending;  *)
(* by a verdict on a pending record; or, once approved, in the outcome and *)
(* the claim only.                                                         *)
RecordEvolves(r, s) ==
    \/ s = r
    \/ r = NoRecord /\ s.status = "pending"
    \/ /\ r.status = "pending" /\ s.sub = r.sub
       /\ s.status = "rejected" \/ (s.status = "approved" /\ ReleasedBy(s))
    \/ /\ r.status = "approved" /\ s.status \in Out
       /\ s.sub = r.sub /\ s.decidedBy = r.decidedBy /\ s.asInbox = r.asInbox

(* The body under a record is the one it had, or the one it came with.     *)
ContentEvolves(id) ==
    recs'[id].status # "absent" =>
        \/ blobs'[id] = recs'[id].sub
        \/ recs[id].status # "absent" /\ blobs'[id] = blobs[id] /\ recs'[id].sub = recs[id].sub

(* A delivery is made by a handler at its send, through the inbox it       *)
(* carries.                                                                *)
ViaEvolves(id) ==
    \/ vias'[id] = vias[id]
    \/ /\ recs'[id] = recs[id]
       /\ \E t \in Threads : /\ thr[t].pc = "send" /\ thr[t].id = id
                             /\ vias'[id] = vias[id] \cup {thr[t].via}

StoreEvolves ==
    \A id \in Ids : /\ RecordEvolves(recs[id], recs'[id])
                    /\ ContentEvolves(id)
                    /\ ViaEvolves(id)

(* A handler keeps its message and inbox from step to step, or establishes *)
(* what they must satisfy.                                                 *)
ThreadEvolves(t) ==
    /\ \/ thr'[t].op = thr[t].op /\ thr'[t].id = thr[t].id
       \/ BypassOwn(t)'
    /\ \/ thr'[t].pc \in Carrying => /\ thr[t].pc \in Carrying
                                     /\ thr'[t].id = thr[t].id
                                     /\ thr'[t].via = thr[t].via
       \/ InboxCarried(t)'

(* A claim appears with its re-send, and a re-send ends with its claim,    *)
(* unless the disk fails.                                                  *)
ClaimsEvolve ==
    /\ phase' = "up" => phase = "up" \/ \A id \in Ids : ~recs'[id].claim
    /\ \A id \in Ids : recs'[id].claim => recs[id].claim \/ \E t \in Threads : Resends(t, id)'
    /\ \A t \in Threads, id \in Ids : Resends(t, id) =>
         \/ Resends(t, id)' \/ ~recs'[id].claim
         \/ phase' # "up" \/ "disk" \in Faults

Evolves == StoreEvolves /\ (\A t \in Threads : ThreadEvolves(t)) /\ ClaimsEvolve

(* The invariants follow from the ways of evolving alone.                  *)
LEMMA EvolvesKeeps ==
  ASSUME IInv, SInv, Evolves PROVE SInv'
<1>1. \A t \in Threads : thr[t].id \in Ids
  BY DEF IInv, TypeOK, Thread
<1>2. NoRecord.status = "absent"
  BY DEF NoRecord
<1>3. ContentMatchesRecord'
  BY DEF Evolves, StoreEvolves, ContentEvolves, SInv, ContentMatchesRecord, Live
<1>4. \A id \in Ids : recs'[id].status \in Out => ReleasedBy(recs'[id])
  <2> SUFFICES ASSUME NEW id \in Ids, recs'[id].status \in Out PROVE ReleasedBy(recs'[id])
    OBVIOUS
  <2>1. CASE recs[id].status = "approved" /\ recs'[id].sub = recs[id].sub
             /\ recs'[id].decidedBy = recs[id].decidedBy
    BY <2>1 DEF SInv, ReleasedBy, Out
  <2>2. CASE recs'[id] = recs[id]
    BY <2>2 DEF SInv
  <2> QED BY <2>1, <2>2 DEF Evolves, StoreEvolves, RecordEvolves, Out
(* The inbox of a record that may leave never changes.                     *)
<1>5. \A id \in Ids : recs[id].status \in Out =>
         recs'[id].status \in Out /\ SendInbox(recs'[id]) = SendInbox(recs[id])
  BY <1>2 DEF Evolves, StoreEvolves, RecordEvolves, Out, SendInbox
<1>6. \A id \in Ids : ViasApproved(id)'
  <2> SUFFICES ASSUME NEW id \in Ids PROVE ViasApproved(id)'
    OBVIOUS
  <2>1. CASE vias'[id] = vias[id]
    BY <1>5, <2>1 DEF SInv, ViasApproved
  <2>2. ASSUME recs'[id] = recs[id], NEW t \in Threads, thr[t].pc = "send",
               thr[t].id = id, vias'[id] = vias[id] \cup {thr[t].via}
        PROVE  ViasApproved(id)'
    <3>1. recs[id].status \in Out /\ thr[t].via = SendInbox(recs[id])
      BY <2>2 DEF SInv, InboxCarried, Carrying
    <3> QED BY <2>2, <3>1 DEF SInv, ViasApproved
  <2> QED BY <2>1, <2>2 DEF Evolves, StoreEvolves, ViaEvolves
<1>7. ASSUME NEW t \in Threads PROVE BypassOwn(t)' /\ InboxCarried(t)'
  <2>1. thr[t].id \in Ids /\ ThreadEvolves(t) /\ BypassOwn(t) /\ InboxCarried(t)
    BY <1>1 DEF Evolves, SInv
  <2>2. recs[thr[t].id].status # "absent" =>
          recs'[thr[t].id].status # "absent" /\ recs'[thr[t].id].sub = recs[thr[t].id].sub
    BY <1>2, <2>1 DEF Evolves, StoreEvolves, RecordEvolves, Out
  <2>3. BypassOwn(t)'
    BY <2>1, <2>2 DEF ThreadEvolves, BypassOwn
  <2>4. InboxCarried(t)'
    BY <1>5, <2>1 DEF ThreadEvolves, InboxCarried
  <2> QED BY <2>3, <2>4
<1>8. ClaimOwned'
  BY DEF Evolves, ClaimsEvolve, SInv, ClaimOwned
<1> QED BY <1>3, <1>4, <1>6, <1>7, <1>8 DEF SInv
-----------------------------------------------------------------------------
(* The fields IInv did not need.                                           *)
LEMMA VerdictField ==
  ASSUME NEW r \in Message, NEW by \in {"chain", "bypass"}, NEW as \in Inboxes \cup {NoInbox}
  PROVE  Approved(r, by, as).decidedBy = by
  BY DEF Approved, Message

LEMMA OutcomeFields ==
  ASSUME NEW r \in Message, NEW res \in Results,
         NEW s \in {Attempted(r, res), Claimed(r), Interrupted(r)}
  PROVE  s.decidedBy = r.decidedBy /\ s.asInbox = r.asInbox
  BY DEF Attempted, Claimed, Interrupted, Message

(* One handler's step, its parts put together.                             *)
LEMMA HandlerEvolves ==
  ASSUME NEW t \in Threads, phase' = phase,
         \A s \in Threads \ {t} : thr'[s] = thr[s],
         StoreEvolves, ThreadEvolves(t),
         \A id \in Ids : recs'[id].claim => recs[id].claim \/ Resends(t, id)',
         \A id \in Ids : Resends(t, id) =>
             Resends(t, id)' \/ ~recs'[id].claim \/ "disk" \in Faults
  PROVE  Evolves
<1>1. \A s \in Threads : ThreadEvolves(s)
  BY DEF ThreadEvolves
<1>2. \A s \in Threads \ {t}, id \in Ids : Resends(s, id) => Resends(s, id)'
  BY DEF Resends, Sending
<1>3. ClaimsEvolve
  BY <1>2 DEF ClaimsEvolve
<1> QED BY <1>1, <1>3 DEF Evolves

LEMMA SteadyStore == ASSUME UNCHANGED <<recs, blobs, vias>> PROVE StoreEvolves
  BY DEF StoreEvolves, RecordEvolves, ContentEvolves, ViaEvolves

LEMMA PutEvolves ==
  ASSUME TypeOK, NEW id \in Ids, NEW r \in Message, Put(id, r), UNCHANGED vias,
         RecordEvolves(recs[id], r), recs[id].status # "absent", r.sub = recs[id].sub
  PROVE  StoreEvolves
<1>1. recs'[id] = r /\ \A j \in Ids \ {id} : recs'[j] = recs[j]
  BY PutType DEF TypeOK
<1>2. blobs' = blobs
  BY DEF Put
<1> QED BY <1>1, <1>2 DEF StoreEvolves, RecordEvolves, ContentEvolves, ViaEvolves

LEMMA ReturnEvolves ==
  ASSUME TypeOK, NEW t \in Threads, Return(t)
  PROVE  /\ ThreadEvolves(t)
         /\ \A s \in Threads \ {t} : thr'[s] = thr[s]
<1>1. thr'[t] = Idle /\ \A s \in Threads \ {t} : thr'[s] = thr[s]
  BY DEF Return, TypeOK
<1> QED BY <1>1 DEF Idle, ThreadEvolves, BypassOwn, Carrying

(* A handler that gives up without a write: nothing of it was in flight,   *)
(* or the disk failed.                                                     *)
LEMMA GivesUpEvolves ==
  ASSUME TypeOK, NEW t \in Threads, Return(t), UNCHANGED <<sluiceVars, histVars, procVars>>,
         Sending(t) => "disk" \in Faults
  PROVE  Evolves
<1>1. StoreEvolves
  BY SteadyStore DEF sluiceVars, histVars
<1>2. phase' = phase /\ recs' = recs
  BY DEF procVars, sluiceVars
<1> QED BY <1>1, <1>2, ReturnEvolves, HandlerEvolves DEF Resends

(* A handler that goes on, with the same message and inbox, short of its   *)
(* send.                                                                   *)
LEMMA GotoEvolves ==
  ASSUME TypeOK, NEW t \in Threads, NEW pc \in {"commit", "bounce", "send"}, Goto(t, pc),
         pc = "send" => thr[t].pc = "claim"
  PROVE  /\ ThreadEvolves(t)
         /\ thr'[t] = [thr[t] EXCEPT !.pc = pc]
         /\ \A s \in Threads \ {t} : thr'[s] = thr[s]
<1>1. thr[t] \in Thread
  BY DEF TypeOK
<1>2. /\ thr'[t] = [thr[t] EXCEPT !.pc = pc]
      /\ \A s \in Threads \ {t} : thr'[s] = thr[s]
  BY DEF Goto, TypeOK
<1>3. thr'[t].pc = pc /\ thr'[t].op = thr[t].op /\ thr'[t].id = thr[t].id /\ thr'[t].via = thr[t].via
  BY <1>1, <1>2 DEF Thread
<1> QED BY <1>2, <1>3 DEF ThreadEvolves, Carrying
-----------------------------------------------------------------------------
(* One lemma per action.                                                   *)

LEMMA SubmitEvolves ==
  ASSUME IInv, NEW t \in Threads, NEW sub \in Submissions, Submit(t, sub)
  PROVE  Evolves
<1>1. /\ TypeOK /\ SluiceTypeOK /\ thr \in [Threads -> Thread]
      /\ phase' = phase /\ thr[t].pc = "idle" /\ vias' = vias
  BY DEF IInv, TypeOK, Submit, Running, procVars, histVars
<1>2. seq + 1 \in Ids /\ seq \in Nat
  BY <1>1, FreshId DEF Submit, Enqueue, SluiceTypeOK
<1>3. /\ recs'[seq + 1] = NewRecord(sub) /\ blobs'[seq + 1] = sub
      /\ \A j \in Ids \ {seq + 1} : recs'[j] = recs[j] /\ blobs'[j] = blobs[j]
  BY <1>1, <1>2 DEF Submit, Enqueue, SluiceTypeOK
<1>4. recs[seq + 1] = NoRecord
  BY <1>2 DEF IInv, StoreInv
<1>5. NewRecord(sub).status = "pending" /\ NewRecord(sub).sub = sub /\ ~NewRecord(sub).claim
  BY DEF NewRecord, NoRecord
<1>6. StoreEvolves
  BY <1>1, <1>3, <1>4, <1>5 DEF StoreEvolves, RecordEvolves, ContentEvolves, ViaEvolves
<1>7. ThreadEvolves(t) /\ \A s \in Threads \ {t} : thr'[s] = thr[s]
  <2>1. CASE AllMatch(sub.rcpt)
    <3>1. /\ thr'[t] = [pc |-> "commit", op |-> "bypass", id |-> seq + 1, as |-> NoInbox,
                        ack |-> FALSE, via |-> NoInbox, res |-> "none"]
          /\ \A s \in Threads \ {t} : thr'[s] = thr[s]
      BY <1>1, <2>1 DEF Submit, Start
    <3>2. sub.rcpt \subseteq OperatorIds
      BY <2>1 DEF AllMatch
    <3> QED BY <1>3, <1>5, <3>1, <3>2 DEF ThreadEvolves, BypassOwn, Carrying
  <2>2. CASE ~AllMatch(sub.rcpt)
    BY <2>2 DEF Submit, ThreadEvolves
  <2> QED BY <2>1, <2>2
<1>8. \A id \in Ids : recs'[id].claim => recs[id].claim
  BY <1>3, <1>5
<1>9. ~Sending(t)
  BY <1>1 DEF Sending
<1> QED BY <1>1, <1>6, <1>7, <1>8, <1>9, HandlerEvolves DEF Resends

LEMMA SubmitFailsEvolves ==
  ASSUME IInv, NEW t \in Threads, NEW sub \in Submissions, SubmitFails(t, sub)
  PROVE  Evolves
<1>1. /\ TypeOK /\ SluiceTypeOK /\ thr' = thr
      /\ phase' = phase /\ vias' = vias /\ recs' = recs
  BY DEF IInv, TypeOK, SubmitFails, EnqueueRolledBack, procVars, histVars
<1>2. seq + 1 \in Ids /\ seq \in Nat
  BY <1>1, FreshId DEF SubmitFails, EnqueueRolledBack, SluiceTypeOK
<1>3. \A j \in Ids \ {seq + 1} : blobs'[j] = blobs[j]
  BY <1>1, <1>2 DEF SubmitFails, EnqueueRolledBack, SluiceTypeOK
<1>4. recs[seq + 1].status = "absent"
  BY <1>2 DEF IInv, StoreInv, NoRecord
<1>5. StoreEvolves
  BY <1>1, <1>3, <1>4 DEF StoreEvolves, RecordEvolves, ContentEvolves, ViaEvolves
<1> QED BY <1>1, <1>5, HandlerEvolves DEF ThreadEvolves, Resends, Sending

LEMMA BeginEvolves ==
  ASSUME IInv, NEW t \in Threads, NEW id \in Ids, NEW as \in Inboxes \cup {NoInbox},
         NEW ack \in BOOLEAN,
         BeginApprove(t, id, as) \/ BeginReject(t, id) \/ BeginResend(t, id, ack)
  PROVE  Evolves
<1>1. /\ thr \in [Threads -> Thread] /\ thr[t].pc = "idle"
      /\ UNCHANGED <<recs, blobs, vias, phase>>
  BY DEF IInv, TypeOK, BeginApprove, BeginReject, BeginResend, Running,
         sluiceVars, procVars, histVars
<1>2. StoreEvolves
  BY <1>1, SteadyStore
<1>3. ASSUME NEW op \in {"approve", "reject"}, NEW as2, NEW via,
             Start(t, op, id, as2, FALSE, via, "decide")
      PROVE  ThreadEvolves(t) /\ \A s \in Threads \ {t} : thr'[s] = thr[s]
  <2>1. /\ thr'[t] = [pc |-> "decide", op |-> op, id |-> id, as |-> as2,
                      ack |-> FALSE, via |-> via, res |-> "none"]
        /\ \A s \in Threads \ {t} : thr'[s] = thr[s]
    BY <1>1, <1>3 DEF Start
  <2> QED BY <2>1 DEF ThreadEvolves, BypassOwn, Carrying
<1>4. ASSUME BeginResend(t, id, ack)
      PROVE  ThreadEvolves(t) /\ \A s \in Threads \ {t} : thr'[s] = thr[s]
  <2>1. /\ thr'[t] = [pc |-> "claim", op |-> "resend", id |-> id, as |-> recs[id].asInbox,
                      ack |-> ack, via |-> SendInbox(recs[id]), res |-> "none"]
        /\ \A s \in Threads \ {t} : thr'[s] = thr[s]
    BY <1>1, <1>4 DEF BeginResend, Start
  <2>2. recs'[id].status = "approved" /\ SendInbox(recs'[id]) = SendInbox(recs[id])
    BY <1>1, <1>4 DEF BeginResend, Resendable
  <2> QED BY <2>1, <2>2 DEF ThreadEvolves, BypassOwn, InboxCarried, Out
<1>5. ThreadEvolves(t) /\ \A s \in Threads \ {t} : thr'[s] = thr[s]
  BY <1>3, <1>4 DEF BeginApprove, BeginReject
<1>6. ~Sending(t)
  BY <1>1 DEF Sending
<1> QED BY <1>1, <1>2, <1>5, <1>6, HandlerEvolves DEF Resends

LEMMA DecideEvolves ==
  ASSUME IInv, NEW t \in Threads, Decide(t) PROVE Evolves
<1>1. /\ TypeOK /\ ~Sending(t) /\ UNCHANGED <<sluiceVars, procVars, histVars>>
      /\ Goto(t, "commit") \/ Return(t)
  BY DEF IInv, Decide, Running, Sending
<1>2. CASE Return(t)
  BY <1>1, <1>2, GivesUpEvolves
<1>3. CASE Goto(t, "commit")
  <2>1. ThreadEvolves(t) /\ \A s \in Threads \ {t} : thr'[s] = thr[s]
    BY <1>1, <1>3, GotoEvolves
  <2>2. StoreEvolves /\ recs' = recs /\ phase' = phase
    BY <1>1, SteadyStore DEF sluiceVars, histVars, procVars
  <2> QED BY <1>1, <2>1, <2>2, HandlerEvolves DEF Resends
<1> QED BY <1>1, <1>2, <1>3

(* The bypass releases only what its own handler enqueued for operators.   *)
LEMMA ApproveEvolves ==
  ASSUME IInv, NEW t \in Threads, BypassOwn(t), ApproveVerdict(t) \/ BypassVerdict(t)
  PROVE  Evolves
<1>1. PICK op \in {"approve", "bypass"}, by \in {"chain", "bypass"} :
         CommitApprove(t, op, by) /\ (by = "bypass" => op = "bypass")
  BY DEF ApproveVerdict, BypassVerdict
<1> DEFINE id == thr[t].id
           r == Approved(recs[id], by, thr[t].as)
<1>2. /\ TypeOK /\ thr \in [Threads -> Thread] /\ thr[t] \in Thread
      /\ id \in Ids /\ recs[id] \in Message /\ thr[t].as \in Inboxes \cup {NoInbox}
      /\ UNCHANGED procVars /\ phase' = phase /\ thr[t].op = op /\ ~Sending(t)
  BY <1>1 DEF IInv, TypeOK, SluiceTypeOK, CommitApprove, Running, Thread, Sending, procVars
<1>3. CASE Return(t) /\ UNCHANGED <<sluiceVars, histVars>>
  BY <1>2, <1>3, GivesUpEvolves
<1>4. CASE /\ Pending(id) /\ Put(id, r) /\ UNCHANGED histVars
           /\ \/ Return(t)
              \/ thr' = [thr EXCEPT ![t] =
                           [@ EXCEPT !.pc = "send", !.via = SendInbox(recs'[id])]]
  <2>1. /\ r \in Message /\ r.status = "approved" /\ r.sub = recs[id].sub
        /\ r.claim = recs[id].claim /\ r.decidedBy = by
    BY <1>2, ApprovedType, VerdictField
  <2>2. recs'[id] = r /\ \A j \in Ids \ {id} : recs'[j] = recs[j]
    BY <1>2, <1>4, <2>1, PutType DEF TypeOK
  <2> HIDE DEF r
  <2>3. ReleasedBy(r)
    BY <1>1, <1>2, <2>1 DEF ReleasedBy, BypassOwn
  <2>4. StoreEvolves
    <3>1. RecordEvolves(recs[id], r) /\ recs[id].status # "absent"
      BY <1>4, <2>1, <2>3 DEF Pending, RecordEvolves
    <3> QED BY <1>2, <1>4, <2>1, <3>1, PutEvolves DEF histVars
  <2>5. \A j \in Ids : recs'[j].claim => recs[j].claim
    BY <2>1, <2>2
  <2>6. ThreadEvolves(t) /\ \A s \in Threads \ {t} : thr'[s] = thr[s]
    <3>1. CASE Return(t)
      BY <1>2, <3>1, ReturnEvolves
    <3>2. CASE thr' = [thr EXCEPT ![t] =
                         [@ EXCEPT !.pc = "send", !.via = SendInbox(recs'[id])]]
      <4>1. /\ thr'[t] = [thr[t] EXCEPT !.pc = "send", !.via = SendInbox(recs'[id])]
            /\ \A s \in Threads \ {t} : thr'[s] = thr[s]
        BY <1>2, <3>2
      <4>2. /\ thr'[t].op = thr[t].op /\ thr'[t].id = id
            /\ thr'[t].via = SendInbox(recs'[id])
        BY <1>2, <4>1 DEF Thread
      <4>3. InboxCarried(t)'
        BY <2>1, <2>2, <4>2 DEF InboxCarried, Out
      <4> QED BY <4>1, <4>2, <4>3 DEF ThreadEvolves
    <3> QED BY <1>4, <3>1, <3>2
  <2> QED BY <1>2, <2>4, <2>5, <2>6, HandlerEvolves DEF Resends
<1> QED BY <1>1, <1>3, <1>4 DEF CommitApprove, Approve, TxFails

LEMMA RejectEvolves ==
  ASSUME IInv, NEW t \in Threads, RejectVerdict(t)
  PROVE  Evolves
<1> DEFINE id == thr[t].id
           r == Rejected(recs[id])
<1>1. /\ TypeOK /\ id \in Ids /\ recs[id] \in Message
      /\ UNCHANGED procVars /\ phase' = phase /\ ~Sending(t)
  BY DEF IInv, TypeOK, SluiceTypeOK, RejectVerdict, Running, Thread, Sending, procVars
<1>2. CASE Return(t) /\ UNCHANGED <<sluiceVars, histVars>>
  BY <1>1, <1>2, GivesUpEvolves
<1>3. CASE /\ Pending(id) /\ Put(id, r) /\ UNCHANGED histVars
           /\ Return(t) \/ Goto(t, "bounce")
  <2>1. /\ r \in Message /\ r.status = "rejected" /\ r.sub = recs[id].sub
        /\ r.claim = recs[id].claim
    BY <1>1, RejectedType
  <2>2. recs'[id] = r /\ \A j \in Ids \ {id} : recs'[j] = recs[j]
    BY <1>1, <1>3, <2>1, PutType DEF TypeOK
  <2> HIDE DEF r
  <2>3. StoreEvolves
    <3>1. RecordEvolves(recs[id], r) /\ recs[id].status # "absent"
      BY <1>3, <2>1 DEF Pending, RecordEvolves
    <3> QED BY <1>1, <1>3, <2>1, <3>1, PutEvolves DEF histVars
  <2>4. \A j \in Ids : recs'[j].claim => recs[j].claim
    BY <2>1, <2>2
  <2>5. ThreadEvolves(t) /\ \A s \in Threads \ {t} : thr'[s] = thr[s]
    BY <1>1, <1>3, ReturnEvolves, GotoEvolves
  <2> QED BY <1>1, <2>3, <2>4, <2>5, HandlerEvolves DEF Resends
<1> QED BY <1>2, <1>3 DEF RejectVerdict, Reject, TxFails

LEMMA ClaimEvolves ==
  ASSUME IInv, NEW t \in Threads, Claim(t)
  PROVE  Evolves
<1> DEFINE id == thr[t].id
           r == Claimed(recs[id])
<1>1. /\ TypeOK /\ thr[t] \in Thread /\ id \in Ids /\ recs[id] \in Message
      /\ UNCHANGED procVars /\ phase' = phase /\ ~Sending(t)
      /\ thr[t].pc = "claim" /\ thr[t].op = "resend"
  BY DEF IInv, TypeOK, SluiceTypeOK, Claim, Running, Thread, Sending, procVars
<1>2. CASE Return(t) /\ UNCHANGED <<sluiceVars, histVars>>
  BY <1>1, <1>2, GivesUpEvolves
<1>3. CASE /\ Resendable(id) /\ Put(id, r) /\ Goto(t, "send")
           /\ UNCHANGED <<copies, vias, bounced>>
  <2>1. /\ r \in Message /\ r.status = recs[id].status /\ r.sub = recs[id].sub
        /\ r.decidedBy = recs[id].decidedBy /\ r.asInbox = recs[id].asInbox
    <3>1. "ok" \in Results
      BY DEF Results
    <3> QED BY <1>1, <3>1, ClaimedType, OutcomeFields
  <2>2. recs'[id] = r /\ \A j \in Ids \ {id} : recs'[j] = recs[j]
    BY <1>1, <1>3, <2>1, PutType DEF TypeOK
  <2> HIDE DEF r
  <2>3. StoreEvolves
    <3>1. RecordEvolves(recs[id], r) /\ recs[id].status # "absent"
      BY <1>3, <2>1 DEF Resendable, RecordEvolves, Out
    <3> QED BY <1>1, <1>3, <2>1, <3>1, PutEvolves
  <2>4. /\ ThreadEvolves(t) /\ \A s \in Threads \ {t} : thr'[s] = thr[s]
        /\ thr'[t] = [thr[t] EXCEPT !.pc = "send"]
    BY <1>1, <1>3, GotoEvolves
  <2>5. \A j \in Ids : j = id => Resends(t, j)'
    BY <1>1, <2>4 DEF Resends, Sending, Thread
  <2>6. \A j \in Ids : recs'[j].claim => recs[j].claim \/ Resends(t, j)'
    BY <2>2, <2>5
  <2> QED BY <1>1, <2>3, <2>4, <2>6, HandlerEvolves DEF Resends
<1> QED BY <1>2, <1>3 DEF Claim, ClaimResend, Claimable, TxFails

LEMMA SendEvolves ==
  ASSUME IInv, NEW t \in Threads, Send(t)
  PROVE  Evolves
<1>1. PICK res \in {"ok", "unknown", "permanent", "failed"}, delivered \in BOOLEAN :
         SendAs(t, thr[t].via, res, delivered)
  BY SendCases DEF IInv
<1>2. /\ TypeOK /\ thr \in [Threads -> Thread] /\ thr[t] \in Thread /\ thr[t].id \in Ids
      /\ thr[t].pc = "send" /\ UNCHANGED <<recs, blobs, phase>> /\ vias \in [Ids -> SUBSET Inboxes]
  BY <1>1 DEF IInv, TypeOK, SendAs, Thread, sluiceVars, procVars
<1>3. /\ thr'[t] = [thr[t] EXCEPT !.pc = "record", !.res = res]
      /\ \A s \in Threads \ {t} : thr'[s] = thr[s]
  BY <1>1, <1>2 DEF SendAs
<1>4. /\ thr'[t].pc = "record" /\ thr'[t].op = thr[t].op /\ thr'[t].id = thr[t].id
      /\ thr'[t].via = thr[t].via
  BY <1>2, <1>3 DEF Thread
<1>5. \A id \in Ids : ViaEvolves(id)
  <2>1. \A id \in Ids :
          \/ vias'[id] = vias[id]
          \/ id = thr[t].id /\ vias'[id] = vias[id] \cup {thr[t].via}
    BY <1>1, <1>2 DEF SendAs
  <2> QED BY <1>2, <2>1 DEF ViaEvolves
<1>6. StoreEvolves
  BY <1>2, <1>5 DEF StoreEvolves, RecordEvolves, ContentEvolves
<1>7. ThreadEvolves(t)
  BY <1>2, <1>4 DEF ThreadEvolves, Carrying
<1>8. \A id \in Ids : Resends(t, id) => Resends(t, id)'
  BY <1>4 DEF Resends, Sending
<1> QED BY <1>2, <1>3, <1>6, <1>7, <1>8, HandlerEvolves

(* Recording releases the claim of the one re-send that could hold it.     *)
LEMMA RecordingEvolves ==
  ASSUME IInv, NEW t \in Threads, Record(t)
  PROVE  Evolves
<1> DEFINE id == thr[t].id
           r == Attempted(recs[id], thr[t].res)
<1>1. /\ TypeOK /\ id \in Ids /\ recs[id] \in Message /\ thr[t].res \in Results
      /\ UNCHANGED procVars /\ phase' = phase /\ Sending(t)
  BY DEF IInv, TypeOK, SluiceTypeOK, Record, Thread, Sending, procVars
<1>2. recs[id].status = "approved" /\ Recordable(id, thr[t].res)
  BY <1>1 DEF IInv, ThreadInv, Exclusive, Recordable
<1>3. CASE TxFails(t)
  BY <1>1, <1>3, GivesUpEvolves DEF TxFails
<1>4. CASE /\ Put(id, r) /\ UNCHANGED histVars
           /\ Return(t) \/ Goto(t, "bounce")
  <2>1. /\ r \in Message /\ r.sub = recs[id].sub /\ ~r.claim
        /\ r.status \in Out
        /\ r.decidedBy = recs[id].decidedBy /\ r.asInbox = recs[id].asInbox
    BY <1>1, <1>2, AttemptedType, OutcomeFields DEF Out
  <2>2. recs'[id] = r /\ \A j \in Ids \ {id} : recs'[j] = recs[j]
    BY <1>1, <1>4, <2>1, PutType DEF TypeOK
  <2> HIDE DEF r
  <2>3. StoreEvolves
    <3>1. RecordEvolves(recs[id], r) /\ recs[id].status # "absent"
      BY <1>2, <2>1 DEF RecordEvolves
    <3> QED BY <1>1, <1>4, <2>1, <3>1, PutEvolves DEF histVars
  <2>4. ThreadEvolves(t) /\ \A s \in Threads \ {t} : thr'[s] = thr[s]
    BY <1>1, <1>4, ReturnEvolves, GotoEvolves
  <2>5. /\ \A j \in Ids : recs'[j].claim => recs[j].claim
        /\ \A j \in Ids : Resends(t, j) => ~recs'[j].claim
    BY <2>1, <2>2 DEF Resends
  <2> QED BY <1>1, <2>3, <2>4, <2>5, HandlerEvolves
<1> QED BY <1>2, <1>3, <1>4 DEF Record, RecordSendAttempt

LEMMA BounceEvolves ==
  ASSUME IInv, NEW t \in Threads, Bounce(t) PROVE Evolves
<1>1. /\ TypeOK /\ ~Sending(t) /\ Return(t) /\ UNCHANGED <<recs, blobs, vias, phase>>
  BY DEF IInv, Bounce, Sending, sluiceVars, procVars
<1>2. StoreEvolves
  BY <1>1, SteadyStore
<1> QED BY <1>1, <1>2, ReturnEvolves, HandlerEvolves DEF Resends

LEMMA CrashEvolves ==
  ASSUME IInv, Crash PROVE Evolves
<1>1. UNCHANGED <<recs, blobs, vias>> /\ phase' = "down" /\ \A t \in Threads : thr'[t] = Idle
  BY DEF Crash, sluiceVars, histVars
<1>2. StoreEvolves
  BY <1>1, SteadyStore
<1>3. \A t \in Threads : ThreadEvolves(t)
  BY <1>1 DEF Idle, ThreadEvolves, BypassOwn, Carrying
<1>4. ClaimsEvolve
  BY <1>1 DEF ClaimsEvolve
<1> QED BY <1>2, <1>3, <1>4 DEF Evolves

(* Opening sweeps only bodies no record refers to, and the store serves    *)
(* only when every claim has been reconciled.                              *)
LEMMA OpenEvolves ==
  ASSUME IInv, Open \/ Serve PROVE Evolves
<1>1. UNCHANGED <<recs, vias, thr>> /\ \A id \in Live : blobs'[id] = blobs[id]
  BY DEF Open, Serve, SweepOrphans, sluiceVars, histVars, Live
<1>2. StoreEvolves
  BY <1>1 DEF StoreEvolves, RecordEvolves, ContentEvolves, ViaEvolves, Live
<1>3. \A t \in Threads : ThreadEvolves(t)
  BY <1>1 DEF ThreadEvolves
<1>4. phase' = "up" => \A id \in Ids : ~recs'[id].claim
  BY <1>1 DEF Open, Serve
<1>5. ClaimsEvolve
  BY <1>1, <1>4 DEF ClaimsEvolve, Resends, Sending
<1> QED BY <1>2, <1>3, <1>5 DEF Evolves

LEMMA ReconcileEvolves ==
  ASSUME IInv, NEW id \in Ids, Reconcile(id) PROVE Evolves
<1> DEFINE r == Interrupted(recs[id])
<1>1. /\ TypeOK /\ recs[id] \in Message /\ UNCHANGED <<thr, vias, phase>>
      /\ phase = "opening" /\ Put(id, r) /\ recs[id].claim
  BY DEF IInv, TypeOK, SluiceTypeOK, Reconcile, ReconcileClaim, procVars, histVars
<1>2. recs[id].status = "approved"
  BY <1>1 DEF IInv, StoreInv
<1>3. /\ r \in Message /\ ~r.claim /\ r.status = recs[id].status /\ r.sub = recs[id].sub
      /\ r.decidedBy = recs[id].decidedBy /\ r.asInbox = recs[id].asInbox
  <2>1. "ok" \in Results
    BY DEF Results
  <2> QED BY <1>1, <2>1, InterruptedType, OutcomeFields
<1>4. recs'[id] = r /\ \A j \in Ids \ {id} : recs'[j] = recs[j]
  BY <1>1, <1>3, PutType DEF TypeOK
<1> HIDE DEF r
<1>5. StoreEvolves
  <2>1. RecordEvolves(recs[id], r)
    BY <1>2, <1>3 DEF RecordEvolves, Out
  <2> QED BY <1>1, <1>2, <1>3, <2>1, PutEvolves
<1>6. \A t \in Threads : ThreadEvolves(t)
  BY <1>1 DEF ThreadEvolves
<1>7. ClaimsEvolve
  BY <1>1, <1>3, <1>4 DEF ClaimsEvolve
<1> QED BY <1>5, <1>6, <1>7 DEF Evolves

LEMMA NextEvolves ==
  ASSUME IInv, \A t \in Threads : BypassOwn(t), [Next]_vars PROVE Evolves
<1>1. ASSUME NEW t \in Threads, Request(t) PROVE Evolves
  BY <1>1, SubmitEvolves, SubmitFailsEvolves, BeginEvolves DEF Request
<1>2. ASSUME NEW t \in Threads, Step(t) PROVE Evolves
  BY <1>2, DecideEvolves, ApproveEvolves, RejectEvolves, ClaimEvolves, SendEvolves,
     RecordingEvolves, BounceEvolves DEF Step
<1>3. CASE Recover
  BY <1>3, OpenEvolves, ReconcileEvolves DEF Recover
<1>4. CASE UNCHANGED vars
  <2>1. UNCHANGED <<recs, blobs, vias, thr, phase>>
    BY <1>4 DEF vars
  <2>2. StoreEvolves
    BY <2>1, SteadyStore
  <2> QED BY <2>1, <2>2 DEF Evolves, ThreadEvolves, ClaimsEvolve, Resends, Sending
<1> QED BY <1>1, <1>2, <1>3, <1>4, CrashEvolves DEF Next
-----------------------------------------------------------------------------
LEMMA SInvInit == Init => SInv
<1> SUFFICES ASSUME Init PROVE SInv
  OBVIOUS
<1>1. \A id \in Ids : recs[id].status = "absent" /\ ~recs[id].claim /\ vias[id] = {}
  BY DEF Init, SluiceInit, NoRecord
<1>2. \A t \in Threads : thr[t].op = "none" /\ thr[t].pc = "idle"
  BY DEF Init, Idle
<1>3. ContentMatchesRecord
  BY <1>1 DEF ContentMatchesRecord, Live
<1>4. \A id \in Ids : recs[id].status \notin Out
  BY <1>1 DEF Out
<1>5. (\A id \in Ids : ViasApproved(id)) /\ ClaimOwned
  BY <1>1, <1>4 DEF ViasApproved, ClaimOwned
<1>6. \A t \in Threads : BypassOwn(t) /\ InboxCarried(t)
  BY <1>2 DEF BypassOwn, InboxCarried, Carrying
<1> QED BY <1>3, <1>4, <1>5, <1>6 DEF SInv

LEMMA SInvAlways == Spec => [](IInv /\ SInv)
<1>1. IInv /\ SInv /\ [Next]_vars => SInv'
  BY NextEvolves, EvolvesKeeps DEF SInv
<1> QED BY <1>1, IInvInit, IInvNext, SInvInit, PTL DEF Spec

(* Default deny: whatever left the gate was released by the approval chain *)
(* or by the bypass for operators only, for any interleaving of handlers   *)
(* and stops.                                                              *)
THEOREM DefaultDeny == Spec => []HeldUntilReleased
<1>1. IInv /\ SInv => HeldUntilReleased
  <2> SUFFICES ASSUME IInv, SInv, NEW id \in Ids, copies[id] > 0
               PROVE  recs[id].status \in Out /\ ReleasedBy(recs[id])
    BY DEF HeldUntilReleased, ReleasedBy, Out
  <2>1. copies[id] # 0
    BY DEF IInv, TypeOK
  <2>2. recs[id].status \in Out
    BY <2>1 DEF IInv, Budget, RecordBudget, Out
  <2> QED BY <2>2 DEF SInv
<1> QED BY <1>1, SInvAlways, PTL

(* Every copy leaves through the inbox that was approved, re-sends after a *)
(* restart with another configuration included.                            *)
THEOREM InboxAsApproved == Spec => []DeliveredAsApproved
<1>1. SInv => DeliveredAsApproved
  BY DEF SInv, ViasApproved, DeliveredAsApproved, Live
<1> QED BY <1>1, SInvAlways, PTL

(* A record's body is the one it was submitted with, through rolled-back   *)
(* enqueues that reuse an id and the sweep at every start.                 *)
THEOREM ContentIntact == Spec => []ContentMatchesRecord
<1>1. SInv => ContentMatchesRecord
  BY DEF SInv
<1> QED BY <1>1, SInvAlways, PTL

(* A claim marks a failed approved message, and while the process serves   *)
(* and the disk works it belongs to a re-send in flight.                   *)
THEOREM ClaimsHeld == Spec => []ClaimHeld
<1>1. IInv /\ SInv => ClaimHeld
  BY DEF IInv, StoreInv, SInv, ClaimOwned, Resends, ClaimHeld, Resendable
<1> QED BY <1>1, SInvAlways, PTL

(* No handler, retry or recovery changes a sent or a rejected record.      *)
THEOREM FinalStays == Spec => VerdictIsFinal
<1>1. IInv /\ SInv /\ [Next]_vars =>
         [\A id \in Ids : Final(recs[id]) => recs'[id] = recs[id]]_vars
  <2> SUFFICES ASSUME IInv, SInv, [Next]_vars, NEW id \in Ids, Final(recs[id])
               PROVE  recs'[id] = recs[id]
    OBVIOUS
  <2>1. RecordEvolves(recs[id], recs'[id])
    BY NextEvolves DEF SInv, Evolves, StoreEvolves
  <2> QED BY <2>1 DEF RecordEvolves, Final, NoRecord
<1> QED BY <1>1, SInvAlways, PTL DEF Spec, VerdictIsFinal

(* A handler's steps move no other handler.                                *)
LEMMA OthersStay ==
  ASSUME TypeOK, NEW s \in Threads, Request(s) \/ Step(s), NEW t \in Threads \ {s}
  PROVE  thr'[t] = thr[t]
<1>1. thr \in [Threads -> Thread]
  BY DEF TypeOK
<1>2. CASE Request(s)
  BY <1>1, <1>2 DEF Request, Submit, SubmitFails, BeginApprove, BeginReject, BeginResend, Start
<1>3. CASE Send(s)
  BY <1>1, <1>3 DEF Send, SendAs
<1>4. CASE Step(s) /\ ~Send(s)
  BY <1>1, <1>4 DEF Step, Decide, ApproveVerdict, BypassVerdict, CommitApprove, RejectVerdict,
                    Claim, Record, Bounce, TxFails, Goto, Return
<1> QED BY <1>2, <1>3, <1>4

(* From its recording, only a permanent failure sends a handler on to the  *)
(* bounce.                                                                 *)
LEMMA BounceCause ==
  ASSUME TypeOK, [Next]_vars, NEW t \in Threads, thr[t].pc = "record", thr'[t].pc = "bounce"
  PROVE  thr[t].res = "permanent"
<1>1. thr'[t] # thr[t] /\ thr'[t] # Idle
  BY DEF Idle
<1>2. Request(t) \/ Step(t)
  <2>1. ~Crash /\ ~Recover /\ ~UNCHANGED vars
    BY <1>1 DEF Crash, Recover, Open, Serve, Reconcile, vars
  <2> QED BY <1>1, <2>1, OthersStay DEF Next
<1>3. ~Request(t)
  BY DEF Request, Submit, SubmitFails, BeginApprove, BeginReject, BeginResend, Running
<1>4. ~Send(t)
  BY DEF Send, SendAs
<1>5. Record(t)
  BY <1>2, <1>3, <1>4 DEF Step, Decide, ApproveVerdict, BypassVerdict, CommitApprove,
                         RejectVerdict, Claim, Bounce, Running
<1>6. ~Return(t)
  BY <1>1 DEF Return, TypeOK
<1> QED BY <1>5, <1>6 DEF Record, TxFails, Bounces

(* A bounce is scheduled only for a message no copy of which left, unless  *)
(* the operator acknowledged an unknown outcome.                           *)
THEOREM BouncesReportFailure == Spec => BounceReportsFailure
<1>1. IInv /\ [Next]_vars =>
         [\A t \in Threads :
            thr[t].pc = "record" /\ thr'[t].pc = "bounce" /\ copies[thr[t].id] > 0
              => acks[thr[t].id] > 0]_vars
  <2> SUFFICES ASSUME IInv, [Next]_vars, NEW t \in Threads, thr[t].pc = "record",
                      thr'[t].pc = "bounce", copies[thr[t].id] > 0
               PROVE  acks[thr[t].id] > 0
    OBVIOUS
  <2>1. thr[t].res = "permanent"
    BY BounceCause DEF IInv
  <2>2. copies[thr[t].id] <= acks[thr[t].id]
    BY <2>1 DEF IInv, Budget, ThreadBudget
  <2>3. copies[thr[t].id] \in Nat /\ acks[thr[t].id] \in Nat
    BY DEF IInv, TypeOK, Thread
  <2> QED BY <2>2, <2>3
<1> QED BY <1>1, IInvAlways, PTL DEF Spec, BounceReportsFailure
=============================================================================
