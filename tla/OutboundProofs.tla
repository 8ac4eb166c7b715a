--------------------------- MODULE OutboundProofs ---------------------------
(***************************************************************************)
(* Theorems about Outbound, for every set of threads, messages, inboxes,   *)
(* configurations and faults.                                              *)
(***************************************************************************)
EXTENDS Outbound, TLAPS

(* The strengthening.  Store: ids above the sequence hold no record, and a *)
(* claim marks a failed approved record.                                   *)
StoreInv ==
    \A id \in Ids :
        /\ id > seq => recs[id] = NoRecord
        /\ recs[id].status # "absent" => recs[id].sub \in Submissions
        /\ recs[id].status = "pending" => recs[id].sendErr = "none"
        /\ recs[id].claim => recs[id].status = "approved" /\ recs[id].sendErr # "none"

(* Threads: none survives a stop.  A first send runs on a record without   *)
(* a recorded outcome, a re-send on a record that carries its claim.       *)
Exclusive(t) ==
    Sending(t) =>
        /\ recs[thr[t].id].status = "approved"
        /\ \/ /\ thr[t].op \in {"approve", "bypass"}
              /\ recs[thr[t].id].sendErr = "none"
           \/ thr[t].op = "resend" /\ recs[thr[t].id].claim

ThreadInv ==
    \A t \in Threads :
        /\ phase # "up" => thr[t] = Idle
        /\ Exclusive(t)
        /\ thr[t].pc = "record" => thr[t].res # "none"

(* Budget: how many copies may be out, by what the record and the threads  *)
(* say.  A plain failure, and a send about to start, leave room for one    *)
(* more copy.                                                              *)
RecordBudget(id) ==
    /\ copies[id] <= 1 + acks[id]
    /\ recs[id].sendErr = "failed" /\ ~recs[id].claim => copies[id] <= acks[id]
    /\ recs[id].status \notin {"approved", "sent"} => copies[id] = 0

ThreadBudget(t) ==
    (\/ thr[t].pc = "send"
     \/ thr[t].pc = "record" /\ thr[t].res \in {"permanent", "failed"})
    => copies[thr[t].id] <= acks[thr[t].id]

Budget ==
    /\ \A id \in Ids : RecordBudget(id)
    /\ \A t \in Threads : ThreadBudget(t)

IInv == TypeOK /\ StoreInv /\ ThreadInv /\ OneSendInFlight /\ Budget
-----------------------------------------------------------------------------
(* Type correctness: the store's operations first, then the threads'.      *)

LEMMA RecordType ==
  /\ NoRecord \in Message
  /\ \A sub \in Submissions : NewRecord(sub) \in Message
  BY SluiceAssumption DEF NoRecord, NewRecord, Message, Statuses

LEMMA IdleType == Idle \in Thread
  BY SluiceAssumption DEF Idle, Thread, Ops, Results, Ids

LEMMA FreshId == ASSUME SluiceTypeOK, seq < MaxMsgs
                 PROVE  seq + 1 \in Ids /\ seq + 1 \in 0..MaxMsgs
  BY SluiceAssumption DEF SluiceTypeOK, Ids

(* What the store writes into a record, field by field.                    *)
LEMMA ApprovedType ==
  ASSUME NEW r \in Message, NEW by \in {"chain", "bypass"}, NEW as \in Inboxes \cup {NoInbox}
  PROVE  /\ Approved(r, by, as) \in Message
         /\ Approved(r, by, as).status = "approved"
         /\ Approved(r, by, as).sendErr = r.sendErr
         /\ Approved(r, by, as).claim = r.claim
         /\ Approved(r, by, as).sub = r.sub
  BY DEF Approved, Message, Statuses

LEMMA RejectedType ==
  ASSUME NEW r \in Message
  PROVE  /\ Rejected(r) \in Message
         /\ Rejected(r).status = "rejected"
         /\ Rejected(r).sendErr = r.sendErr
         /\ Rejected(r).claim = r.claim
         /\ Rejected(r).sub = r.sub
  BY DEF Rejected, Message, Statuses

LEMMA AttemptedType ==
  ASSUME NEW r \in Message, NEW res \in Results
  PROVE  /\ Attempted(r, res) \in Message
         /\ Attempted(r, res).status = IF res = "ok" THEN "sent" ELSE r.status
         /\ Attempted(r, res).sendErr = SendErrOf(res)
         /\ ~Attempted(r, res).claim
         /\ Attempted(r, res).sub = r.sub
<1>1. SendErrOf(res) \in {"none", "failed", "unknown"}
  BY DEF SendErrOf, Results
<1> QED BY <1>1 DEF Attempted, Message, Statuses

LEMMA ClaimedType ==
  ASSUME NEW r \in Message
  PROVE  /\ Claimed(r) \in Message
         /\ Claimed(r).claim
         /\ Claimed(r).status = r.status
         /\ Claimed(r).sendErr = r.sendErr
         /\ Claimed(r).sub = r.sub
  BY DEF Claimed, Message

LEMMA InterruptedType ==
  ASSUME NEW r \in Message
  PROVE  /\ Interrupted(r) \in Message
         /\ ~Interrupted(r).claim
         /\ Interrupted(r).status = r.status
         /\ Interrupted(r).sendErr = "unknown"
         /\ Interrupted(r).sub = r.sub
  BY DEF Interrupted, Message

LEMMA PutType ==
  ASSUME SluiceTypeOK, NEW id \in Ids, NEW r \in Message, Put(id, r)
  PROVE  SluiceTypeOK' /\ recs'[id] = r /\ \A j \in Ids \ {id} : recs'[j] = recs[j]
  BY DEF SluiceTypeOK, Put

LEMMA EnqueueType ==
  ASSUME SluiceTypeOK, NEW sub \in Submissions, Enqueue(sub) \/ EnqueueRolledBack(sub)
  PROVE  SluiceTypeOK'
<1>1. seq + 1 \in Ids /\ seq + 1 \in 0..MaxMsgs
  BY FreshId DEF Enqueue, EnqueueRolledBack
<1>2. NewRecord(sub) \in Message
  BY RecordType
<1> QED BY <1>1, <1>2 DEF SluiceTypeOK, Enqueue, EnqueueRolledBack
LEMMA SendInboxType ==
  ASSUME NEW r \in Message, r.sub \in Submissions
  PROVE  SendInbox(r) \in Inboxes \cup {NoInbox}
  BY SluiceAssumption DEF SendInbox, Message

(* Moving one thread, and what the moves of the handlers are.              *)
Moves(t, th) == thr' = [thr EXCEPT ![t] = th]

LEMMA MoveType ==
  ASSUME thr \in [Threads -> Thread], NEW t \in Threads, NEW th \in Thread, Moves(t, th)
  PROVE  /\ thr' \in [Threads -> Thread]
         /\ thr'[t] = th
         /\ \A s \in Threads \ {t} : thr'[s] = thr[s]
  BY DEF Moves

(* A move that ends or continues a handler without starting a send.        *)
Quiet(t) == \E th \in Thread : Moves(t, th) /\ th.pc \notin {"send", "record"}

LEMMA ReturnIsQuiet ==
  ASSUME NEW t \in Threads, Return(t) PROVE Quiet(t)
  BY IdleType DEF Return, Quiet, Moves, Idle

LEMMA GotoIsQuiet ==
  ASSUME thr \in [Threads -> Thread], NEW t \in Threads,
         NEW pc \in {"decide", "commit", "bounce"}, Goto(t, pc)
  PROVE  Quiet(t)
<1> DEFINE th == [thr[t] EXCEPT !.pc = pc]
<1>1. th \in Thread /\ th.pc = pc
  BY DEF Thread
<1> QED BY <1>1 DEF Goto, Quiet, Moves

LEMMA StartIsQuiet ==
  ASSUME thr \in [Threads -> Thread], NEW t \in Threads, NEW op \in Ops, NEW id \in Ids,
         NEW as \in Inboxes \cup {NoInbox}, NEW ack \in BOOLEAN,
         NEW via \in Inboxes \cup {NoInbox}, NEW pc \in {"decide", "commit", "claim"},
         Start(t, op, id, as, ack, via, pc)
  PROVE  Quiet(t)
<1> DEFINE th == [pc |-> pc, op |-> op, id |-> id, as |-> as, ack |-> ack,
                  via |-> via, res |-> "none"]
<1>1. th \in Thread /\ th.pc = pc
  BY DEF Thread, Results
<1> QED BY <1>1 DEF Start, Quiet, Moves

LEMMA StayIsQuiet ==
  ASSUME thr \in [Threads -> Thread], NEW t \in Threads, thr[t].pc = "idle", UNCHANGED thr
  PROVE  Quiet(t)
  BY DEF Quiet, Moves

(* A quiet move of one handler of the serving process that leaves the      *)
(* records and the delivery history alone keeps the invariant.             *)
LEMMA QuietStep ==
  ASSUME IInv, TypeOK', NEW t \in Threads, Quiet(t), phase = "up",
         UNCHANGED <<seq, recs, phase, copies, acks>>
  PROVE  IInv'
<1>1. PICK th \in Thread : Moves(t, th) /\ th.pc \notin {"send", "record"}
  BY DEF Quiet
<1>2. thr'[t] = th /\ \A s \in Threads \ {t} : thr'[s] = thr[s]
  BY <1>1, MoveType DEF IInv, TypeOK
<1>3. ~Sending(t)'
  BY <1>1, <1>2 DEF Sending
<1>4. StoreInv'
  BY DEF IInv, StoreInv
<1>5. ThreadInv'
  BY <1>1, <1>2, <1>3 DEF IInv, ThreadInv, Exclusive, Sending
<1>6. OneSendInFlight'
  BY <1>2, <1>3 DEF IInv, OneSendInFlight, Sending
<1>7. Budget'
  BY <1>1, <1>2 DEF IInv, Budget, RecordBudget, ThreadBudget
<1> QED BY <1>4, <1>5, <1>6, <1>7 DEF IInv

(* A transaction that rewrites one record on which no other handler has a  *)
(* send in flight, and a quiet move, keep the invariant if the new record  *)
(* satisfies its own part of it.                                           *)
LEMMA QuietPut ==
  ASSUME IInv, TypeOK', NEW t \in Threads, Quiet(t), phase = "up",
         NEW id \in Ids, NEW r \in Message, Put(id, r),
         UNCHANGED <<phase, copies, acks>>,
         \A s \in Threads \ {t} : Sending(s) => thr[s].id # id,
         id <= seq, r.sub \in Submissions,
         r.status = "pending" => r.sendErr = "none",
         ~r.claim,
         r.sendErr = "failed" => copies[id] <= acks[id],
         r.status \notin {"approved", "sent"} => copies[id] = 0
  PROVE  IInv'
<1>1. PICK th \in Thread : Moves(t, th) /\ th.pc \notin {"send", "record"}
  BY DEF Quiet
<1>2. thr'[t] = th /\ \A s \in Threads \ {t} : thr'[s] = thr[s]
  BY <1>1, MoveType DEF IInv, TypeOK
<1>3. ~Sending(t)'
  BY <1>1, <1>2 DEF Sending
<1>4. recs'[id] = r /\ \A j \in Ids \ {id} : recs'[j] = recs[j]
  BY PutType DEF IInv, TypeOK
<1>5. StoreInv'
  <2>1. seq' = seq /\ ~(id > seq)
    BY SluiceAssumption DEF Put, Ids, IInv, TypeOK, SluiceTypeOK
  <2> QED BY <1>4, <2>1 DEF IInv, StoreInv
<1>6. ThreadInv'
  <2>1. ASSUME NEW s \in Threads \ {t}, Sending(s) PROVE recs'[thr[s].id] = recs[thr[s].id]
    BY <1>4, <2>1 DEF IInv, TypeOK, Thread
  <2> QED BY <1>1, <1>2, <1>3, <2>1 DEF IInv, ThreadInv, Exclusive, Sending
<1>7. OneSendInFlight'
  BY <1>2, <1>3 DEF IInv, OneSendInFlight, Sending
<1>8. Budget'
  <2>1. \A j \in Ids : RecordBudget(j)'
    BY <1>4 DEF IInv, Budget, RecordBudget
  <2>2. \A s \in Threads : ThreadBudget(s)'
    BY <1>1, <1>2 DEF IInv, Budget, ThreadBudget
  <2> QED BY <2>1, <2>2 DEF Budget
<1> QED BY <1>5, <1>6, <1>7, <1>8 DEF IInv
-----------------------------------------------------------------------------
(* One lemma per action.  A handler's step is shown typed first, then to   *)
(* keep the invariant.                                                     *)

LEMMA QuietTypes ==
  ASSUME TypeOK, NEW t \in Threads, Quiet(t), SluiceTypeOK',
         UNCHANGED <<procVars, copies, vias, acks>>, bounced' \in SUBSET Ids
  PROVE  TypeOK'
<1>1. thr' \in [Threads -> Thread]
  BY MoveType DEF Quiet, TypeOK
<1> QED BY <1>1 DEF TypeOK, procVars

LEMMA SubmitStep ==
  ASSUME IInv, NEW t \in Threads, NEW sub \in Submissions, Submit(t, sub)
  PROVE  IInv'
<1>1. TypeOK /\ SluiceTypeOK /\ thr \in [Threads -> Thread]
  BY DEF IInv, TypeOK
<1>2. SluiceTypeOK'
  BY <1>1, EnqueueType DEF Submit
<1>3. seq + 1 \in Ids
  BY <1>1, FreshId DEF Submit, Enqueue
<1>4. Quiet(t)
  <2>1. CASE AllMatch(sub.rcpt)
    BY <1>1, <1>3, <2>1, StartIsQuiet DEF Submit, Ops
  <2>2. CASE ~AllMatch(sub.rcpt)
    BY <1>1, <2>2, StayIsQuiet DEF Submit, Running
  <2> QED BY <2>1, <2>2
<1>5. TypeOK'
  BY <1>1, <1>2, <1>4, QuietTypes DEF Submit, histVars, TypeOK
<1>6. PICK th \in Thread : Moves(t, th) /\ th.pc \notin {"send", "record"}
  BY <1>4 DEF Quiet
<1>7. thr'[t] = th /\ \A s \in Threads \ {t} : thr'[s] = thr[s]
  BY <1>1, <1>6, MoveType
<1>8. /\ recs'[seq + 1] = NewRecord(sub)
      /\ \A j \in Ids \ {seq + 1} : recs'[j] = recs[j]
      /\ seq' = seq + 1 /\ seq \in Nat
  BY <1>1, <1>3 DEF Submit, Enqueue, SluiceTypeOK
<1>9. recs[seq + 1] = NoRecord
  BY <1>3, <1>8 DEF IInv, StoreInv
<1>10. /\ NewRecord(sub).status = "pending" /\ NewRecord(sub).sub = sub
       /\ NewRecord(sub).sendErr = "none" /\ NewRecord(sub).claim = FALSE
       /\ NoRecord.status = "absent"
  BY DEF NewRecord, NoRecord
<1>11. ~Sending(t)'
  BY <1>6, <1>7 DEF Sending
<1>12. \A s \in Threads : Sending(s) => thr[s].id # seq + 1
  BY <1>9, <1>10 DEF IInv, ThreadInv, Exclusive
<1>13. StoreInv'
  BY <1>3, <1>8, <1>10 DEF IInv, StoreInv, Ids
<1>14. ThreadInv'
  <2>1. ASSUME NEW s \in Threads \ {t}, Sending(s) PROVE recs'[thr[s].id] = recs[thr[s].id]
    BY <1>1, <1>8, <1>12, <2>1 DEF Thread
  <2> QED BY <1>6, <1>7, <1>11, <2>1 DEF IInv, ThreadInv, Exclusive, Sending, Submit, Running, procVars
<1>15. OneSendInFlight'
  BY <1>7, <1>11 DEF IInv, OneSendInFlight, Sending
<1>16. Budget'
  <2>1. copies' = copies /\ acks' = acks /\ copies[seq + 1] = 0 /\ acks[seq + 1] \in Nat
    BY <1>1, <1>3, <1>9, <1>10 DEF Submit, histVars, IInv, Budget, RecordBudget, TypeOK
  <2>2. \A j \in Ids : RecordBudget(j)'
    BY <1>3, <1>8, <1>10, <2>1 DEF IInv, Budget, RecordBudget
  <2>3. \A s \in Threads : ThreadBudget(s)'
    BY <1>6, <1>7, <2>1 DEF IInv, Budget, ThreadBudget
  <2> QED BY <2>2, <2>3 DEF Budget
<1> QED BY <1>5, <1>13, <1>14, <1>15, <1>16 DEF IInv

LEMMA SubmitFailsStep ==
  ASSUME IInv, NEW t \in Threads, NEW sub \in Submissions, SubmitFails(t, sub)
  PROVE  IInv'
<1>1. TypeOK /\ SluiceTypeOK /\ thr \in [Threads -> Thread]
  BY DEF IInv, TypeOK
<1>2. SluiceTypeOK'
  BY <1>1, EnqueueType DEF SubmitFails
<1>3. Quiet(t)
  BY <1>1, StayIsQuiet DEF SubmitFails, Running
<1>4. TypeOK'
  BY <1>1, <1>2, <1>3, QuietTypes DEF SubmitFails, histVars, TypeOK
<1> QED BY <1>3, <1>4, QuietStep
        DEF SubmitFails, EnqueueRolledBack, Running, procVars, histVars

(* The steps that touch neither the store nor the history.                 *)
LEMMA ReadOnlyStep ==
  ASSUME IInv, NEW t \in Threads, Quiet(t), phase = "up",
         UNCHANGED <<sluiceVars, procVars, histVars>>
  PROVE  IInv'
<1>1. SluiceTypeOK'
  BY DEF IInv, TypeOK, SluiceTypeOK, sluiceVars
<1>2. TypeOK'
  BY <1>1, QuietTypes DEF IInv, TypeOK, histVars
<1> QED BY <1>2, QuietStep DEF sluiceVars, procVars, histVars

LEMMA BeginStep ==
  ASSUME IInv, NEW t \in Threads, NEW id \in Ids, NEW as \in Inboxes \cup {NoInbox},
         NEW ack \in BOOLEAN,
         BeginApprove(t, id, as) \/ BeginReject(t, id) \/ BeginResend(t, id, ack)
  PROVE  IInv'
<1>1. thr \in [Threads -> Thread] /\ NoInbox \in Inboxes \cup {NoInbox}
  BY DEF IInv, TypeOK
<1>2. CASE BeginApprove(t, id, as)
  <2>1. Quiet(t)
    BY <1>1, <1>2, StartIsQuiet DEF BeginApprove, Ops
  <2> QED BY <1>2, <2>1, ReadOnlyStep DEF BeginApprove, Running
<1>3. CASE BeginReject(t, id)
  <2>1. Quiet(t)
    BY <1>1, <1>3, StartIsQuiet DEF BeginReject, Ops
  <2> QED BY <1>3, <2>1, ReadOnlyStep DEF BeginReject, Running
<1>4. CASE BeginResend(t, id, ack)
  <2>1. recs[id] \in Message /\ recs[id].sub \in Submissions
    BY <1>4 DEF BeginResend, IInv, TypeOK, SluiceTypeOK, StoreInv, Live
  <2>2. recs[id].asInbox \in Inboxes \cup {NoInbox}
    BY <2>1 DEF Message
  <2>3. SendInbox(recs[id]) \in Inboxes \cup {NoInbox}
    BY <2>1, SendInboxType
  <2>4. Quiet(t)
    BY <1>1, <1>4, <2>2, <2>3, StartIsQuiet DEF BeginResend, Ops
  <2> QED BY <1>4, <2>4, ReadOnlyStep DEF BeginResend, Running
<1> QED BY <1>2, <1>3, <1>4

LEMMA DecideStep ==
  ASSUME IInv, NEW t \in Threads, Decide(t) PROVE IInv'
<1>1. Quiet(t)
  BY ReturnIsQuiet, GotoIsQuiet DEF Decide, IInv, TypeOK
<1> QED BY <1>1, ReadOnlyStep DEF Decide, Running

LEMMA TxFailsStep ==
  ASSUME IInv, NEW t \in Threads, TxFails(t), phase = "up", UNCHANGED procVars
  PROVE  IInv'
  BY ReturnIsQuiet, ReadOnlyStep DEF TxFails

LEMMA BounceStep ==
  ASSUME IInv, NEW t \in Threads, Bounce(t) PROVE IInv'
<1>1. Quiet(t)
  BY ReturnIsQuiet DEF Bounce
<1>2. SluiceTypeOK' /\ bounced' \in SUBSET Ids
  BY DEF Bounce, IInv, TypeOK, SluiceTypeOK, sluiceVars, Thread
<1>3. TypeOK'
  BY <1>1, <1>2, QuietTypes DEF Bounce, IInv
<1> QED BY <1>1, <1>3, QuietStep DEF Bounce, sluiceVars, procVars
(* A store write together with a thread that starts or goes on sending.    *)
LEMMA BusyTypes ==
  ASSUME TypeOK, NEW t \in Threads, NEW th \in Thread, Moves(t, th), SluiceTypeOK',
         UNCHANGED <<procVars, vias, bounced>>,
         copies' \in [Ids -> 0..MaxCopies], acks' \in [Ids -> 0..MaxCopies]
  PROVE  TypeOK'
<1>1. thr' \in [Threads -> Thread]
  BY MoveType DEF TypeOK
<1> QED BY <1>1 DEF TypeOK, procVars

LEMMA ApproveStep ==
  ASSUME IInv, NEW t \in Threads, NEW op \in {"approve", "bypass"},
         NEW by \in {"chain", "bypass"}, CommitApprove(t, op, by)
  PROVE  IInv'
<1> DEFINE id == thr[t].id
           r == Approved(recs[id], by, thr[t].as)
<1>1. /\ TypeOK /\ SluiceTypeOK /\ thr \in [Threads -> Thread]
      /\ thr[t] \in Thread /\ id \in Ids /\ recs[id] \in Message
      /\ phase = "up" /\ UNCHANGED procVars /\ thr[t].op = op
      /\ thr[t].as \in Inboxes \cup {NoInbox}
  BY DEF IInv, TypeOK, SluiceTypeOK, CommitApprove, Running, Thread
<1>2. CASE TxFails(t)
  BY <1>1, <1>2, TxFailsStep
<1>3. CASE Return(t) /\ UNCHANGED <<sluiceVars, histVars>>
  BY <1>1, <1>3, ReturnIsQuiet, ReadOnlyStep
<1>4. CASE /\ Pending(id) /\ Put(id, r) /\ UNCHANGED histVars
           /\ \/ Return(t)
              \/ thr' = [thr EXCEPT ![t] =
                           [@ EXCEPT !.pc = "send", !.via = SendInbox(recs'[id])]]
  <2>1. /\ r \in Message /\ r.status = "approved" /\ r.sub = recs[id].sub
        /\ r.sendErr = recs[id].sendErr /\ r.claim = recs[id].claim
    BY <1>1, ApprovedType
  <2>2. /\ SluiceTypeOK' /\ recs'[id] = r
        /\ \A j \in Ids \ {id} : recs'[j] = recs[j]
    BY <1>1, <1>4, <2>1, PutType
  <2>3. /\ recs[id].status = "pending" /\ recs[id].sendErr = "none" /\ ~recs[id].claim
        /\ recs[id].sub \in Submissions /\ copies[id] = 0
    BY <1>1, <1>4 DEF Pending, IInv, StoreInv, Budget, RecordBudget
  <2>4. id <= seq
    <3>1. recs[id] # NoRecord
      BY <2>3 DEF NoRecord
    <3> QED BY <1>1, <3>1, SluiceAssumption DEF IInv, StoreInv, Ids, SluiceTypeOK
  <2>5. \A s \in Threads : Sending(s) => thr[s].id # id
    BY <2>3 DEF IInv, ThreadInv, Exclusive
  <2>6. CASE Return(t)
    <3>1. Quiet(t)
      BY <2>6, ReturnIsQuiet
    <3>2. TypeOK'
      BY <1>1, <1>4, <2>2, <3>1, QuietTypes DEF histVars, TypeOK
    <3> QED BY <1>1, <1>4, <2>1, <2>3, <2>4, <2>5, <3>1, <3>2, QuietPut
            DEF histVars, procVars
  <2>7. CASE thr' = [thr EXCEPT ![t] =
                       [@ EXCEPT !.pc = "send", !.via = SendInbox(recs'[id])]]
    <3> DEFINE th == [thr[t] EXCEPT !.pc = "send", !.via = SendInbox(r)]
    <3>1. SendInbox(r) \in Inboxes \cup {NoInbox}
      BY <2>1, <2>3, SendInboxType
    <3>2. th \in Thread /\ th.pc = "send" /\ th.id = id /\ th.op = op
      BY <1>1, <3>1 DEF Thread
    <3>3. Moves(t, th)
      BY <2>2, <2>7 DEF Moves
    <3> HIDE DEF r
    <3>4. thr'[t] = th /\ \A s \in Threads \ {t} : thr'[s] = thr[s]
      BY <1>1, <3>2, <3>3, MoveType
    <3>5. TypeOK'
      BY <1>1, <1>4, <2>2, <3>2, <3>3, BusyTypes DEF histVars, TypeOK
    <3> HIDE DEF th
    <3>6. StoreInv'
      <4>1. seq' = seq /\ ~(id > seq)
        BY <1>1, <1>4, <2>4 DEF Put, SluiceTypeOK, Ids
      <4> QED BY <2>1, <2>2, <2>3, <4>1 DEF IInv, StoreInv
    <3>7. ThreadInv'
      <4>1. ASSUME NEW s \in Threads \ {t}, Sending(s) PROVE recs'[thr[s].id] = recs[thr[s].id]
        BY <1>1, <2>2, <2>5, <4>1 DEF Thread
      <4> QED BY <1>1, <2>1, <2>2, <2>3, <3>2, <3>4, <4>1
              DEF IInv, ThreadInv, Exclusive, Sending, procVars
    <3>8. OneSendInFlight'
      BY <2>5, <3>2, <3>4 DEF IInv, OneSendInFlight, Sending
    <3>9. Budget'
      <4>1. copies' = copies /\ acks' = acks /\ acks[id] \in Nat
        BY <1>1, <1>4 DEF histVars, TypeOK
      <4>2. \A j \in Ids : RecordBudget(j)'
        BY <2>1, <2>2, <2>3, <4>1 DEF IInv, Budget, RecordBudget
      <4>3. \A s \in Threads : ThreadBudget(s)'
        BY <2>3, <3>2, <3>4, <4>1 DEF IInv, Budget, ThreadBudget
      <4> QED BY <4>2, <4>3 DEF Budget
    <3> QED BY <3>5, <3>6, <3>7, <3>8, <3>9 DEF IInv
  <2> QED BY <1>4, <2>6, <2>7
<1> QED BY <1>2, <1>3, <1>4 DEF CommitApprove, Approve

LEMMA RejectStep ==
  ASSUME IInv, NEW t \in Threads, RejectVerdict(t)
  PROVE  IInv'
<1> DEFINE id == thr[t].id
           r == Rejected(recs[id])
<1>1. /\ TypeOK /\ SluiceTypeOK /\ thr \in [Threads -> Thread]
      /\ id \in Ids /\ recs[id] \in Message
      /\ phase = "up" /\ UNCHANGED procVars
  BY DEF IInv, TypeOK, SluiceTypeOK, RejectVerdict, Running, Thread
<1>2. CASE TxFails(t)
  BY <1>1, <1>2, TxFailsStep
<1>3. CASE Return(t) /\ UNCHANGED <<sluiceVars, histVars>>
  BY <1>1, <1>3, ReturnIsQuiet, ReadOnlyStep
<1>4. CASE /\ Pending(id) /\ Put(id, r) /\ UNCHANGED histVars
           /\ Return(t) \/ Goto(t, "bounce")
  <2>1. /\ r \in Message /\ r.status = "rejected" /\ r.sub = recs[id].sub
        /\ r.sendErr = recs[id].sendErr /\ r.claim = recs[id].claim
    BY <1>1, RejectedType
  <2>2. SluiceTypeOK'
    BY <1>1, <1>4, <2>1, PutType
  <2>3. /\ recs[id].status = "pending" /\ recs[id].sendErr = "none" /\ ~recs[id].claim
        /\ recs[id].sub \in Submissions /\ copies[id] = 0
    BY <1>1, <1>4 DEF Pending, IInv, StoreInv, Budget, RecordBudget
  <2>4. id <= seq
    <3>1. recs[id] # NoRecord
      BY <2>3 DEF NoRecord
    <3> QED BY <1>1, <3>1, SluiceAssumption DEF IInv, StoreInv, Ids, SluiceTypeOK
  <2>5. \A s \in Threads : Sending(s) => thr[s].id # id
    BY <2>3 DEF IInv, ThreadInv, Exclusive
  <2>6. Quiet(t)
    BY <1>1, <1>4, ReturnIsQuiet, GotoIsQuiet
  <2>7. TypeOK'
    BY <1>1, <1>4, <2>2, <2>6, QuietTypes DEF histVars, TypeOK
  <2> QED BY <1>1, <1>4, <2>1, <2>3, <2>4, <2>5, <2>6, <2>7, QuietPut
          DEF histVars, procVars
<1> QED BY <1>2, <1>3, <1>4 DEF RejectVerdict, Reject
(* The claim is what makes a re-send exclusive: no other send can be in    *)
(* flight, since it would carry the claim or have no recorded outcome.     *)
LEMMA ClaimStep ==
  ASSUME IInv, NEW t \in Threads, Claim(t)
  PROVE  IInv'
<1> DEFINE id == thr[t].id
           r == Claimed(recs[id])
           newAcks == IF recs[id].sendErr = "unknown"
                      THEN [acks EXCEPT ![id] = Saturate(acks[id])] ELSE acks
<1>1. /\ TypeOK /\ SluiceTypeOK /\ thr \in [Threads -> Thread]
      /\ thr[t] \in Thread /\ id \in Ids /\ recs[id] \in Message
      /\ phase = "up" /\ UNCHANGED procVars /\ thr[t].op = "resend"
  BY DEF IInv, TypeOK, SluiceTypeOK, Claim, Running, Thread
<1>2. CASE TxFails(t)
  BY <1>1, <1>2, TxFailsStep
<1>3. CASE Return(t) /\ UNCHANGED <<sluiceVars, histVars>>
  BY <1>1, <1>3, ReturnIsQuiet, ReadOnlyStep
<1>4. CASE /\ ClaimResend(id, thr[t].ack) /\ Goto(t, "send")
           /\ acks' = IF recs[id].sendErr = "unknown" /\ thr[t].ack
                      THEN [acks EXCEPT ![id] = Saturate(acks[id])] ELSE acks
           /\ UNCHANGED <<copies, vias, bounced>>
  <2>0. acks' = newAcks
    BY <1>4 DEF ClaimResend, Claimable
  <2> DEFINE th == [thr[t] EXCEPT !.pc = "send"]
  <2>1. /\ r \in Message /\ r.claim /\ r.status = recs[id].status
        /\ r.sub = recs[id].sub /\ r.sendErr = recs[id].sendErr
    BY <1>1, ClaimedType
  <2>2. /\ SluiceTypeOK' /\ recs'[id] = r /\ seq' = seq
        /\ \A j \in Ids \ {id} : recs'[j] = recs[j]
    BY <1>1, <1>4, <2>1, PutType DEF ClaimResend, Put
  <2>3. /\ recs[id].status = "approved" /\ recs[id].sendErr # "none" /\ ~recs[id].claim
    BY <1>4 DEF ClaimResend, Claimable, Resendable
  <2>4. \A s \in Threads : Sending(s) => thr[s].id # id
    BY <2>3 DEF IInv, ThreadInv, Exclusive
  <2>5. th \in Thread /\ th.pc = "send" /\ th.id = id /\ th.op = "resend"
    BY <1>1 DEF Thread
  <2>6. Moves(t, th)
    BY <1>4 DEF Goto, Moves
  <2>7. thr'[t] = th /\ \A s \in Threads \ {t} : thr'[s] = thr[s]
    BY <1>1, <2>5, <2>6, MoveType
  <2>8. /\ acks \in [Ids -> 0..MaxCopies] /\ copies \in [Ids -> 0..MaxCopies]
        /\ acks' \in [Ids -> 0..MaxCopies]
        /\ acks'[id] = IF recs[id].sendErr = "unknown" THEN Saturate(acks[id]) ELSE acks[id]
        /\ \A j \in Ids \ {id} : acks'[j] = acks[j]
    BY <1>1, <2>0, OutboundAssumption DEF TypeOK, Saturate
  <2>9. TypeOK'
    BY <1>1, <1>4, <2>2, <2>5, <2>6, <2>8, BusyTypes
  <2> HIDE DEF r, th, newAcks
  <2>10. StoreInv'
    <3>1. ~(id > seq)
      <4>1. recs[id] # NoRecord
        BY <2>3 DEF NoRecord
      <4> QED BY <1>1, <4>1 DEF IInv, StoreInv
    <3> QED BY <2>1, <2>2, <2>3, <3>1 DEF IInv, StoreInv
  <2>11. ThreadInv'
    <3>1. ASSUME NEW s \in Threads \ {t}, Sending(s) PROVE recs'[thr[s].id] = recs[thr[s].id]
      BY <1>1, <2>2, <2>4, <3>1 DEF Thread
    <3> QED BY <1>1, <2>1, <2>2, <2>3, <2>5, <2>7, <3>1
            DEF IInv, ThreadInv, Exclusive, Sending, procVars
  <2>12. OneSendInFlight'
    BY <2>4, <2>5, <2>7 DEF IInv, OneSendInFlight, Sending
  <2>13. Budget'
    <3>1. copies' = copies /\ copies[id] <= acks'[id] /\ \A j \in Ids : acks[j] <= acks'[j]
      <4>1. copies[id] <= 1 + acks[id]
        BY <1>1 DEF IInv, Budget, RecordBudget
      <4>2. recs[id].sendErr # "unknown" => copies[id] <= acks[id]
        <5>1. recs[id].sendErr \in {"none", "failed", "unknown"}
          BY <1>1 DEF Message
        <5> QED BY <1>1, <2>3, <5>1 DEF IInv, Budget, RecordBudget
      <4> QED BY <1>1, <1>4, <2>8, <4>1, <4>2, OutboundAssumption DEF Saturate
    <3>2. \A j \in Ids : RecordBudget(j)'
      BY <2>1, <2>2, <2>3, <2>8, <3>1 DEF IInv, Budget, RecordBudget
    <3>3. ASSUME NEW s \in Threads PROVE ThreadBudget(s)'
      <4>1. CASE s = t
        BY <2>5, <2>7, <3>1, <4>1 DEF ThreadBudget
      <4>2. CASE s # t
        <5>1. thr'[s] = thr[s] /\ thr[s].id \in Ids
          BY <1>1, <2>7, <4>2 DEF Thread
        <5>2. copies[thr[s].id] \in Nat /\ acks[thr[s].id] \in Nat /\ acks'[thr[s].id] \in Nat
          BY <2>8, <5>1
        <5> QED BY <3>1, <5>1, <5>2 DEF IInv, Budget, ThreadBudget
      <4> QED BY <4>1, <4>2
    <3> QED BY <3>2, <3>3 DEF Budget
  <2> QED BY <2>9, <2>10, <2>11, <2>12, <2>13 DEF IInv
<1> QED BY <1>2, <1>3, <1>4 DEF Claim

LEMMA SendStep ==
  ASSUME IInv, NEW t \in Threads, NEW via, NEW delivered \in BOOLEAN,
         NEW res \in {"ok", "unknown", "permanent", "failed"},
         delivered => via \in Inboxes,
         res \in {"permanent", "failed"} => ~delivered,
         SendAs(t, via, res, delivered)
  PROVE  IInv'
<1> DEFINE id == thr[t].id
           th == [thr[t] EXCEPT !.pc = "record", !.res = res]
<1>1. /\ TypeOK /\ SluiceTypeOK /\ thr \in [Threads -> Thread] /\ thr[t] \in Thread
      /\ id \in Ids /\ phase = "up" /\ thr[t].pc = "send" /\ UNCHANGED <<procVars, acks, bounced>>
      /\ UNCHANGED <<seq, recs, blobs>> /\ Sending(t)
      /\ copies \in [Ids -> 0..MaxCopies] /\ acks \in [Ids -> 0..MaxCopies]
  BY DEF IInv, TypeOK, SendAs, Thread, sluiceVars, Sending
<1>2. th \in Thread /\ th.pc = "record" /\ th.id = id /\ th.op = thr[t].op /\ th.res = res
  BY <1>1 DEF Thread, Results
<1>3. Moves(t, th)
  BY DEF SendAs, Moves
<1>4. thr'[t] = th /\ \A s \in Threads \ {t} : thr'[s] = thr[s]
  BY <1>1, <1>2, <1>3, MoveType
<1>5. /\ copies' \in [Ids -> 0..MaxCopies]
      /\ copies'[id] = IF delivered THEN copies[id] + 1 ELSE copies[id]
      /\ \A j \in Ids \ {id} : copies'[j] = copies[j]
  BY <1>1, OutboundAssumption DEF SendAs
<1>6. vias' \in [Ids -> SUBSET Inboxes]
  BY <1>1 DEF SendAs, TypeOK
<1>7. TypeOK'
  <2>1. thr' \in [Threads -> Thread]
    BY <1>1, <1>2, <1>3, MoveType
  <2> QED BY <1>1, <1>5, <1>6, <2>1 DEF TypeOK, SluiceTypeOK, procVars
<1> HIDE DEF th
<1>8. StoreInv'
  BY <1>1 DEF IInv, StoreInv
<1>9. ThreadInv'
  BY <1>1, <1>2, <1>4 DEF IInv, ThreadInv, Exclusive, Sending, procVars
<1>10. OneSendInFlight'
  BY <1>1, <1>2, <1>4 DEF IInv, OneSendInFlight, Sending
<1>11. Budget'
  <2>1. copies[id] <= acks[id] /\ copies[id] \in Nat /\ acks[id] \in Nat
    BY <1>1 DEF IInv, Budget, ThreadBudget
  <2>2. /\ recs[id].status = "approved"
        /\ recs[id].sendErr = "none" \/ recs[id].claim
    BY <1>1 DEF IInv, ThreadInv, Exclusive
  <2>3. ASSUME NEW j \in Ids PROVE RecordBudget(j)'
    <3>1. CASE j = id
      BY <1>1, <1>5, <2>1, <2>2, <3>1 DEF RecordBudget
    <3>2. CASE j # id
      BY <1>1, <1>5, <3>2 DEF IInv, Budget, RecordBudget
    <3> QED BY <3>1, <3>2
  <2>4. ASSUME NEW s \in Threads PROVE ThreadBudget(s)'
    <3>1. CASE s = t
      BY <1>1, <1>2, <1>4, <1>5, <2>1, <3>1 DEF ThreadBudget
    <3>2. CASE s # t
      <4>1. thr'[s] = thr[s] /\ thr[s].id \in Ids
        BY <1>1, <1>4, <3>2 DEF Thread
      <4>2. Sending(s) => thr[s].id # id
        BY <1>1, <3>2 DEF IInv, OneSendInFlight
      <4> QED BY <1>1, <1>5, <4>1, <4>2 DEF IInv, Budget, ThreadBudget, Sending
    <3> QED BY <3>1, <3>2
  <2> QED BY <2>3, <2>4 DEF Budget
<1> QED BY <1>7, <1>8, <1>9, <1>10, <1>11 DEF IInv

LEMMA RecordStep ==
  ASSUME IInv, NEW t \in Threads, Record(t)
  PROVE  IInv'
<1> DEFINE id == thr[t].id
           res == thr[t].res
           r == Attempted(recs[id], res)
<1>1. /\ TypeOK /\ SluiceTypeOK /\ thr \in [Threads -> Thread]
      /\ id \in Ids /\ recs[id] \in Message /\ res \in Results
      /\ phase = "up" /\ UNCHANGED procVars /\ thr[t].pc = "record" /\ Sending(t)
  BY DEF IInv, TypeOK, SluiceTypeOK, Record, Thread, Sending
<1>2. CASE TxFails(t)
  BY <1>1, <1>2, TxFailsStep
<1>3. CASE Return(t) /\ UNCHANGED <<sluiceVars, histVars>>
  BY <1>1, <1>3, ReturnIsQuiet, ReadOnlyStep
<1>4. CASE /\ Put(id, r) /\ UNCHANGED histVars
           /\ Return(t) \/ Goto(t, "bounce")
  <2>1. /\ r \in Message /\ r.sub = recs[id].sub /\ ~r.claim
        /\ r.status = (IF res = "ok" THEN "sent" ELSE recs[id].status)
        /\ r.sendErr = SendErrOf(res)
    BY <1>1, AttemptedType
  <2>2. SluiceTypeOK'
    BY <1>1, <1>4, <2>1, PutType
  <2>3. recs[id].status = "approved" /\ recs[id].sub \in Submissions /\ res # "none"
    BY <1>1 DEF IInv, ThreadInv, Exclusive, StoreInv
  <2>4. id <= seq
    <3>1. recs[id] # NoRecord
      BY <2>3 DEF NoRecord
    <3> QED BY <1>1, <3>1, SluiceAssumption DEF IInv, StoreInv, Ids, SluiceTypeOK
  <2>5. \A s \in Threads \ {t} : Sending(s) => thr[s].id # id
    BY <1>1 DEF IInv, OneSendInFlight
  <2>6. r.sendErr = "failed" => copies[id] <= acks[id]
    <3>1. r.sendErr = "failed" => res \in {"permanent", "failed"}
      BY <1>1, <2>1, <2>3 DEF SendErrOf, Results
    <3> QED BY <1>1, <3>1 DEF IInv, Budget, ThreadBudget
  <2>7. Quiet(t)
    BY <1>1, <1>4, ReturnIsQuiet, GotoIsQuiet
  <2>8. TypeOK'
    BY <1>1, <1>4, <2>2, <2>7, QuietTypes DEF histVars, TypeOK
  <2>9. r.status \in {"approved", "sent"}
    BY <2>1, <2>3
  <2> HIDE DEF r
  <2> QED BY <1>1, <1>4, <2>1, <2>3, <2>4, <2>5, <2>6, <2>7, <2>8, <2>9, QuietPut
          DEF histVars, procVars
<1> QED BY <1>2, <1>3, <1>4 DEF Record, RecordSendAttempt
(* What one SMTP transaction may yield, and the inbox a copy leaves by.    *)
LEMMA SendCases ==
  ASSUME TypeOK, NEW t \in Threads, Send(t)
  PROVE  \E res \in {"ok", "unknown", "permanent", "failed"}, delivered \in BOOLEAN :
           /\ SendAs(t, thr[t].via, res, delivered)
           /\ delivered => thr[t].via \in Inboxes
           /\ res \in {"permanent", "failed"} => ~delivered
<1>1. thr[t].via \in cfg.senders => thr[t].via \in Inboxes
  BY OutboundAssumption DEF TypeOK
<1> QED BY <1>1 DEF Send

LEMMA CrashStep ==
  ASSUME IInv, Crash PROVE IInv'
<1>1. thr' \in [Threads -> Thread] /\ \A t \in Threads : thr'[t] = Idle
  BY IdleType DEF Crash
<1>2. TypeOK'
  BY <1>1, OutboundAssumption DEF Crash, IInv, TypeOK, SluiceTypeOK, sluiceVars, histVars
<1>3. Idle.pc = "idle"
  BY DEF Idle
<1>4. StoreInv' /\ ThreadInv' /\ OneSendInFlight' /\ Budget'
  BY <1>1, <1>3 DEF Crash, IInv, StoreInv, ThreadInv, Exclusive, OneSendInFlight, Sending,
                    Budget, RecordBudget, ThreadBudget, sluiceVars, histVars
<1> QED BY <1>2, <1>4 DEF IInv

LEMMA OpenStep ==
  ASSUME IInv, Open \/ Serve PROVE IInv'
<1>1. /\ UNCHANGED <<seq, recs, thr, crashes, copies, vias, acks, bounced>>
      /\ phase # "up" /\ phase' \in {"up", "opening"} /\ cfg' \in Configs
  BY DEF Open, Serve, SweepOrphans, sluiceVars, histVars, IInv, TypeOK
<1>2. blobs' \in [Ids -> Submissions \cup {NoBody}]
  BY DEF Open, Serve, SweepOrphans, sluiceVars, IInv, TypeOK, SluiceTypeOK
<1>3. TypeOK'
  BY <1>1, <1>2 DEF IInv, TypeOK, SluiceTypeOK
<1>4. StoreInv' /\ ThreadInv' /\ OneSendInFlight' /\ Budget'
  BY <1>1 DEF IInv, StoreInv, ThreadInv, Exclusive, OneSendInFlight, Sending,
              Budget, RecordBudget, ThreadBudget
<1> QED BY <1>3, <1>4 DEF IInv

(* Recovery: the interrupted re-send may have delivered one more copy; the *)
(* record says so, and the next re-send needs an acknowledgement.          *)
LEMMA ReconcileStep ==
  ASSUME IInv, NEW id \in Ids, Reconcile(id) PROVE IInv'
<1> DEFINE r == Interrupted(recs[id])
<1>1. /\ TypeOK /\ SluiceTypeOK /\ recs[id] \in Message /\ phase = "opening"
      /\ UNCHANGED <<thr, procVars, histVars>> /\ recs[id].claim /\ Put(id, r)
  BY DEF IInv, TypeOK, SluiceTypeOK, Reconcile, ReconcileClaim
<1>2. /\ r \in Message /\ ~r.claim /\ r.status = recs[id].status
      /\ r.sub = recs[id].sub /\ r.sendErr = "unknown"
  BY <1>1, InterruptedType
<1>3. /\ SluiceTypeOK' /\ recs'[id] = r /\ seq' = seq
      /\ \A j \in Ids \ {id} : recs'[j] = recs[j]
  BY <1>1, <1>2, PutType DEF Put
<1> HIDE DEF r
<1>4. recs[id].status = "approved" /\ recs[id] # NoRecord /\ recs[id].sub \in Submissions
  BY <1>1 DEF IInv, StoreInv, NoRecord
<1>5. TypeOK'
  BY <1>1, <1>3 DEF TypeOK, procVars, histVars
<1>6. \A t \in Threads : thr[t] = Idle
  BY <1>1 DEF IInv, ThreadInv
<1>7. StoreInv'
  BY <1>2, <1>3, <1>4 DEF IInv, StoreInv
<1>8. ThreadInv' /\ OneSendInFlight'
  <2>1. (\A t \in Threads : thr'[t] = Idle) /\ Idle.pc = "idle"
    BY <1>1, <1>6 DEF Idle
  <2> QED BY <2>1 DEF ThreadInv, Exclusive, OneSendInFlight, Sending
<1>9. Budget'
  <2>1. \A j \in Ids : RecordBudget(j)'
    BY <1>1, <1>2, <1>3, <1>4 DEF IInv, Budget, RecordBudget, histVars
  <2>2. \A s \in Threads : ThreadBudget(s)'
    BY <1>1, <1>6 DEF ThreadBudget, Idle
  <2> QED BY <2>1, <2>2 DEF Budget
<1> QED BY <1>5, <1>7, <1>8, <1>9 DEF IInv

-----------------------------------------------------------------------------
LEMMA IInvInit == Init => IInv
<1> SUFFICES ASSUME Init PROVE IInv
  OBVIOUS
<1>1. TypeOK
  BY IdleType, RecordType, SluiceAssumption, OutboundAssumption
     DEF Init, TypeOK, SluiceInit, SluiceTypeOK, Ids
<1>2. \A id \in Ids : recs[id] = NoRecord /\ copies[id] = 0 /\ acks[id] = 0
  BY DEF Init, SluiceInit
<1>3. /\ NoRecord.status = "absent" /\ NoRecord.claim = FALSE /\ NoRecord.sendErr = "none"
      /\ Idle.pc = "idle"
  BY DEF NoRecord, Idle
<1>4. \A t \in Threads : thr[t] = Idle
  BY DEF Init
<1>5. StoreInv
  BY <1>2, <1>3 DEF StoreInv
<1>6. ThreadInv /\ OneSendInFlight
  BY <1>3, <1>4 DEF ThreadInv, Exclusive, OneSendInFlight, Sending
<1>7. Budget
  BY <1>2, <1>3, <1>4 DEF Budget, RecordBudget, ThreadBudget
<1> QED BY <1>1, <1>5, <1>6, <1>7 DEF IInv

LEMMA IInvNext == IInv /\ [Next]_vars => IInv'
<1> SUFFICES ASSUME IInv, [Next]_vars PROVE IInv'
  OBVIOUS
<1>1. ASSUME NEW t \in Threads, Request(t) PROVE IInv'
  BY <1>1, SubmitStep, SubmitFailsStep, BeginStep DEF Request
<1>2. ASSUME NEW t \in Threads, Step(t) PROVE IInv'
  <2>1. CASE Send(t)
    BY <2>1, SendCases, SendStep DEF IInv
  <2>2. CASE ApproveVerdict(t) \/ BypassVerdict(t)
    BY <2>2, ApproveStep DEF ApproveVerdict, BypassVerdict
  <2> QED BY <1>2, <2>1, <2>2, DecideStep, RejectStep, ClaimStep, RecordStep, BounceStep
          DEF Step
<1>3. CASE Crash
  BY <1>3, CrashStep
<1>4. CASE Recover
  BY <1>4, OpenStep, ReconcileStep DEF Recover
<1>5. CASE UNCHANGED vars
  <2>1. TypeOK'
    BY <1>5 DEF vars, IInv, TypeOK, SluiceTypeOK
  <2>2. StoreInv' /\ ThreadInv' /\ OneSendInFlight' /\ Budget'
    BY <1>5 DEF vars, IInv, StoreInv, ThreadInv, Exclusive, OneSendInFlight, Sending,
                Budget, RecordBudget, ThreadBudget
  <2> QED BY <2>1, <2>2 DEF IInv
<1> QED BY <1>1, <1>2, <1>3, <1>4, <1>5 DEF Next

LEMMA IInvAlways == Spec => []IInv
  BY IInvInit, IInvNext, PTL DEF Spec

(* Every state of the outbound path has its declared types, whatever       *)
(* handlers run and wherever the process stops.                            *)
THEOREM TypeCorrect == Spec => []TypeOK
<1>1. IInv => TypeOK
  BY DEF IInv
<1> QED BY <1>1, IInvAlways, PTL

(* At most one send of a message is ever in flight, for any number of      *)
(* concurrent approve, bypass and re-send handlers.                        *)
THEOREM SendsExclusive == Spec => []OneSendInFlight
<1>1. IInv => OneSendInFlight
  BY DEF IInv
<1> QED BY <1>1, IInvAlways, PTL

(* The upstream accepts at most one copy of a message more than the        *)
(* operator acknowledged, through any races, retries, I/O failures and     *)
(* crashes.                                                                *)
THEOREM NoSilentDuplicate == Spec => []DuplicatesAcknowledged
<1>1. IInv => DuplicatesAcknowledged
  BY DEF IInv, Budget, RecordBudget, DuplicatesAcknowledged
<1> QED BY <1>1, IInvAlways, PTL
-----------------------------------------------------------------------------
(* Refinement: Outbound implements DeliveryGate.                           *)

verdicts == [id \in Ids |-> VerdictOf(recs[id])]

(* Steps after which every record has the verdict it had.                  *)
SameVerdicts == \A id \in Ids : VerdictOf(recs'[id]) = VerdictOf(recs[id])

LEMMA PutKeepsVerdict ==
  ASSUME TypeOK, NEW id \in Ids, NEW r \in Message, Put(id, r),
         VerdictOf(r) = VerdictOf(recs[id])
  PROVE  SameVerdicts
  BY PutType DEF TypeOK, SameVerdicts

LEMMA GateStutter ==
  ASSUME SameVerdicts, UNCHANGED <<copies, acks>>
  PROVE  UNCHANGED Gate!gateVars
  BY DEF Gate!gateVars, SameVerdicts

(* A verdict on a pending record is one Judge step of the gate.            *)
LEMMA PutJudges ==
  ASSUME TypeOK, NEW id \in Ids, NEW r \in Message, Put(id, r),
         VerdictOf(recs[id]) = "none", VerdictOf(r) \in {"release", "refuse"},
         UNCHANGED <<copies, acks>>
  PROVE  Gate!Judge(id)
<1>1. recs'[id] = r /\ \A j \in Ids \ {id} : recs'[j] = recs[j]
  BY PutType DEF TypeOK
<1>2. verdicts' = [verdicts EXCEPT ![id] = VerdictOf(r)]
  BY <1>1 DEF verdicts
<1> QED BY <1>2 DEF Gate!Judge, verdicts

LEMMA GateStep ==
  ASSUME IInv, [Next]_vars
  PROVE  [Gate!Next]_(Gate!gateVars)
<1>0. TypeOK /\ SluiceTypeOK /\ recs \in [Ids -> Message] /\ thr \in [Threads -> Thread]
  BY DEF IInv, TypeOK, SluiceTypeOK
<1>1. ASSUME recs' = recs, UNCHANGED <<copies, acks>> PROVE [Gate!Next]_(Gate!gateVars)
  BY <1>1, GateStutter DEF SameVerdicts
<1>2. ASSUME NEW t \in Threads, Request(t) PROVE [Gate!Next]_(Gate!gateVars)
  <2>1. CASE \E sub \in Submissions : Submit(t, sub)
    <3>1. PICK sub \in Submissions : Submit(t, sub)
      BY <2>1
    <3>2. seq + 1 \in Ids
      BY <1>0, <3>1, FreshId DEF Submit, Enqueue
    <3>3. recs[seq + 1] = NoRecord
      BY <1>0, <3>2 DEF IInv, StoreInv, SluiceTypeOK
    <3>4. VerdictOf(NoRecord) = "none" /\ VerdictOf(NewRecord(sub)) = "none"
      BY DEF VerdictOf, NewRecord, NoRecord
    <3>5. SameVerdicts
      BY <1>0, <3>1, <3>2, <3>3, <3>4 DEF Submit, Enqueue, SameVerdicts
    <3> QED BY <3>1, <3>5, GateStutter DEF Submit, histVars
  <2>2. CASE ~\E sub \in Submissions : Submit(t, sub)
    BY <1>1, <1>2, <2>2 DEF Request, SubmitFails, EnqueueRolledBack, BeginApprove,
                            BeginReject, BeginResend, sluiceVars, histVars
  <2> QED BY <2>1, <2>2
<1>3. ASSUME NEW t \in Threads, NEW op \in {"approve", "bypass"},
             NEW by \in {"chain", "bypass"}, CommitApprove(t, op, by)
      PROVE  [Gate!Next]_(Gate!gateVars)
  <2> DEFINE id == thr[t].id
             r == Approved(recs[id], by, thr[t].as)
  <2>1. id \in Ids /\ recs[id] \in Message /\ thr[t].as \in Inboxes \cup {NoInbox}
    BY <1>0 DEF Thread
  <2>2. CASE Approve(id, by, thr[t].as) /\ UNCHANGED histVars
    <3>1. r \in Message /\ r.status = "approved"
      BY <2>1, ApprovedType
    <3>2. VerdictOf(recs[id]) = "none" /\ VerdictOf(r) = "release"
      BY <2>2, <3>1 DEF VerdictOf, Approve, Pending
    <3>3. Gate!Judge(id)
      BY <1>0, <2>1, <2>2, <3>1, <3>2, PutJudges DEF Approve, histVars
    <3> QED BY <2>1, <3>3 DEF Gate!Next
  <2>3. CASE UNCHANGED <<sluiceVars, histVars>>
    BY <1>1, <2>3 DEF sluiceVars, histVars
  <2> QED BY <1>3, <2>2, <2>3 DEF CommitApprove, TxFails
<1>4. ASSUME NEW t \in Threads, RejectVerdict(t) PROVE [Gate!Next]_(Gate!gateVars)
  <2> DEFINE id == thr[t].id
             r == Rejected(recs[id])
  <2>1. id \in Ids /\ recs[id] \in Message
    BY <1>0 DEF Thread
  <2>2. CASE Reject(id) /\ UNCHANGED histVars
    <3>1. r \in Message /\ r.status = "rejected"
      BY <2>1, RejectedType
    <3>2. VerdictOf(recs[id]) = "none" /\ VerdictOf(r) = "refuse"
      BY <2>2, <3>1 DEF VerdictOf, Reject, Pending
    <3>3. Gate!Judge(id)
      BY <1>0, <2>1, <2>2, <3>1, <3>2, PutJudges DEF Reject, histVars
    <3> QED BY <2>1, <3>3 DEF Gate!Next
  <2>3. CASE UNCHANGED <<sluiceVars, histVars>>
    BY <1>1, <2>3 DEF sluiceVars, histVars
  <2> QED BY <1>4, <2>2, <2>3 DEF RejectVerdict, TxFails
<1>5. ASSUME NEW t \in Threads, Claim(t) PROVE [Gate!Next]_(Gate!gateVars)
  <2> DEFINE id == thr[t].id
             r == Claimed(recs[id])
  <2>1. id \in Ids /\ recs[id] \in Message
    BY <1>0 DEF Thread
  <2>2. CASE ClaimResend(id, thr[t].ack) /\ UNCHANGED copies
             /\ acks' = IF recs[id].sendErr = "unknown" /\ thr[t].ack
                        THEN [acks EXCEPT ![id] = Saturate(acks[id])] ELSE acks
    <3>1. r \in Message /\ r.status = recs[id].status
      BY <2>1, ClaimedType
    <3>2. SameVerdicts
      <4>1. VerdictOf(r) = VerdictOf(recs[id])
        BY <3>1 DEF VerdictOf
      <4> QED BY <1>0, <2>1, <2>2, <3>1, <4>1, PutKeepsVerdict DEF ClaimResend
    <3>3. CASE acks' = acks
      BY <2>2, <3>2, <3>3, GateStutter
    <3>4. CASE acks' = [acks EXCEPT ![id] = acks[id] + 1]
      <4>1. verdicts[id] = "release"
        BY <2>1, <2>2 DEF verdicts, VerdictOf, ClaimResend, Claimable, Resendable
      <4>2. UNCHANGED verdicts
        BY <3>2 DEF SameVerdicts, verdicts
      <4>3. Gate!Acknowledge(id)
        BY <2>2, <3>4, <4>1, <4>2 DEF Gate!Acknowledge, verdicts
      <4> QED BY <2>1, <4>3 DEF Gate!Next
    <3>5. acks' = acks \/ acks' = [acks EXCEPT ![id] = acks[id] + 1]
      BY <1>0, <2>1, <2>2 DEF Saturate, TypeOK
    <3> QED BY <3>3, <3>4, <3>5
  <2>3. CASE UNCHANGED <<sluiceVars, histVars>>
    BY <1>1, <2>3 DEF sluiceVars, histVars
  <2> QED BY <1>5, <2>2, <2>3 DEF Claim, TxFails
<1>6. ASSUME NEW t \in Threads, Send(t) PROVE [Gate!Next]_(Gate!gateVars)
  <2> DEFINE id == thr[t].id
  <2>1. id \in Ids
    BY <1>0 DEF Thread
  <2>2. PICK res \in {"ok", "unknown", "permanent", "failed"}, delivered \in BOOLEAN :
          SendAs(t, thr[t].via, res, delivered)
    BY <1>0, <1>6, SendCases
  <2>3. CASE delivered
    <3>1. /\ copies[id] < MaxCopies /\ copies' = [copies EXCEPT ![id] = @ + 1]
          /\ UNCHANGED <<recs, acks>> /\ thr[t].pc = "send"
      BY <2>2, <2>3 DEF SendAs, sluiceVars
    <3>2. copies[id] <= acks[id]
      BY <3>1 DEF IInv, Budget, ThreadBudget
    <3>3. verdicts[id] = "release"
      <4>1. recs[id].status = "approved"
        BY <3>1 DEF IInv, ThreadInv, Exclusive, Sending
      <4> QED BY <2>1, <4>1 DEF verdicts, VerdictOf
    <3>4. Gate!Deliver(id)
      BY <3>1, <3>2, <3>3 DEF Gate!Deliver, verdicts
    <3> QED BY <2>1, <3>4 DEF Gate!Next
  <2>4. CASE ~delivered
    BY <1>1, <2>2, <2>4 DEF SendAs, sluiceVars
  <2> QED BY <2>3, <2>4
<1>7. ASSUME NEW t \in Threads, Record(t) PROVE [Gate!Next]_(Gate!gateVars)
  <2> DEFINE id == thr[t].id
             res == thr[t].res
             r == Attempted(recs[id], res)
  <2>1. id \in Ids /\ recs[id] \in Message /\ res \in Results
    BY <1>0 DEF Thread
  <2>2. CASE RecordSendAttempt(id, res) /\ UNCHANGED histVars
    <3>1. r \in Message /\ r.status = IF res = "ok" THEN "sent" ELSE recs[id].status
      BY <2>1, AttemptedType
    <3>2. recs[id].status \in {"approved", "sent"}
      BY <2>2 DEF RecordSendAttempt, Recordable
    <3>3. VerdictOf(r) = VerdictOf(recs[id])
      BY <3>1, <3>2 DEF VerdictOf
    <3>4. SameVerdicts
      BY <1>0, <2>1, <2>2, <3>1, <3>3, PutKeepsVerdict DEF RecordSendAttempt
    <3> QED BY <2>2, <3>4, GateStutter DEF histVars
  <2>3. CASE UNCHANGED <<sluiceVars, histVars>>
    BY <1>1, <2>3 DEF sluiceVars, histVars
  <2> QED BY <1>7, <2>2, <2>3 DEF Record, TxFails
<1>8. ASSUME NEW id \in Ids, Reconcile(id) PROVE [Gate!Next]_(Gate!gateVars)
  <2> DEFINE r == Interrupted(recs[id])
  <2>1. r \in Message /\ r.status = recs[id].status
    BY <1>0, InterruptedType
  <2>2. VerdictOf(r) = VerdictOf(recs[id])
    BY <2>1 DEF VerdictOf
  <2>3. SameVerdicts
    BY <1>0, <1>8, <2>1, <2>2, PutKeepsVerdict DEF Reconcile, ReconcileClaim
  <2> QED BY <1>8, <2>3, GateStutter DEF Reconcile, histVars
<1>9. CASE \/ \E t \in Threads : Decide(t) \/ Bounce(t)
           \/ Crash \/ Open \/ Serve \/ UNCHANGED vars
  BY <1>1, <1>9 DEF Decide, Bounce, Crash, Open, Serve, SweepOrphans, vars, sluiceVars, histVars
<1> QED BY <1>2, <1>3, <1>4, <1>5, <1>6, <1>7, <1>8, <1>9
        DEF Next, Step, Recover, ApproveVerdict, BypassVerdict

(* The outbound path, with its handlers, store and crashes, implements the *)
(* delivery gate: nothing leaves before its one verdict releases it, and   *)
(* never again without an acknowledgement.                                 *)
THEOREM ImplementsGate == Spec => GateSpec
<1>1. Init => Gate!Init
  <2> SUFFICES ASSUME Init PROVE Gate!Init
    OBVIOUS
  <2>1. \A id \in Ids : VerdictOf(recs[id]) = "none"
    <3>1. NoRecord.status = "absent"
      BY DEF NoRecord
    <3>2. VerdictOf(NoRecord) = "none"
      BY <3>1 DEF VerdictOf
    <3> QED BY <3>2 DEF Init, SluiceInit
  <2> QED BY <2>1 DEF Init, Gate!Init
<1>2. IInv /\ [Next]_vars => [Gate!Next]_(Gate!gateVars)
  BY GateStep
<1> QED BY <1>1, <1>2, IInvAlways, PTL DEF Spec, GateSpec, Gate!Spec
=============================================================================
