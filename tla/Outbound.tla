------------------------------ MODULE Outbound ------------------------------
(***************************************************************************)
(* The outbound path end to end: the SMTP submission sink with the         *)
(* operator-identity bypass (cmd/darbaan/main.go), the admin service's     *)
(* approve, reject and re-send handlers (internal/admin/service.go), the   *)
(* upstream sender (internal/backend), the bounce, and the store Sluice    *)
(* with its crash recovery.                                                *)
(*                                                                         *)
(* Every handler runs in its own goroutine and takes no lock of its own;   *)
(* only the store's transactions serialise them.  So a handler is a        *)
(* thread, with one step per store transaction, upstream send or bounce    *)
(* delivery, and the steps of different threads interleave freely.  The    *)
(* process may stop between any two steps; the store, the delivered copies *)
(* and the bounces survive, the threads do not.                            *)
(***************************************************************************)
EXTENDS Sluice

CONSTANTS
    Threads,       \* concurrent handlers
    OperatorIds,   \* operator_identities: recipients that bypass the hold
    Configs,       \* the configurations a start may load: [senders, identities]
    Stages,        \* number of manual approvers in the strict chain
    Faults,        \* which I/O may fail: "disk", "blobRead", "bounce"
    MaxCrashes,    \* bound on process stops
    MaxCopies      \* bound on the copies of one message the upstream accepts

ASSUME OutboundAssumption ==
    /\ OperatorIds \subseteq Addresses
    /\ Configs \subseteq [senders : SUBSET Inboxes, identities : SUBSET Inboxes]
    /\ Configs # {}
    /\ Stages \in Nat
    /\ Faults \subseteq {"disk", "blobRead", "bounce"}
    /\ MaxCrashes \in Nat
    /\ MaxCopies \in Nat \ {0}

VARIABLES
    phase,     \* the process: "up", "down" or "opening" (the store is reopened)
    cfg,       \* the loaded configuration
    thr,       \* the handlers in flight
    crashes,   \* how often the process has stopped
    copies,    \* history: copies of each message the upstream accepted
    vias,      \* history: the inboxes it was delivered through
    acks,      \* history: claims that acknowledged an unknown outcome
    bounced    \* messages whose agent got a bounce

procVars == <<phase, cfg, crashes>>
histVars == <<copies, vias, acks, bounced>>
vars == <<seq, recs, blobs, phase, cfg, thr, crashes, copies, vias, acks, bounced>>

Ops == {"none", "approve", "reject", "resend", "bypass"}
Results == {"none", "ok", "unknown", "permanent", "failed"}

Thread ==
    [pc : {"idle", "decide", "commit", "claim", "send", "record", "bounce"},
     op : Ops, id : Ids, as : Inboxes \cup {NoInbox}, ack : BOOLEAN,
     via : Inboxes \cup {NoInbox}, res : Results]

Idle == [pc |-> "idle", op |-> "none", id |-> 1, as |-> NoInbox, ack |-> FALSE,
         via |-> NoInbox, res |-> "none"]

TypeOK ==
    /\ SluiceTypeOK
    /\ phase \in {"up", "down", "opening"}
    /\ cfg \in Configs
    /\ thr \in [Threads -> Thread]
    /\ crashes \in 0..MaxCrashes
    /\ copies \in [Ids -> 0..MaxCopies]
    /\ vias \in [Ids -> SUBSET Inboxes]
    /\ acks \in [Ids -> 0..MaxCopies]
    /\ bounced \in SUBSET Ids

Init ==
    /\ SluiceInit
    /\ phase = "up"
    /\ cfg \in Configs
    /\ thr = [t \in Threads |-> Idle]
    /\ crashes = 0
    /\ copies = [id \in Ids |-> 0]
    /\ vias = [id \in Ids |-> {}]
    /\ acks = [id \in Ids |-> 0]
    /\ bounced = {}

-----------------------------------------------------------------------------
(* opidentity.AllMatch: the bypass is on, and every recipient is an        *)
(* operator identity (an empty recipient list matches nothing).            *)
MutAnyMatch(rcpt) == rcpt \cap OperatorIds # {}

AllMatch(rcpt) == rcpt # {} /\ rcpt \subseteq OperatorIds

(* What a read of a message's body may yield: a missing file always fails. *)
Loads(id) ==
    IF blobs[id] = NoBody THEN {FALSE}
    ELSE IF "blobRead" \in Faults THEN BOOLEAN ELSE {TRUE}

(* The inbox an approved message is sent through: the one an ApproveAs     *)
(* chose, else the one stamped at submission.                              *)
SendInbox(r) == IF r.asInbox # NoInbox THEN r.asInbox ELSE r.sub.inbox

Running(t, pc, op) ==
    phase = "up" /\ thr[t].pc = pc /\ thr[t].op = op

Start(t, op, id, as, ack, via, pc) ==
    thr' = [thr EXCEPT ![t] = [pc |-> pc, op |-> op, id |-> id, as |-> as,
                               ack |-> ack, via |-> via, res |-> "none"]]

Goto(t, pc) == thr' = [thr EXCEPT ![t] = [@ EXCEPT !.pc = pc]]

Return(t) == thr' = [thr EXCEPT ![t] = Idle]

(* An I/O error of a store transaction: nothing is committed and the       *)
(* handler returns the error.                                              *)
TxFails(t) == "disk" \in Faults /\ Return(t) /\ UNCHANGED <<sluiceVars, histVars>>

-----------------------------------------------------------------------------
(* Submission (session.Data, operatorBypassQueue.Enqueue).  A route always *)
(* names a configured inbox, and every configured inbox has a sender.      *)
Submit(t, sub) ==
    /\ Running(t, "idle", "none")
    /\ sub.inbox \in cfg.senders
    /\ Enqueue(sub)
    /\ IF AllMatch(sub.rcpt)
       THEN Start(t, "bypass", seq + 1, NoInbox, FALSE, NoInbox, "commit")
       ELSE UNCHANGED thr
    /\ UNCHANGED <<procVars, histVars>>

(* The submission is answered 451: the client may submit again.            *)
SubmitFails(t, sub) ==
    /\ Running(t, "idle", "none")
    /\ "disk" \in Faults
    /\ sub.inbox \in cfg.senders
    /\ EnqueueRolledBack(sub)
    /\ UNCHANGED <<thr, procVars, histVars>>

(* ApproveID (as = NoInbox) or ApproveAs.  The latter checks the named     *)
(* inbox and rewrites the header before anything is committed; a refusal   *)
(* changes nothing.                                                        *)
BeginApprove(t, id, as) ==
    /\ Running(t, "idle", "none")
    /\ id \in Live
    /\ as # NoInbox => /\ as \in cfg.identities
                       /\ as \in cfg.senders
                       /\ Pending(id)
                       /\ TRUE \in Loads(id)
    /\ Start(t, "approve", id, as, FALSE, NoInbox, "decide")
    /\ UNCHANGED <<sluiceVars, procVars, histVars>>

BeginReject(t, id) ==
    /\ Running(t, "idle", "none")
    /\ id \in Live
    /\ Start(t, "reject", id, NoInbox, FALSE, NoInbox, "decide")
    /\ UNCHANGED <<sluiceVars, procVars, histVars>>

(* Service.decide up to the store call: read the record, refuse one that   *)
(* is not pending, run the chain.  Every approver is the manual one and    *)
(* returns the operator's verdict; an empty chain holds the message.       *)
Decide(t) ==
    /\ \/ Running(t, "decide", "approve")
       \/ Running(t, "decide", "reject")
    /\ \E ok \in Loads(thr[t].id) :
         IF ok /\ Pending(thr[t].id) /\ Stages > 0
         THEN Goto(t, "commit")
         ELSE Return(t)
    /\ UNCHANGED <<sluiceVars, procVars, histVars>>

(* The verdict commits only if the record is still pending; the body is    *)
(* read back after the commit, and a failed read ends the handler there.   *)
CommitApprove(t, op, by) ==
    LET id == thr[t].id IN
    /\ Running(t, "commit", op)
    /\ \/ /\ Approve(id, by, thr[t].as)
          /\ \E ok \in Loads(id) :
               IF ok
               THEN thr' = [thr EXCEPT ![t] =
                              [@ EXCEPT !.pc = "send", !.via = SendInbox(recs'[id])]]
               ELSE Return(t)
          /\ UNCHANGED histVars
       \/ ~Pending(id) /\ Return(t) /\ UNCHANGED <<sluiceVars, histVars>>
       \/ TxFails(t)
    /\ UNCHANGED procVars

ApproveVerdict(t) == CommitApprove(t, "approve", "chain")

BypassVerdict(t) == CommitApprove(t, "bypass", "bypass")

RejectVerdict(t) ==
    LET id == thr[t].id IN
    /\ Running(t, "commit", "reject")
    /\ \/ /\ Reject(id)
          /\ \E ok \in Loads(id) : IF ok THEN Goto(t, "bounce") ELSE Return(t)
          /\ UNCHANGED histVars
       \/ ~Pending(id) /\ Return(t) /\ UNCHANGED <<sluiceVars, histVars>>
       \/ TxFails(t)
    /\ UNCHANGED procVars

(* ReSend up to the claim: the record is read, and the inbox of an         *)
(* approved-as message must still have an identity.                        *)
BeginResend(t, id, ack) ==
    LET as == recs[id].asInbox IN
    /\ Running(t, "idle", "none")
    /\ id \in Live
    /\ Resendable(id)
    /\ TRUE \in Loads(id)
    /\ as # NoInbox => as \in cfg.identities
    /\ Start(t, "resend", id, as, ack, SendInbox(recs[id]), "claim")
    /\ UNCHANGED <<sluiceVars, procVars, histVars>>

Saturate(n) == IF n < MaxCopies THEN n + 1 ELSE n

Claim(t) ==
    LET id == thr[t].id IN
    /\ Running(t, "claim", "resend")
    /\ \/ /\ ClaimResend(id, thr[t].ack)
          /\ Goto(t, "send")
          /\ acks' = IF recs[id].sendErr = "unknown" /\ thr[t].ack
                     THEN [acks EXCEPT ![id] = Saturate(acks[id])] ELSE acks
          /\ UNCHANGED <<copies, vias, bounced>>
       \/ /\ ~Claimable(id, thr[t].ack)
          /\ Return(t)
          /\ UNCHANGED <<sluiceVars, histVars>>
       \/ TxFails(t)
    /\ UNCHANGED procVars

(* sendVia and the sender.  No configured sender, a failure before the end *)
(* of the body, a 4xx and a 5xx leave the message undelivered; a failure   *)
(* at the final reply is unknown, delivered or not.                        *)
SendAs(t, via, res, delivered) ==
    /\ phase = "up" /\ thr[t].pc = "send"
    /\ thr' = [thr EXCEPT ![t] = [@ EXCEPT !.pc = "record", !.res = res]]
    /\ IF delivered
       THEN /\ copies[thr[t].id] < MaxCopies
            /\ copies' = [copies EXCEPT ![thr[t].id] = @ + 1]
            /\ vias' = [vias EXCEPT ![thr[t].id] = @ \cup {via}]
       ELSE UNCHANGED <<copies, vias>>
    /\ UNCHANGED <<sluiceVars, procVars, acks, bounced>>

MutSendThroughAnySender(t) ==
    LET via == IF thr[t].via \in cfg.senders THEN thr[t].via
               ELSE CHOOSE i \in cfg.senders : TRUE
    IN  \/ SendAs(t, via, "failed", FALSE)
        \/ SendAs(t, via, "ok", TRUE)

Send(t) ==
    LET via == thr[t].via IN
    \/ SendAs(t, via, "failed", FALSE)
    \/ /\ via \in cfg.senders
       /\ \/ SendAs(t, via, "ok", TRUE)
          \/ \E delivered \in BOOLEAN : SendAs(t, via, "unknown", delivered)
          \/ SendAs(t, via, "permanent", FALSE)

(* RecordSendAttempt, then the outcome switch: a permanent failure of an   *)
(* operator's send bounces the agent; the bypass never bounces.            *)
MutBouncesUnknown(th) == th.res \in {"permanent", "unknown"} /\ th.op # "bypass"

Bounces(th) == th.res = "permanent" /\ th.op # "bypass"

Record(t) ==
    LET id == thr[t].id IN
    /\ phase = "up" /\ thr[t].pc = "record"
    /\ \/ /\ RecordSendAttempt(id, thr[t].res)
          /\ IF Bounces(thr[t]) THEN Goto(t, "bounce") ELSE Return(t)
          /\ UNCHANGED histVars
       \/ /\ ~Recordable(id, thr[t].res)
          /\ Return(t)
          /\ UNCHANGED <<sluiceVars, histVars>>
       \/ TxFails(t)
    /\ UNCHANGED procVars

(* deliverBounce: a failure is only reported in the handler's warning.     *)
Bounce(t) ==
    /\ phase = "up" /\ thr[t].pc = "bounce"
    /\ \/ bounced' = bounced \cup {thr[t].id}
       \/ "bounce" \in Faults /\ UNCHANGED bounced
    /\ Return(t)
    /\ UNCHANGED <<sluiceVars, procVars, copies, vias, acks>>

-----------------------------------------------------------------------------
Crash ==
    /\ phase # "down" /\ crashes < MaxCrashes
    /\ crashes' = crashes + 1
    /\ phase' = "down"
    /\ thr' = [t \in Threads |-> Idle]
    /\ UNCHANGED <<sluiceVars, cfg, histVars>>

(* newBbolt: sweep, then one transaction per leftover claim, then serve.   *)
Open ==
    /\ phase = "down"
    /\ phase' = "opening"
    /\ cfg' \in Configs
    /\ SweepOrphans
    /\ UNCHANGED <<thr, crashes, histVars>>

Reconcile(id) ==
    /\ phase = "opening"
    /\ ReconcileClaim(id)
    /\ UNCHANGED <<thr, procVars, histVars>>

MutServeUnreconciled ==
    /\ phase = "opening"
    /\ phase' = "up"
    /\ UNCHANGED <<sluiceVars, cfg, crashes, thr, histVars>>

Serve ==
    /\ phase = "opening"
    /\ \A id \in Ids : ~recs[id].claim
    /\ phase' = "up"
    /\ UNCHANGED <<sluiceVars, cfg, crashes, thr, histVars>>

Request(t) ==
    \/ \E sub \in Submissions : Submit(t, sub) \/ SubmitFails(t, sub)
    \/ \E id \in Ids :
         \/ \E as \in Inboxes \cup {NoInbox} : BeginApprove(t, id, as)
         \/ BeginReject(t, id)
         \/ \E ack \in BOOLEAN : BeginResend(t, id, ack)

Step(t) ==
    \/ Decide(t) \/ ApproveVerdict(t) \/ BypassVerdict(t) \/ RejectVerdict(t)
    \/ Claim(t) \/ Send(t) \/ Record(t) \/ Bounce(t)

Recover == Open \/ Serve \/ \E id \in Ids : Reconcile(id)

Next == (\E t \in Threads : Request(t) \/ Step(t)) \/ Crash \/ Recover

Spec == Init /\ [][Next]_vars

(* A handler that started keeps running (the send has an overall deadline, *)
(* sendTimeout), and a supervisor restarts a stopped process.              *)
Fairness == WF_vars(Recover) /\ \A t \in Threads : WF_vars(Step(t))

FairSpec == Spec /\ Fairness
-----------------------------------------------------------------------------
(* Properties.                                                             *)

Sending(t) == thr[t].pc \in {"send", "record"}

(* Two handlers never have a send of the same message in flight: the first *)
(* send excludes itself by the verdict, a re-send by its claim (ReSend's   *)
(* comment: two concurrent re-sends cannot both deliver).                  *)
OneSendInFlight ==
    \A s, t \in Threads :
        s # t /\ Sending(s) /\ Sending(t) => thr[s].id # thr[t].id

(* The upstream accepts a further copy of a message only if the operator   *)
(* acknowledged an unknown outcome once more: a crash, a retry or a race   *)
(* never duplicates mail behind the operator's back (ADR 0039).            *)
DuplicatesAcknowledged == \A id \in Ids : copies[id] <= 1 + acks[id]

(* Default deny: what left was released by the approval chain, or by the   *)
(* bypass with operator identities as its only recipients; a rejected or   *)
(* held message never left (ADR 0003, ADR 0034).                           *)
HeldUntilReleased ==
    \A id \in Ids : copies[id] > 0 =>
        /\ recs[id].status \in {"approved", "sent"}
        /\ \/ recs[id].decidedBy = "chain"
           \/ recs[id].decidedBy = "bypass" /\ recs[id].sub.rcpt \subseteq OperatorIds

(* Every copy, the first or a re-send after a restart with another         *)
(* configuration, leaves through the inbox that was approved: the one an   *)
(* ApproveAs chose, else the stamped one (C25, senderFor, ReSend).         *)
DeliveredAsApproved ==
    \A id \in Live : vias[id] \subseteq {SendInbox(recs[id])}

(* The content tier is written first and never swept under a live record:  *)
(* a record's blob exists and holds its own body, even when a rolled-back  *)
(* enqueue left another body under the id it reuses (Enqueue, newBbolt).   *)
ContentMatchesRecord == \A id \in Live : blobs[id] = recs[id].sub

(* While the process serves, a claim belongs to a re-send in flight, so    *)
(* none is left behind by an early return or a restart (ReSend,            *)
(* reconcileClaims).  A claim whose record transaction failed on disk is   *)
(* the exception: it stays until the next start.                           *)
ClaimHeld ==
    \A id \in Ids : recs[id].claim =>
        /\ Resendable(id)
        /\ phase = "up" /\ "disk" \notin Faults =>
             \E t \in Threads : Sending(t) /\ thr[t].op = "resend" /\ thr[t].id = id

(* A delivered or a rejected message keeps its status and never gains a    *)
(* send error, whatever handlers still run (RecordSendAttempt, C26).       *)
Final(r) == r.status \in {"sent", "rejected"}

VerdictIsFinal ==
    [][\A id \in Ids : Final(recs[id]) => recs'[id] = recs[id]]_vars

(* A bounce reports a failed delivery.  When a permanent failure schedules *)
(* one, no copy has been delivered, unless the operator chose to re-send   *)
(* an unknown outcome (approve and ReSend never bounce an unknown one).    *)
BounceReportsFailure ==
    [][\A t \in Threads :
         thr[t].pc = "record" /\ thr'[t].pc = "bounce" /\ copies[thr[t].id] > 0
           => acks[thr[t].id] > 0]_vars

(* A re-send claim is always released: by the recorded outcome, or by the  *)
(* next start if the process stopped (ADR 0039, sections 2 and 3).         *)
ClaimReleased == \A id \in Ids : recs[id].claim ~> ~recs[id].claim

(* An approval reaches a recorded outcome, so the message can be seen as   *)
(* sent or as failed and re-sendable, unless the process stops first.      *)
Concluded(id) == recs[id].status = "sent" \/ Resendable(id)

ApprovalConcludes ==
    \A id \in Ids :
        recs[id].status = "approved" /\ crashes = 0 ~> Concluded(id) \/ crashes > 0

(* What the approval gate promises its operator, without store, threads or *)
(* crashes: see DeliveryGate.                                              *)
VerdictOf(r) == CASE r.status \in {"approved", "sent"} -> "release"
                  [] r.status = "rejected" -> "refuse"
                  [] OTHER -> "none"

Gate == INSTANCE DeliveryGate WITH
          Messages <- Ids, Bound <- MaxCopies,
          verdict <- [id \in Ids |-> VerdictOf(recs[id])]

GateSpec == Gate!Spec

=============================================================================
