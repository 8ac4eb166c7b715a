------------------------------ MODULE Telegram ------------------------------
(***************************************************************************)
(* The Telegram approval client: a poll loop that posts a card for every   *)
(* decision that waits for the operator, and a goroutine per button tap or *)
(* reply that relays the decision to the admin service.  The two share     *)
(* only the de-duplication sets and the reason prompts, each access under  *)
(* the mutex; every call of the admin or the Telegram API is a step of its *)
(* own, and may fail.                                                      *)
(*                                                                         *)
(* An item is one entry of a queue: an outgoing message, a held incoming   *)
(* message or a suspended inbox.  The service behind the API is modelled   *)
(* by what one call does to the item; Outbound and ReadFace have the       *)
(* detail.  The taps of anyone but the operator change nothing.            *)
(***************************************************************************)
EXTENDS Naturals, FiniteSets

CONSTANTS
    Items, NoItem,
    Handlers,           \* handler goroutines that may run at once
    MaxCards,           \* cards in the chat that still matter
    ManyIdentities,     \* configuration: two identities or more
    MaxFaults           \* failed calls, and restarts of the client

ASSUME TelegramAssumption ==
    /\ NoItem \notin Items
    /\ MaxCards \in Nat \ {0} /\ MaxFaults \in Nat
    /\ ManyIdentities \in BOOLEAN

VARIABLES
    st,         \* the service's state of each item
    cards,      \* the cards in the operator's chat
    seen,       \* posted, postedFailed, postedHolds, postedLatches
    prompts,    \* pending: reason prompts awaiting a reply
    poll,       \* the poll loop
    hs,         \* the handlers
    told,       \* history: suspended inboxes the operator was alerted of
    lost,       \* history: items whose card is gone although they wait
    faults

chatVars == <<cards, prompts, told>>
vars == <<st, cards, seen, prompts, poll, hs, told, lost, faults>>

(* closed: sent, rejected, or retracted; no card is ever for it again.     *)
States == {"absent", "pending", "sending", "failed", "unknown", "resending", "closed",
           "held", "exposed", "dropped", "suspended", "clear"}
Queues == {"pending", "failed", "held", "latched"}
Cards == 1..MaxCards

Buttons == {"decide", "picker", "failed", "confirm", "hold"}
Card == [item : Items \cup {NoItem}, face : Buttons \cup {"none"}]
Blank == [item |-> NoItem, face |-> "none"]

Prompt == [item : Items, card : Cards]

Ops == {"approve", "change", "back", "reject", "reply", "expose", "drop", "resend",
        "resendAck", "resendBack"}

(* late: history, the item was decided before the tap; checked: the        *)
(* handler's own lookup succeeded.                                         *)
Handler == [pc : {"idle", "guard", "call", "wait", "prompt", "remember", "strip", "edit",
                  "confirm", "forget"},
            op : Ops, item : Items \cup {NoItem}, card : Cards \cup {0}, late : BOOLEAN,
            checked : BOOLEAN]
Idle == [pc |-> "idle", op |-> "approve", item |-> NoItem, card |-> 0, late |-> FALSE,
         checked |-> FALSE]

(* The values each part of the state takes.                                *)
TypeOK ==
    /\ st \in [Items -> States]
    /\ cards \in [Cards -> Card]
    /\ seen \in [Queues -> SUBSET Items]
    /\ prompts \in SUBSET Prompt
    /\ poll \in [pc : Queues, snap : [Items -> States], todo : SUBSET Items,
                 mark : Items \cup {NoItem}]
    /\ hs \in [Handlers -> Handler]
    /\ told \in SUBSET Items /\ lost \in SUBSET Items
    /\ faults \in 0..MaxFaults

NoSnap == [i \in Items |-> "absent"]
At(pc) == [pc |-> pc, snap |-> NoSnap, todo |-> {}, mark |-> NoItem]

Init ==
    /\ st = [i \in Items |-> "absent"]
    /\ cards = [c \in Cards |-> Blank]
    /\ seen = [q \in Queues |-> {}]
    /\ prompts = {}
    /\ poll = At("latched")
    /\ hs = [h \in Handlers |-> Idle]
    /\ told = {} /\ lost = {}
    /\ faults = 0

Fault == faults < MaxFaults /\ faults' = faults + 1
NoFault == UNCHANGED faults

-----------------------------------------------------------------------------
(* The service and the world around it.                                    *)

(* failedSend: approved, the last send failed, no re-send running.         *)
FailedSend(s) == s \in {"failed", "unknown"}

Arrive(i) ==
    /\ \/ st[i] = "absent" /\ st' = [st EXCEPT ![i] = "pending"]
       \/ st[i] = "absent" /\ st' = [st EXCEPT ![i] = "held"]
    /\ UNCHANGED <<chatVars, seen, poll, hs, lost, faults>>

Retract(i) ==
    /\ st[i] = "held" /\ st' = [st EXCEPT ![i] = "closed"]
    /\ UNCHANGED <<chatVars, seen, poll, hs, lost, faults>>

(* A latch that returns before the poll has noticed its release is not     *)
(* alerted again.                                                          *)
Suspend(i) ==
    /\ st[i] \in {"absent", "clear"}
    /\ st' = [st EXCEPT ![i] = "suspended"]
    /\ told' = told \ {i}
    /\ lost' = IF i \in seen["latched"] \/ (poll.pc = "latched" /\ poll.mark = i)
               THEN lost \cup {i} ELSE lost
    /\ UNCHANGED <<cards, prompts, seen, poll, hs, faults>>

Release(i) ==
    /\ st[i] = "suspended" /\ st' = [st EXCEPT ![i] = "clear"]
    /\ UNCHANGED <<chatVars, seen, poll, hs, lost, faults>>

(* What one accepted call makes of an item.  SetHold takes any decision on *)
(* a message that exists.                                                  *)
Accepts(op, s) ==
    CASE op = "approve" -> s = "pending"
      [] op = "reply" -> s = "pending"
      [] op \in {"expose", "drop"} -> s \in {"held", "exposed", "dropped"}
      [] op = "resend" -> s = "failed"
      [] op = "resendAck" -> FailedSend(s)
      [] OTHER -> FALSE

Effect(op) ==
    CASE op = "approve" -> "sending"
      [] op = "reply" -> "closed"
      [] op = "expose" -> "exposed"
      [] op = "drop" -> "dropped"
      [] op \in {"resend", "resendAck"} -> "resending"

(* Verdicts given at the command line.                                     *)
Cli(i) ==
    /\ \E op \in {"approve", "reply", "expose", "drop", "resendAck"} :
         Accepts(op, st[i]) /\ st' = [st EXCEPT ![i] = Effect(op)]
    /\ UNCHANGED <<chatVars, seen, poll, hs, lost, faults>>

Returned(i) ==
    [h \in Handlers |-> IF hs[h].pc = "wait" /\ hs[h].item = i
                        THEN [hs[h] EXCEPT !.pc = "edit"] ELSE hs[h]]

(* The send ends, its outcome is recorded and the call returns.            *)
Settle(i) ==
    /\ st[i] \in {"sending", "resending"}
    /\ \E s \in {"closed", "failed", "unknown"} : st' = [st EXCEPT ![i] = s]
    /\ hs' = Returned(i)
    /\ UNCHANGED <<chatVars, seen, poll, lost, faults>>

(* A stop of the service in a send: a re-send is settled as unknown when   *)
(* the service starts, a first send keeps no error and no card.            *)
ServeStops(i) ==
    /\ st[i] \in {"sending", "resending"}
    /\ st' = [st EXCEPT ![i] = IF @ = "sending" THEN "closed" ELSE "unknown"]
    /\ hs' = Returned(i)
    /\ Fault
    /\ UNCHANGED <<chatVars, seen, poll, lost>>

-----------------------------------------------------------------------------
(* Keyboards.                                                              *)

FaceOf(q) ==
    CASE q = "pending" -> "decide"
      [] q = "failed" -> "failed"
      [] q = "held" -> "hold"

(* The buttons a card offers.  The sender can be changed once two          *)
(* identities are loaded: the picker is one way more to approve.           *)
Offers(face) ==
    CASE face = "decide" -> {"approve", "reject"} \cup (IF ManyIdentities THEN {"change"} ELSE {})
      [] face = "picker" -> {"approve", "back"}
      [] face = "failed" -> {"resend"}
      [] face = "confirm" -> {"resendAck", "resendBack"}
      [] face = "hold" -> {"expose", "drop"}
      [] face = "none" -> {}

(* A card no handler or prompt refers to and without buttons is inert: its *)
(* place is used again.                                                    *)
Inert(c) ==
    /\ cards[c].face = "none"
    /\ \A p \in prompts : p.card # c
    /\ \A h \in Handlers : hs[h].card # c

-----------------------------------------------------------------------------
(* The poll loop.                                                          *)

Awaits(q, s) ==
    CASE q = "pending" -> s = "pending"
      [] q = "failed" -> FailedSend(s)
      [] q = "held" -> s = "held"
      [] q = "latched" -> s = "suspended"

(* pruneFailed also keeps an item whose re-send is running.                *)
MutKeepsAll(q, s) == TRUE

Keeps(q, s) == Awaits(q, s) \/ (q = "failed" /\ s = "resending")

(* The queue is listed, the de-duplication set pruned to it, and what is   *)
(* new is to be posted.  Only pollFailed uses a listing again.             *)
Turn(q, snap) ==
    /\ seen' = [seen EXCEPT ![q] = {i \in @ : Keeps(q, snap[i])}]
    /\ poll' = [At(q) EXCEPT !.todo = {i \in Items : Awaits(q, snap[i])},
                             !.snap = IF q = "pending" THEN snap ELSE @]

Listed(q) == Turn(q, st) /\ NoFault
ListFails(q) == poll' = At(q) /\ UNCHANGED seen /\ Fault

Finished(pc) == poll.pc = pc /\ poll.todo = {} /\ poll.mark = NoItem

(* A failed listing ends poll, pollFailed included.                        *)
PollQueue ==
    /\ Finished("latched")
    /\ Listed("pending") \/ ListFails("failed")
    /\ UNCHANGED <<st, chatVars, hs, lost>>

(* pollFailed works on the listing poll made before it posted its cards.   *)
PollFailed ==
    /\ Finished("pending")
    /\ Turn("failed", poll.snap)
    /\ NoFault
    /\ UNCHANGED <<st, chatVars, hs, lost>>

PollHolds ==
    /\ Finished("failed")
    /\ Listed("held") \/ ListFails("held")
    /\ UNCHANGED <<st, chatVars, hs, lost>>

PollReconcile ==
    /\ Finished("held")
    /\ Listed("latched") \/ ListFails("latched")
    /\ UNCHANGED <<st, chatVars, hs, lost>>

(* The message is sent: the card is in the chat before the client knows.   *)
Appears(i) ==
    IF poll.pc = "latched"
    THEN told' = told \cup {i} /\ UNCHANGED cards
    ELSE /\ \E c \in Cards :
              /\ Inert(c) /\ \A d \in Cards : Inert(d) => c <= d
              /\ cards' = [cards EXCEPT ![c] = [item |-> i, face |-> FaceOf(poll.pc)]]
         /\ UNCHANGED told

(* notify, notifyHold, notifyLatch: an item seen meanwhile is passed over, *)
(* and an item whose message failed is left for the next round, whether    *)
(* or not the card was posted.                                             *)
MutNotify(i) ==
    /\ i \in poll.todo /\ poll.mark = NoItem
    /\ \/ /\ i \notin seen[poll.pc]
          /\ Appears(i)
          /\ poll' = [poll EXCEPT !.mark = i]
          /\ lost' = lost \ {i}
          /\ NoFault
       \/ /\ i \notin seen[poll.pc]
          /\ UNCHANGED <<cards, told>>
          /\ poll' = [poll EXCEPT !.mark = i]
          /\ UNCHANGED lost /\ Fault
       \/ /\ i \in seen[poll.pc]
          /\ poll' = [poll EXCEPT !.todo = @ \ {i}]
          /\ UNCHANGED <<cards, told, lost>> /\ NoFault
    /\ UNCHANGED <<st, prompts, seen, hs>>

Notify(i) ==
    /\ i \in poll.todo /\ poll.mark = NoItem
    /\ \/ /\ i \notin seen[poll.pc]
          /\ Appears(i)
          /\ poll' = [poll EXCEPT !.mark = i]
          /\ lost' = lost \ {i}
          /\ NoFault
       \/ /\ i \notin seen[poll.pc]
          /\ Appears(i) \/ UNCHANGED <<cards, told>>
          /\ poll' = [poll EXCEPT !.todo = @ \ {i}]
          /\ UNCHANGED lost /\ Fault
       \/ /\ i \in seen[poll.pc]
          /\ poll' = [poll EXCEPT !.todo = @ \ {i}]
          /\ UNCHANGED <<cards, told, lost>> /\ NoFault
    /\ UNCHANGED <<st, prompts, seen, hs>>

(* The queue a button serves.                                              *)
Serves(op) ==
    CASE op \in {"approve", "change", "back", "reject", "reply"} -> "pending"
      [] op \in {"resend", "resendAck", "resendBack"} -> "failed"
      [] op \in {"expose", "drop"} -> "held"

(* The operator can decide an item: a card has a button for it, or a       *)
(* prompt waits, or a handler is at work, or the operator was alerted.     *)
InHand(q, i) ==
    \/ \E c \in Cards :
         cards[c].item = i /\ \E op \in Offers(cards[c].face) : Serves(op) = q
    \/ q = "latched" /\ i \in told
    \/ q = "pending" /\ \E p \in prompts : p.item = i
    \/ \E h \in Handlers : hs[h].item = i /\ Serves(hs[h].op) = q

(* markPosted, markFailed(true), markPostedHold, markPostedLatch           *)
Mark ==
    LET i == poll.mark IN
    /\ i # NoItem
    /\ seen' = [seen EXCEPT ![poll.pc] = @ \cup {i}]
    /\ poll' = [poll EXCEPT !.todo = @ \ {i}, !.mark = NoItem]
    /\ NoFault
    /\ UNCHANGED <<st, chatVars, hs, lost>>

-----------------------------------------------------------------------------
(* The handlers.                                                           *)

Goto(h, pc) == hs' = [hs EXCEPT ![h].pc = pc]
Done(h) == hs' = [hs EXCEPT ![h] = Idle]

FirstStep(op) ==
    CASE op \in {"approve", "reject", "expose", "drop"} -> "guard"
      [] op \in {"resend"} -> "guard"
      [] op \in {"change", "back", "resendBack"} -> "edit"
      [] op \in {"resendAck", "reply"} -> "call"

Decided(s) == s \in {"exposed", "dropped"}

Tap(h, c, op) ==
    /\ hs[h].pc = "idle"
    /\ op \in Offers(cards[c].face)
    /\ hs' = [hs EXCEPT ![h] = [pc |-> FirstStep(op), op |-> op, item |-> cards[c].item,
                                card |-> c, late |-> Decided(st[cards[c].item]),
                                checked |-> FALSE]]
    /\ NoFault
    /\ UNCHANGED <<st, chatVars, seen, poll, lost>>

(* handleReasonReply takes the prompt and rejects.                         *)
Reply(h, p) ==
    /\ hs[h].pc = "idle"
    /\ p \in prompts
    /\ prompts' = prompts \ {p}
    /\ hs' = [hs EXCEPT ![h] = [Idle EXCEPT !.pc = "call", !.op = "reply",
                                            !.item = p.item, !.card = p.card]]
    /\ NoFault
    /\ UNCHANGED <<st, cards, told, seen, poll, lost>>

(* pendingGuardResult, guardHeld and outcomeUnknown: what a handler does   *)
(* next, given what it found.                                              *)
PendingGuardResult(op, s) ==
    IF s # "pending" THEN "strip" ELSE IF op = "reject" THEN "prompt" ELSE "call"

MutGuardHeld(s) == "call"

GuardHeld(s) == IF s = "held" THEN "call" ELSE "strip"

OutcomeUnknown(s) == IF s = "unknown" THEN "confirm" ELSE "call"

Guarded(op, s) ==
    CASE op \in {"approve", "reject"} -> PendingGuardResult(op, s)
      [] op \in {"expose", "drop"} -> GuardHeld(s)
      [] op = "resend" -> OutcomeUnknown(s)

(* The lookup; when it fails the handler goes on.                          *)
Guard(h) ==
    LET op == hs[h].op IN
    /\ hs[h].pc = "guard"
    /\ \/ /\ hs' = [hs EXCEPT ![h].pc = Guarded(op, st[hs[h].item]), ![h].checked = TRUE]
          /\ NoFault
       \/ /\ Goto(h, IF op = "reject" THEN "prompt" ELSE "call")
          /\ Fault
    /\ UNCHANGED <<st, chatVars, seen, poll, lost>>

(* Where the answer of the service sends the handler.  A refused re-send   *)
(* asks for the confirmation or, while another runs, leaves the card.      *)
Answer(h) ==
    LET op == hs[h].op s == st[hs[h].item] IN
    IF Accepts(op, s)
    THEN Goto(h, IF Effect(op) \in {"sending", "resending"} THEN "wait" ELSE "edit")
    ELSE IF op = "resend" /\ s = "unknown" THEN Goto(h, "confirm")
    ELSE IF op \in {"resend", "resendAck"} /\ s = "resending" THEN Done(h)
    ELSE Goto(h, "edit")

Call(h) ==
    LET i == hs[h].item op == hs[h].op IN
    /\ hs[h].pc = "call"
    /\ Answer(h)
    /\ st' = IF Accepts(op, st[i]) THEN [st EXCEPT ![i] = Effect(op)] ELSE st
    /\ NoFault
    /\ UNCHANGED <<chatVars, seen, poll, lost>>

(* The call never reaches the service, or its answer does not come back.   *)
CallFails(h) ==
    LET i == hs[h].item op == hs[h].op IN
    /\ hs[h].pc \in {"call", "wait"}
    /\ Goto(h, "edit")
    /\ \/ UNCHANGED st
       \/ /\ hs[h].pc = "call" /\ Accepts(op, st[i])
          /\ st' = [st EXCEPT ![i] = Effect(op)]
    /\ Fault
    /\ UNCHANGED <<chatVars, seen, poll, lost>>

(* What the handler's edit makes of its card.                              *)
NewFace(op) ==
    CASE op = "change" -> "picker"
      [] op = "back" -> "decide"
      [] op = "resendBack" -> "failed"
      [] OTHER -> "none"

WithFace(h, f) ==
    [cards EXCEPT ![hs[h].card] =
        IF f = "none" THEN Blank ELSE [item |-> hs[h].item, face |-> f]]

(* The poll thinks the card it posted is there when a handler has taken    *)
(* its buttons: an undecided item waits for a restart.  A re-send forgets  *)
(* the card, unless the poll is about to mark it.                          *)
Strands(i) ==
    \/ \E q \in {"pending", "held"} : Awaits(q, st[i]) /\ i \in seen[q]
    \/ poll.mark = i /\ Keeps(poll.pc, st[i])

(* finishDecision, finishHold, the keyboard swaps: the edit's own error is *)
(* ignored.                                                                *)
Edit(h) ==
    LET op == hs[h].op IN
    /\ hs[h].pc \in {"edit", "strip"}
    /\ \/ /\ cards' = WithFace(h, IF hs[h].pc = "strip" THEN "none" ELSE NewFace(op))
          /\ NoFault
       \/ UNCHANGED cards /\ Fault
    /\ IF op \in {"resend", "resendAck"} THEN Goto(h, "forget") ELSE Done(h)
    /\ lost' = IF op \notin {"reject", "change", "back", "resendBack"} /\ Strands(hs[h].item)
               THEN lost \cup {hs[h].item} ELSE lost
    /\ UNCHANGED <<st, prompts, told, seen, poll>>

(* askToConfirm.  The edit puts buttons back on a card that another        *)
(* handler has stripped meanwhile, unless it fails.                        *)
Confirm(h) ==
    /\ hs[h].pc = "confirm"
    /\ \/ cards' = WithFace(h, "confirm") /\ NoFault /\ UNCHANGED lost
       \/ /\ UNCHANGED cards /\ Fault
          /\ lost' = IF cards[hs[h].card] = Blank THEN lost \cup {hs[h].item} ELSE lost
    /\ Done(h)
    /\ UNCHANGED <<st, prompts, told, seen, poll>>

(* finishResend: markFailed(id, false) after the edit.                     *)
Forget(h) ==
    /\ hs[h].pc = "forget"
    /\ seen' = [seen EXCEPT !["failed"] = @ \ {hs[h].item}]
    /\ Done(h)
    /\ NoFault
    /\ UNCHANGED <<st, chatVars, poll, lost>>

(* promptReason: a prompt that cannot be sent leaves the card.             *)
SendPrompt(h) ==
    /\ hs[h].pc = "prompt"
    /\ \/ Goto(h, "remember") /\ NoFault
       \/ Done(h) /\ Fault
    /\ UNCHANGED <<st, chatVars, seen, poll, lost>>

(* The prompt is remembered and the expired ones are pruned.               *)
Remember(h) ==
    LET p == [item |-> hs[h].item, card |-> hs[h].card] IN
    /\ hs[h].pc = "remember"
    /\ \E kept \in SUBSET prompts :
         /\ prompts' = kept \cup {p}
         /\ lost' = lost \cup {e.item : e \in prompts \ prompts'}
    /\ Goto(h, "strip")
    /\ NoFault
    /\ UNCHANGED <<st, cards, told, seen, poll>>

-----------------------------------------------------------------------------
(* The client stops and starts: the chat keeps its cards, the memory of    *)
(* what was posted is empty, a prompt's reply is no longer recognised.     *)
Restart ==
    /\ Fault
    /\ seen' = [q \in Queues |-> {}]
    /\ prompts' = {} /\ told' = {} /\ lost' = {}
    /\ poll' = At("latched")
    /\ hs' = [h \in Handlers |-> Idle]
    /\ UNCHANGED <<st, cards>>

World(i) ==
    Arrive(i) \/ Retract(i) \/ Suspend(i) \/ Release(i) \/ Cli(i) \/ ServeStops(i)

PollStep ==
    \/ PollQueue \/ PollFailed \/ PollHolds \/ PollReconcile
    \/ Mark
    \/ \E i \in Items : Notify(i)

HandlerStep(h) ==
    \/ Guard(h) \/ Call(h) \/ CallFails(h) \/ Edit(h) \/ Confirm(h) \/ Forget(h)
    \/ SendPrompt(h) \/ Remember(h)

Operator(h) ==
    \/ \E c \in Cards : \E op \in Ops : Tap(h, c, op)
    \/ \E p \in prompts : Reply(h, p)

Next ==
    \/ \E i \in Items : World(i) \/ Settle(i)
    \/ PollStep
    \/ \E h \in Handlers : Operator(h) \/ HandlerStep(h)
    \/ Restart

Spec == Init /\ [][Next]_vars

(* The loop ticks and every call returns; nobody has to tap.               *)
Fairness ==
    /\ WF_vars(PollStep)
    /\ \A h \in Handlers : WF_vars(HandlerStep(h))
    /\ \A i \in Items : WF_vars(Settle(i))

FairSpec == Spec /\ Fairness

-----------------------------------------------------------------------------
(* Whatever the operator taps, and in whatever order the loop's posting    *)
(* and a handler's stripping interleave, a decision that waits does not    *)
(* stay without a card, a prompt or an alert: a failed post is repeated, a *)
(* re-send that failed again gets a fresh card, a restart posts everything *)
(* again.  The exceptions are the ones lost records: a verdict whose call  *)
(* failed, an expired prompt, a latch that returned within one poll, and a *)
(* re-send that ends between a card's post and its mark.                   *)
Offered ==
    \A i \in Items : \A q \in Queues :
        []<>(Awaits(q, st[i]) => InHand(q, i) \/ i \in lost)

(* The de-duplication sets do not keep what was decided: it is forgotten   *)
(* by a later poll, so the sets stay bounded by the queues and an item     *)
(* that fails, or an inbox that latches, a second time is posted again.    *)
Forgets ==
    \A i \in Items : \A q \in Queues :
        []<>(i \in seen[q] => Awaits(q, st[i]) \/ st[i] = "resending")

(* A hold decision stands: a button of a card that was already decided     *)
(* when it was tapped (a duplicate left by a restart, a card decided at    *)
(* the command line) changes nothing, unless the handler's lookup failed.  *)
DecisionStands ==
    [][\A h \in Handlers :
         (hs[h].pc = "call" /\ hs'[h].pc # "call" /\ hs[h].late /\ hs[h].checked)
            => \A i \in Items : Decided(st[i]) => st'[i] = st[i]]_vars
=============================================================================
