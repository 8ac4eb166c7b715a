--------------------------- MODULE TelegramProofs ---------------------------
(***************************************************************************)
(* Theorems about Telegram, for any number of items, cards, handlers and   *)
(* failures: a hold decision is not undone by a late tap.                  *)
(***************************************************************************)
EXTENDS Telegram, TLAPS

(* A card with buttons is an item's.                                       *)
CardsOK == \A c \in Cards : cards[c].face # "none" => cards[c].item \in Items

(* The buttons whose handlers look the item up first.                      *)
Looked == {"approve", "reject", "expose", "drop", "resend"}

(* A handler at work has an item and a card; one whose tap came late finds *)
(* the item decided ever after, so its lookup, made once, never lets it    *)
(* call.                                                                   *)
HandlerOK(x, s) ==
    x.pc # "idle" =>
        /\ x.item \in Items /\ x.card \in Cards
        /\ x.late => Decided(s[x.item])
        /\ x.pc = "guard" => ~x.checked /\ x.op \in Looked
        /\ x.pc = "call" /\ x.checked /\ x.late => x.op \notin {"expose", "drop"}

TInv == TypeOK /\ CardsOK /\ \A h \in Handlers : HandlerOK(hs[h], st)
-----------------------------------------------------------------------------
(* The service: what was decided stays decided.                            *)

Stands(s) == \A i \in Items : Decided(st[i]) => Decided(s[i])

LEMMA EffectOK ==
  ASSUME NEW op \in Ops, NEW s \in States, Accepts(op, s)
  PROVE  /\ Effect(op) \in States
         /\ Decided(s) => op \in {"expose", "drop"}
         /\ op \in {"expose", "drop"} => Decided(Effect(op))
<1>1. op \in {"approve", "reply", "expose", "drop", "resend", "resendAck"}
  BY DEF Accepts, Ops
<1>2. CASE op \in {"expose", "drop"}
  BY <1>2 DEF Effect, States, Decided
<1>3. CASE op \in {"approve", "reply"}
  BY <1>3 DEF Effect, States, Decided, Accepts
<1>4. CASE op \in {"resend", "resendAck"}
  BY <1>4 DEF Effect, States, Decided, Accepts, FailedSend
<1> QED BY <1>1, <1>2, <1>3, <1>4

LEMMA StoreWrites ==
  ASSUME TypeOK, NEW i \in Items, NEW s \in States, Decided(st[i]) => Decided(s),
         st' = [st EXCEPT ![i] = s]
  PROVE  st' \in [Items -> States] /\ Stands(st')
  BY DEF TypeOK, Stands

LEMMA StoreAccepts ==
  ASSUME TypeOK, NEW i \in Items, NEW op \in Ops, Accepts(op, st[i]),
         st' = [st EXCEPT ![i] = Effect(op)]
  PROVE  st' \in [Items -> States] /\ Stands(st')
<1>1. st[i] \in States
  BY DEF TypeOK
<1>2. Effect(op) \in States /\ (Decided(st[i]) => Decided(Effect(op)))
  BY <1>1, EffectOK
<1> QED BY <1>2, StoreWrites

LEMMA StoreSame == ASSUME TypeOK, UNCHANGED st PROVE st' \in [Items -> States] /\ Stands(st')
  BY DEF TypeOK, Stands
-----------------------------------------------------------------------------
(* The parts of a step.                                                    *)

QuietTyped ==
    /\ seen' \in [Queues -> SUBSET Items]
    /\ prompts' \in SUBSET Prompt
    /\ poll' \in [pc : Queues, snap : [Items -> States], todo : SUBSET Items,
                  mark : Items \cup {NoItem}]
    /\ told' \in SUBSET Items /\ lost' \in SUBSET Items
    /\ faults' \in 0..MaxFaults

CardsTyped == cards' \in [Cards -> Card] /\ CardsOK'

HandlersTyped ==
    hs' \in [Handlers -> Handler] /\ \A h \in Handlers : HandlerOK(hs'[h], st')

StoreTyped == st' \in [Items -> States] /\ Stands(st')

LEMMA Parts ==
  ASSUME StoreTyped, QuietTyped, CardsTyped, HandlersTyped PROVE TInv'
  BY DEF StoreTyped, QuietTyped, CardsTyped, HandlersTyped, TInv, TypeOK

LEMMA FaultTyped == ASSUME TypeOK, Fault \/ NoFault PROVE faults' \in 0..MaxFaults
  BY TelegramAssumption DEF TypeOK, Fault, NoFault

LEMMA CardsSame == ASSUME TInv, UNCHANGED cards PROVE CardsTyped
  BY DEF TInv, TypeOK, CardsTyped, CardsOK

LEMMA HandlerStays ==
  ASSUME NEW x, HandlerOK(x, st), NEW s, Stands(s) PROVE HandlerOK(x, s)
  BY DEF HandlerOK, Stands

LEMMA HandlersSame == ASSUME TInv, StoreTyped, UNCHANGED hs PROVE HandlersTyped
  BY HandlerStays DEF TInv, TypeOK, StoreTyped, HandlersTyped

LEMMA OneHandler ==
  ASSUME TInv, StoreTyped, NEW h \in Handlers, NEW x \in Handler, HandlerOK(x, st'),
         hs' = [hs EXCEPT ![h] = x]
  PROVE  HandlersTyped
<1>1. hs \in [Handlers -> Handler] /\ \A g \in Handlers : HandlerOK(hs[g], st)
  BY DEF TInv, TypeOK
<1>2. \A g \in Handlers : hs'[g] = IF g = h THEN x ELSE hs[g]
  BY <1>1
<1> QED BY <1>1, <1>2, HandlerStays DEF StoreTyped, HandlersTyped

LEMMA IdleOK == Idle \in Handler /\ \A s : HandlerOK(Idle, s)
  BY DEF Idle, Handler, Ops, HandlerOK

LEMMA DoneOK == ASSUME TInv, StoreTyped, NEW h \in Handlers, Done(h) PROVE HandlersTyped
  BY OneHandler, IdleOK DEF Done

Pcs == {"idle", "guard", "call", "wait", "prompt", "remember", "strip", "edit", "confirm",
        "forget"}

(* A handler that goes on, not to its call unless its lookup was not made  *)
(* or allows it.                                                           *)
LEMMA MoveOK ==
  ASSUME TInv, StoreTyped, NEW h \in Handlers, NEW pc \in Pcs, NEW b \in BOOLEAN,
         NEW x, x = [hs[h] EXCEPT !.pc = pc, !.checked = b],
         hs' = [hs EXCEPT ![h] = x], hs[h].pc # "idle", pc # "guard",
         pc = "call" /\ b /\ hs[h].late => hs[h].op \notin {"expose", "drop"}
  PROVE  HandlersTyped
<1>1. hs[h] \in Handler /\ HandlerOK(hs[h], st') /\ hs[h].pc # "idle"
  BY HandlerStays DEF TInv, TypeOK, StoreTyped
<1>2. /\ x \in Handler /\ x.pc = pc /\ x.checked = b /\ x.item = hs[h].item
      /\ x.card = hs[h].card /\ x.late = hs[h].late /\ x.op = hs[h].op
  BY <1>1 DEF Handler, Pcs
<1>3. HandlerOK(x, st')
  BY <1>1, <1>2 DEF HandlerOK
<1> QED BY <1>2, <1>3, OneHandler

LEMMA GotoOK ==
  ASSUME TInv, StoreTyped, NEW h \in Handlers, NEW pc \in Pcs, Goto(h, pc), hs[h].pc # "idle",
         pc # "guard", pc = "call" => ~hs[h].checked
  PROVE  HandlersTyped
<1>1. hs \in [Handlers -> Handler] /\ hs[h] \in Handler /\ hs[h].checked \in BOOLEAN
  BY DEF TInv, TypeOK, Handler
<1>2. PICK x : x = [hs[h] EXCEPT !.pc = pc, !.checked = hs[h].checked]
  OBVIOUS
<1>3. x = [hs[h] EXCEPT !.pc = pc]
  BY <1>1, <1>2 DEF Handler
<1>4. hs' = [hs EXCEPT ![h] = x]
  BY <1>3 DEF Goto
<1> QED BY <1>1, <1>2, <1>4, MoveOK
-----------------------------------------------------------------------------
(* The service and the world.                                              *)

LEMMA QuietSame ==
  ASSUME TypeOK, UNCHANGED <<seen, poll, prompts, told, lost>>, Fault \/ NoFault
  PROVE  QuietTyped
  BY FaultTyped DEF TypeOK, QuietTyped

LEMMA ArriveStep ==
  ASSUME TInv, NEW i \in Items, Arrive(i) \/ Retract(i) \/ Release(i) \/ Cli(i) PROVE TInv'
<1>1. TypeOK /\ UNCHANGED <<chatVars, seen, poll, hs, lost, faults>>
  BY DEF TInv, Arrive, Retract, Release, Cli
<1>2. CASE Cli(i)
  <2>1. PICK op \in Ops : Accepts(op, st[i]) /\ st' = [st EXCEPT ![i] = Effect(op)]
    BY <1>2 DEF Cli, Ops
  <2>2. StoreTyped
    BY <1>1, <2>1, StoreAccepts DEF StoreTyped
  <2> QED BY <1>1, <2>2, QuietSame, CardsSame, HandlersSame, Parts DEF chatVars, NoFault
<1>3. CASE Arrive(i) \/ Retract(i) \/ Release(i)
  <2>1. PICK s \in {"pending", "held", "closed", "clear"} : st' = [st EXCEPT ![i] = s]
    BY <1>3 DEF Arrive, Retract, Release
  <2>2. ~Decided(st[i]) /\ s \in States
    BY <1>3 DEF Arrive, Retract, Release, Decided, States
  <2>3. StoreTyped
    BY <1>1, <2>1, <2>2, StoreWrites DEF StoreTyped
  <2> QED BY <1>1, <2>3, QuietSame, CardsSame, HandlersSame, Parts DEF chatVars, NoFault
<1> QED BY <1>2, <1>3

LEMMA SuspendStep == ASSUME TInv, NEW i \in Items, Suspend(i) PROVE TInv'
<1>1. TypeOK /\ UNCHANGED <<cards, hs>>
  BY DEF TInv, Suspend
<1>2. StoreTyped
  <2>1. ~Decided(st[i]) /\ "suspended" \in States /\ st' = [st EXCEPT ![i] = "suspended"]
    BY DEF Suspend, Decided, States
  <2> QED BY <1>1, <2>1, StoreWrites DEF StoreTyped
<1>3. QuietTyped
  BY <1>1 DEF Suspend, TypeOK, QuietTyped
<1> QED BY <1>1, <1>2, <1>3, CardsSame, HandlersSame, Parts

(* The handlers that wait for the item's send go on to their edit.         *)
LEMMA ReturnedOK ==
  ASSUME TInv, StoreTyped, NEW i \in Items, hs' = Returned(i) PROVE HandlersTyped
<1>1. hs \in [Handlers -> Handler] /\ \A h \in Handlers : HandlerOK(hs[h], st')
  BY HandlerStays DEF TInv, TypeOK, StoreTyped
<1>2. ASSUME NEW h \in Handlers PROVE hs'[h] \in Handler /\ HandlerOK(hs'[h], st')
  <2>1. CASE hs'[h] = hs[h]
    BY <1>1, <2>1
  <2>2. CASE hs'[h] = [hs[h] EXCEPT !.pc = "edit"] /\ hs[h].pc = "wait"
    <3>1. PICK x : x = hs'[h]
      OBVIOUS
    <3>2. /\ x \in Handler /\ x.pc = "edit" /\ x.item = hs[h].item /\ x.card = hs[h].card
          /\ x.late = hs[h].late
      BY <1>1, <2>2, <3>1 DEF Handler
    <3>3. HandlerOK(x, st')
      BY <1>1, <2>2, <3>2 DEF HandlerOK
    <3> QED BY <3>1, <3>2, <3>3
  <2> QED BY <2>1, <2>2 DEF Returned
<1>3. hs' \in [Handlers -> Handler]
  BY <1>2 DEF Returned
<1> QED BY <1>2, <1>3 DEF HandlersTyped

LEMMA SettleStep ==
  ASSUME TInv, NEW i \in Items, Settle(i) \/ ServeStops(i) PROVE TInv'
<1>1. /\ TypeOK /\ UNCHANGED <<chatVars, seen, poll, lost>> /\ hs' = Returned(i)
      /\ Fault \/ NoFault
  BY DEF TInv, Settle, ServeStops, NoFault
<1>2. PICK s \in {"closed", "failed", "unknown"} : st' = [st EXCEPT ![i] = s]
  BY DEF Settle, ServeStops
<1>3. StoreTyped
  <2>1. ~Decided(st[i]) /\ s \in States
    BY DEF Settle, ServeStops, Decided, States
  <2> QED BY <1>1, <1>2, <2>1, StoreWrites DEF StoreTyped
<1> QED BY <1>1, <1>3, QuietSame, CardsSame, ReturnedOK, Parts DEF chatVars
-----------------------------------------------------------------------------
(* The poll loop.                                                          *)

PollType == [pc : Queues, snap : [Items -> States], todo : SUBSET Items,
             mark : Items \cup {NoItem}]

LEMMA AtTyped == ASSUME NEW q \in Queues PROVE At(q) \in PollType
  BY DEF At, NoSnap, PollType, States

LEMMA TurnTyped ==
  ASSUME TypeOK, NEW q \in Queues, NEW snap \in [Items -> States], Turn(q, snap)
  PROVE  seen' \in [Queues -> SUBSET Items] /\ poll' \in PollType
<1>1. seen' \in [Queues -> SUBSET Items]
  BY DEF Turn, TypeOK
<1>2. PICK todo \in SUBSET Items, sn \in [Items -> States] :
        poll' = [At(q) EXCEPT !.todo = todo, !.snap = sn]
  <2>1. At(q).snap \in [Items -> States]
    BY AtTyped DEF PollType
  <2>2. {i \in Items : Awaits(q, snap[i])} \in SUBSET Items
    OBVIOUS
  <2> QED BY <2>1, <2>2 DEF Turn
<1>3. poll' = [pc |-> q, snap |-> sn, todo |-> todo, mark |-> NoItem]
  BY <1>2 DEF At
<1> QED BY <1>1, <1>3 DEF PollType

LEMMA PollStepOK ==
  ASSUME TInv, PollQueue \/ PollFailed \/ PollHolds \/ PollReconcile PROVE TInv'
<1>1. TypeOK /\ UNCHANGED <<st, chatVars, hs, lost>>
  BY DEF TInv, PollQueue, PollFailed, PollHolds, PollReconcile
<1>2. /\ {"pending", "failed", "held", "latched"} \subseteq Queues
      /\ st \in [Items -> States] /\ poll.snap \in [Items -> States]
  BY <1>1 DEF Queues, TypeOK
<1>3. \/ \E q \in Queues : (Turn(q, st) \/ Turn(q, poll.snap)) /\ NoFault
      \/ \E q \in Queues : ListFails(q)
  BY <1>2 DEF PollQueue, PollFailed, PollHolds, PollReconcile, Listed
<1>4. /\ seen' \in [Queues -> SUBSET Items] /\ poll' \in PollType
      /\ Fault \/ NoFault
  <2>1. CASE \E q \in Queues : (Turn(q, st) \/ Turn(q, poll.snap)) /\ NoFault
    BY <1>1, <1>2, <2>1, TurnTyped
  <2>2. CASE \E q \in Queues : ListFails(q)
    BY <1>1, <2>2, AtTyped DEF ListFails, TypeOK
  <2> QED BY <1>3, <2>1, <2>2
<1>5. QuietTyped
  BY <1>1, <1>4, FaultTyped DEF QuietTyped, TypeOK, PollType, chatVars
<1>6. StoreTyped
  BY <1>1, StoreSame DEF StoreTyped
<1> QED BY <1>1, <1>5, <1>6, CardsSame, HandlersSame, Parts DEF chatVars

LEMMA MarkStep == ASSUME TInv, Mark PROVE TInv'
<1>1. TypeOK /\ UNCHANGED <<st, chatVars, hs, lost>> /\ NoFault /\ poll \in PollType
  BY DEF TInv, TypeOK, Mark, PollType
<1>2. poll.mark \in Items /\ poll.pc \in Queues
  BY <1>1 DEF Mark, PollType
<1>3. seen' \in [Queues -> SUBSET Items]
  BY <1>1, <1>2 DEF Mark, TypeOK
<1>4. poll' \in PollType
  BY <1>1 DEF Mark, PollType
<1>5. QuietTyped
  BY <1>1, <1>3, <1>4, FaultTyped DEF QuietTyped, TypeOK, PollType, chatVars
<1>6. StoreTyped
  BY <1>1, StoreSame DEF StoreTyped
<1> QED BY <1>1, <1>5, <1>6, CardsSame, HandlersSame, Parts DEF chatVars

(* One card is written.                                                    *)
LEMMA OneCard ==
  ASSUME TInv, NEW c \in Cards, NEW x \in Card, x.face # "none" => x.item \in Items,
         cards' = [cards EXCEPT ![c] = x]
  PROVE  CardsTyped
<1>1. cards \in [Cards -> Card]
  BY DEF TInv, TypeOK
<1>2. \A d \in Cards : cards'[d] = IF d = c THEN x ELSE cards[d]
  BY <1>1
<1> QED BY <1>1, <1>2 DEF TInv, CardsOK, CardsTyped

LEMMA AppearsOK ==
  ASSUME TInv, NEW i \in Items, Appears(i) PROVE CardsTyped /\ told' \in SUBSET Items
<1>1. CASE poll.pc = "latched"
  BY <1>1, CardsSame DEF Appears, TInv, TypeOK
<1>2. CASE poll.pc # "latched"
  <2>1. PICK c \in Cards : cards' = [cards EXCEPT ![c] = [item |-> i, face |-> FaceOf(poll.pc)]]
    BY <1>2 DEF Appears
  <2>2. poll.pc \in {"pending", "failed", "held"}
    BY <1>2 DEF TInv, TypeOK, Queues
  <2>3. FaceOf(poll.pc) \in Buttons
    BY <2>2 DEF FaceOf, Buttons
  <2>4. PICK x : x = [item |-> i, face |-> FaceOf(poll.pc)]
    OBVIOUS
  <2>5. x \in Card /\ x.item = i
    BY <2>3, <2>4 DEF Card
  <2> QED BY <1>2, <2>1, <2>4, <2>5, OneCard DEF Appears, TInv, TypeOK
<1> QED BY <1>1, <1>2

LEMMA NotifyStep == ASSUME TInv, NEW i \in Items, Notify(i) PROVE TInv'
<1>1. TypeOK /\ UNCHANGED <<st, prompts, seen, hs>> /\ (Fault \/ NoFault) /\ poll \in PollType
  BY DEF TInv, TypeOK, Notify, PollType
<1>2. poll' \in PollType
  BY <1>1 DEF Notify, PollType
<1>3. CardsTyped /\ told' \in SUBSET Items
  <2>1. Appears(i) \/ UNCHANGED <<cards, told>>
    BY DEF Notify
  <2> QED BY <1>1, <2>1, AppearsOK, CardsSame DEF TypeOK
<1>4. lost' \in SUBSET Items
  BY <1>1 DEF Notify, TypeOK
<1>5. QuietTyped
  BY <1>1, <1>2, <1>3, <1>4, FaultTyped DEF QuietTyped, TypeOK, PollType
<1>6. StoreTyped
  BY <1>1, StoreSame DEF StoreTyped
<1> QED BY <1>1, <1>3, <1>5, <1>6, HandlersSame, Parts
-----------------------------------------------------------------------------
(* The handlers.                                                           *)

LEMMA TapStep ==
  ASSUME TInv, NEW h \in Handlers, NEW c \in Cards, NEW op \in Ops, Tap(h, c, op) PROVE TInv'
<1>1. TypeOK /\ UNCHANGED <<st, chatVars, seen, poll, lost>> /\ NoFault
  BY DEF TInv, Tap
<1>2. cards[c].item \in Items
  <2>1. cards[c].face # "none"
    BY DEF Tap, Offers
  <2> QED BY <2>1 DEF TInv, CardsOK
<1>3. /\ FirstStep(op) \in {"guard", "edit", "call"}
      /\ FirstStep(op) = "guard" => op \in Looked
  BY DEF FirstStep, Ops, Looked
<1>4. PICK x : x = [pc |-> FirstStep(op), op |-> op, item |-> cards[c].item, card |-> c,
                    late |-> Decided(st[cards[c].item]), checked |-> FALSE]
  OBVIOUS
<1>5. StoreTyped
  BY <1>1, StoreSame DEF StoreTyped
<1>6. x \in Handler
  <2>1. Decided(st[cards[c].item]) \in BOOLEAN
    BY DEF Decided
  <2> QED BY <1>2, <1>3, <1>4, <2>1 DEF Handler
<1>7. HandlerOK(x, st')
  <2>1. /\ x.item \in Items /\ x.card \in Cards /\ x.checked = FALSE
        /\ x.late => Decided(st[x.item])
        /\ x.pc = "guard" => x.op \in Looked
    BY <1>2, <1>3, <1>4
  <2> QED BY <1>1, <2>1 DEF HandlerOK
<1>8. hs' = [hs EXCEPT ![h] = x]
  BY <1>4 DEF Tap
<1> QED BY <1>1, <1>5, <1>6, <1>7, <1>8, QuietSame, CardsSame, OneHandler, Parts DEF chatVars

LEMMA ReplyStep ==
  ASSUME TInv, NEW h \in Handlers, NEW p \in prompts, Reply(h, p) PROVE TInv'
<1>1. TypeOK /\ UNCHANGED <<st, cards, told, seen, poll, lost>> /\ NoFault /\ p \in Prompt
  BY DEF TInv, TypeOK, Reply
<1>2. PICK x : x = [Idle EXCEPT !.pc = "call", !.op = "reply", !.item = p.item, !.card = p.card]
  OBVIOUS
<1>3. x = [pc |-> "call", op |-> "reply", item |-> p.item, card |-> p.card, late |-> FALSE,
           checked |-> FALSE]
  BY <1>2 DEF Idle
<1>4. x \in Handler /\ HandlerOK(x, st')
  BY <1>1, <1>3 DEF Handler, Prompt, Ops, HandlerOK
<1>5. StoreTyped
  BY <1>1, StoreSame DEF StoreTyped
<1>6. QuietTyped
  BY <1>1, FaultTyped DEF Reply, QuietTyped, TypeOK
<1>7. hs' = [hs EXCEPT ![h] = x]
  BY <1>2 DEF Reply
<1> QED BY <1>1, <1>4, <1>5, <1>6, <1>7, CardsSame, OneHandler, Parts

(* The lookup lets a late hold decision go no further.                     *)
LEMMA GuardStep == ASSUME TInv, NEW h \in Handlers, Guard(h) PROVE TInv'
<1> DEFINE op == hs[h].op
           s == st[hs[h].item]
<1>1. /\ TypeOK /\ UNCHANGED <<st, chatVars, seen, poll, lost>> /\ (Fault \/ NoFault)
      /\ hs \in [Handlers -> Handler] /\ hs[h] \in Handler /\ HandlerOK(hs[h], st)
      /\ hs[h].pc = "guard"
  BY DEF TInv, TypeOK, Guard
<1>2. StoreTyped
  BY <1>1, StoreSame DEF StoreTyped
<1>3. HandlersTyped
  <2>1. CASE Goto(h, IF op = "reject" THEN "prompt" ELSE "call")
    <3>1. PICK pc \in {"prompt", "call"} : Goto(h, pc)
      BY <2>1
    <3>2. pc \in Pcs /\ pc # "guard" /\ ~hs[h].checked
      BY <1>1 DEF Pcs, HandlerOK
    <3> QED BY <1>1, <1>2, <3>1, <3>2, GotoOK
  <2>2. CASE hs' = [hs EXCEPT ![h].pc = Guarded(op, s), ![h].checked = TRUE]
    <3>1. op \in Looked /\ (hs[h].late => Decided(s))
      BY <1>1 DEF HandlerOK
    <3>2. Guarded(op, s) \in {"strip", "prompt", "call", "confirm"}
      BY <3>1 DEF Guarded, PendingGuardResult, GuardHeld, OutcomeUnknown, Looked
    <3>3. Guarded(op, s) = "call" /\ op \in {"expose", "drop"} => ~Decided(s)
      BY DEF Guarded, GuardHeld, Decided
    <3>4. PICK pc \in Pcs : pc = Guarded(op, s)
      BY <3>2 DEF Pcs
    <3>5. PICK x : x = [hs[h] EXCEPT !.pc = pc, !.checked = TRUE]
      OBVIOUS
    <3>6. hs' = [hs EXCEPT ![h] = x]
      BY <1>1, <2>2, <3>4, <3>5
    <3>7. pc # "guard" /\ (pc = "call" /\ hs[h].late => hs[h].op \notin {"expose", "drop"})
      BY <3>1, <3>2, <3>3, <3>4
    <3> QED BY <1>1, <1>2, <3>5, <3>6, <3>7, MoveOK
  <2> QED BY <2>1, <2>2 DEF Guard
<1> QED BY <1>1, <1>2, <1>3, QuietSame, CardsSame, Parts DEF chatVars

LEMMA HandlerTyped ==
  ASSUME TInv, NEW h \in Handlers, hs[h].pc # "idle"
  PROVE  /\ hs[h].item \in Items /\ hs[h].card \in Cards /\ hs[h].op \in Ops
         /\ st[hs[h].item] \in States
  BY DEF TInv, TypeOK, HandlerOK, Handler

LEMMA AnswerOK ==
  ASSUME TInv, StoreTyped, NEW h \in Handlers, hs[h].pc = "call", Answer(h)
  PROVE  HandlersTyped
<1>1. Done(h) \/ \E pc \in {"wait", "edit", "confirm"} : Goto(h, pc)
  BY DEF Answer
<1>2. ASSUME NEW pc \in {"wait", "edit", "confirm"}, Goto(h, pc) PROVE HandlersTyped
  <2>1. pc \in Pcs /\ pc # "guard" /\ pc # "call" /\ hs[h].pc # "idle"
    BY DEF Pcs
  <2> QED BY <1>2, <2>1, GotoOK
<1> QED BY <1>1, <1>2, DoneOK

LEMMA CallStep == ASSUME TInv, NEW h \in Handlers, Call(h) \/ CallFails(h) PROVE TInv'
<1> DEFINE i == hs[h].item
           op == hs[h].op
<1>1. /\ TypeOK /\ UNCHANGED <<chatVars, seen, poll, lost>> /\ (Fault \/ NoFault)
      /\ hs[h].pc \in {"call", "wait"}
  BY DEF TInv, Call, CallFails
<1>2. i \in Items /\ op \in Ops
  BY <1>1, HandlerTyped
<1>3. UNCHANGED st \/ (Accepts(op, st[i]) /\ st' = [st EXCEPT ![i] = Effect(op)])
  BY DEF Call, CallFails
<1> HIDE DEF i, op
<1>4. StoreTyped
  BY <1>1, <1>2, <1>3, StoreSame, StoreAccepts DEF StoreTyped
<1>5. HandlersTyped
  <2>1. CASE Call(h)
    BY <1>4, <2>1, AnswerOK DEF Call
  <2>2. CASE CallFails(h)
    BY <1>1, <1>4, <2>2, GotoOK DEF CallFails, Pcs
  <2> QED BY <2>1, <2>2
<1> QED BY <1>1, <1>4, <1>5, QuietSame, CardsSame, Parts DEF chatVars

LEMMA WithFaceOK ==
  ASSUME TInv, NEW h \in Handlers, hs[h].pc # "idle", NEW f \in Buttons \cup {"none"},
         cards' = WithFace(h, f)
  PROVE  CardsTyped
<1>1. hs[h].item \in Items /\ hs[h].card \in Cards
  BY HandlerTyped
<1>2. PICK x : x = IF f = "none" THEN Blank ELSE [item |-> hs[h].item, face |-> f]
  OBVIOUS
<1>3. x \in Card /\ (x.face # "none" => x.item \in Items)
  BY <1>1, <1>2 DEF Card, Blank
<1>4. cards' = [cards EXCEPT ![hs[h].card] = x]
  BY <1>2 DEF WithFace
<1> QED BY <1>1, <1>3, <1>4, OneCard

LEMMA EditStep == ASSUME TInv, NEW h \in Handlers, Edit(h) PROVE TInv'
<1>1. /\ TypeOK /\ UNCHANGED <<st, prompts, told, seen, poll>> /\ (Fault \/ NoFault)
      /\ hs[h].pc # "idle"
  BY DEF TInv, Edit
<1>2. StoreTyped
  BY <1>1, StoreSame DEF StoreTyped
<1>3. CardsTyped
  <2>1. NewFace(hs[h].op) \in Buttons \cup {"none"}
    BY DEF NewFace, Buttons
  <2>2. PICK f \in Buttons \cup {"none"} : cards' = WithFace(h, f) \/ UNCHANGED cards
    BY <2>1 DEF Edit
  <2> QED BY <1>1, <2>2, WithFaceOK, CardsSame
<1>4. HandlersTyped
  <2>1. Goto(h, "forget") \/ Done(h)
    BY DEF Edit
  <2>2. "forget" \in Pcs
    BY DEF Pcs
  <2> QED BY <1>1, <1>2, <2>1, <2>2, GotoOK, DoneOK
<1>5. QuietTyped
  <2>1. lost' \in SUBSET Items
    BY <1>1, HandlerTyped DEF Edit, TypeOK
  <2> QED BY <1>1, <2>1, FaultTyped DEF TypeOK, QuietTyped
<1> QED BY <1>2, <1>3, <1>4, <1>5, Parts

LEMMA ConfirmStep == ASSUME TInv, NEW h \in Handlers, Confirm(h) PROVE TInv'
<1>1. /\ TypeOK /\ UNCHANGED <<st, prompts, told, seen, poll>> /\ (Fault \/ NoFault)
      /\ hs[h].pc # "idle"
  BY DEF TInv, Confirm
<1>2. StoreTyped
  BY <1>1, StoreSame DEF StoreTyped
<1>3. CardsTyped
  <2>1. "confirm" \in Buttons \cup {"none"}
    BY DEF Buttons
  <2> QED BY <1>1, <2>1, WithFaceOK, CardsSame DEF Confirm
<1>4. HandlersTyped
  BY <1>2, DoneOK DEF Confirm
<1>5. QuietTyped
  <2>1. lost' \in SUBSET Items
    BY <1>1, HandlerTyped DEF Confirm, TypeOK
  <2> QED BY <1>1, <2>1, FaultTyped DEF TypeOK, QuietTyped
<1> QED BY <1>2, <1>3, <1>4, <1>5, Parts

LEMMA ForgetStep == ASSUME TInv, NEW h \in Handlers, Forget(h) PROVE TInv'
<1>1. TypeOK /\ UNCHANGED <<st, chatVars, poll, lost>> /\ NoFault
  BY DEF TInv, Forget
<1>2. StoreTyped
  BY <1>1, StoreSame DEF StoreTyped
<1>3. HandlersTyped
  BY <1>2, DoneOK DEF Forget
<1>4. QuietTyped
  <2>1. seen' \in [Queues -> SUBSET Items]
    BY <1>1 DEF Forget, TypeOK
  <2> QED BY <1>1, <2>1, FaultTyped DEF TypeOK, QuietTyped, chatVars
<1> QED BY <1>1, <1>2, <1>3, <1>4, CardsSame, Parts DEF chatVars

LEMMA PromptStep == ASSUME TInv, NEW h \in Handlers, SendPrompt(h) PROVE TInv'
<1>1. /\ TypeOK /\ UNCHANGED <<st, chatVars, seen, poll, lost>> /\ (Fault \/ NoFault)
      /\ hs[h].pc # "idle"
  BY DEF TInv, SendPrompt
<1>2. StoreTyped
  BY <1>1, StoreSame DEF StoreTyped
<1>3. HandlersTyped
  BY <1>1, <1>2, DoneOK, GotoOK DEF SendPrompt, Pcs
<1> QED BY <1>1, <1>2, <1>3, QuietSame, CardsSame, Parts DEF chatVars

LEMMA RememberStep == ASSUME TInv, NEW h \in Handlers, Remember(h) PROVE TInv'
<1>1. /\ TypeOK /\ UNCHANGED <<st, cards, told, seen, poll>> /\ NoFault /\ hs[h].pc # "idle"
  BY DEF TInv, Remember
<1>2. StoreTyped
  BY <1>1, StoreSame DEF StoreTyped
<1>3. HandlersTyped
  BY <1>1, <1>2, GotoOK DEF Remember, Pcs
<1>4. prompts' \in SUBSET Prompt /\ lost' \in SUBSET Items
  <2>1. [item |-> hs[h].item, card |-> hs[h].card] \in Prompt
    BY <1>1, HandlerTyped DEF Prompt
  <2>2. \A e \in prompts : e.item \in Items
    BY <1>1 DEF TypeOK, Prompt
  <2> QED BY <1>1, <2>1, <2>2 DEF Remember, TypeOK
<1>5. QuietTyped
  BY <1>1, <1>4, FaultTyped DEF TypeOK, QuietTyped
<1> QED BY <1>1, <1>2, <1>3, <1>5, CardsSame, Parts

LEMMA RestartStep == ASSUME TInv, Restart PROVE TInv'
<1>1. TypeOK /\ UNCHANGED <<st, cards>> /\ Fault
  BY DEF TInv, Restart
<1>2. StoreTyped
  BY <1>1, StoreSame DEF StoreTyped
<1>3. HandlersTyped
  BY IdleOK DEF Restart, HandlersTyped
<1>4. QuietTyped
  <2>1. poll' \in PollType
    BY AtTyped DEF Restart, Queues
  <2> QED BY <1>1, <2>1, FaultTyped DEF Restart, QuietTyped, PollType
<1> QED BY <1>1, <1>2, <1>3, <1>4, CardsSame, Parts
-----------------------------------------------------------------------------
LEMMA TInvInit == Init => TInv
<1> SUFFICES ASSUME Init PROVE TInv
  OBVIOUS
<1>1. Blank \in Card /\ Blank.face = "none"
  BY DEF Blank, Card
<1>2. poll \in PollType
  BY AtTyped DEF Init, Queues
<1>3. hs \in [Handlers -> Handler] /\ \A h \in Handlers : HandlerOK(hs[h], st)
  BY IdleOK DEF Init
<1>4. st \in [Items -> States] /\ faults \in 0..MaxFaults
  BY TelegramAssumption DEF Init, States
<1> QED BY <1>1, <1>2, <1>3, <1>4 DEF Init, TInv, TypeOK, CardsOK, PollType

LEMMA TInvNext == TInv /\ [Next]_vars => TInv'
<1> SUFFICES ASSUME TInv, [Next]_vars PROVE TInv'
  OBVIOUS
<1>1. ASSUME NEW i \in Items, World(i) \/ Settle(i) PROVE TInv'
  BY <1>1, ArriveStep, SuspendStep, SettleStep DEF World
<1>2. CASE PollStep
  BY <1>2, PollStepOK, MarkStep, NotifyStep DEF PollStep
<1>3. ASSUME NEW h \in Handlers, Operator(h) PROVE TInv'
  BY <1>3, TapStep, ReplyStep DEF Operator
<1>4. ASSUME NEW h \in Handlers, HandlerStep(h) PROVE TInv'
  BY <1>4, GuardStep, CallStep, EditStep, ConfirmStep, ForgetStep, PromptStep, RememberStep
     DEF HandlerStep
<1>5. CASE UNCHANGED vars
  BY <1>5 DEF vars, TInv, TypeOK, CardsOK
<1> QED BY <1>1, <1>2, <1>3, <1>4, <1>5, RestartStep DEF Next

LEMMA TInvAlways == Spec => []TInv
  BY TInvInit, TInvNext, PTL DEF Spec

(* Every state of the Telegram client has its declared types.              *)
THEOREM ClientTypeCorrect == Spec => []TypeOK
<1>1. TInv => TypeOK
  BY DEF TInv
<1> QED BY <1>1, TInvAlways, PTL

(* Who leaves the state "call": the handler itself, or everybody.          *)
LEMMA CallCases ==
  ASSUME TInv, [Next]_vars, NEW h \in Handlers, hs[h].pc = "call", hs'[h].pc # "call"
  PROVE  UNCHANGED st \/ Call(h) \/ CallFails(h)
<1>1. hs \in [Handlers -> Handler]
  BY DEF TInv, TypeOK
<1>2. ASSUME NEW i \in Items, Settle(i) \/ ServeStops(i) PROVE FALSE
  BY <1>1, <1>2 DEF Settle, ServeStops, Returned
<1>3. ASSUME NEW g \in Handlers, g # h, Operator(g) \/ HandlerStep(g) PROVE FALSE
  <2>1. \E x : hs' = [hs EXCEPT ![g] = x]
    <3>1. ASSUME NEW pc, Goto(g, pc) PROVE \E x : hs' = [hs EXCEPT ![g] = x]
      BY <3>1 DEF Goto
    <3>2. Done(g) => \E x : hs' = [hs EXCEPT ![g] = x]
      BY DEF Done
    <3>3. Guard(g) => \E x : hs' = [hs EXCEPT ![g] = x]
      <4>1. ASSUME NEW pc, hs' = [hs EXCEPT ![g].pc = pc, ![g].checked = TRUE]
            PROVE  hs' = [hs EXCEPT ![g] = [hs[g] EXCEPT !.pc = pc, !.checked = TRUE]]
        BY <1>1, <4>1
      <4> QED BY <3>1, <4>1 DEF Guard
    <3>4. Operator(g) => \E x : hs' = [hs EXCEPT ![g] = x]
      BY DEF Operator, Tap, Reply
    <3>5. Call(g) \/ CallFails(g) \/ Edit(g) => (\E pc : Goto(g, pc)) \/ Done(g)
      BY DEF Call, CallFails, Edit, Answer
    <3>6. Confirm(g) \/ Forget(g) \/ SendPrompt(g) \/ Remember(g) =>
            (\E pc : Goto(g, pc)) \/ Done(g)
      BY DEF Confirm, Forget, SendPrompt, Remember
    <3> QED BY <1>3, <3>1, <3>2, <3>3, <3>4, <3>5, <3>6 DEF HandlerStep
  <2>2. hs'[h] = hs[h]
    BY <1>1, <1>3, <2>1
  <2> QED BY <2>2
<1>4. ASSUME NEW i \in Items, Arrive(i) \/ Retract(i) \/ Suspend(i) \/ Release(i) \/ Cli(i)
      PROVE  FALSE
  BY <1>4 DEF Arrive, Retract, Suspend, Release, Cli
<1>5. Operator(h) => UNCHANGED st
  BY DEF Operator, Tap, Reply
<1>6. Guard(h) \/ Edit(h) \/ Confirm(h) \/ Forget(h) \/ SendPrompt(h) \/ Remember(h)
        => UNCHANGED st
  BY DEF Guard, Edit, Confirm, Forget, SendPrompt, Remember
<1>7. PollStep \/ Restart \/ UNCHANGED vars => UNCHANGED st
  BY DEF PollStep, PollQueue, PollFailed, PollHolds, PollReconcile, Mark, Notify, Restart, vars
<1> QED BY <1>2, <1>3, <1>4, <1>5, <1>6, <1>7 DEF Next, World, HandlerStep

(* A hold decision stands, for any number of handlers that tap, look up    *)
(* and call at once: the tap of a card that was decided by then changes no *)
(* decision unless its own lookup failed (guardHeld).                      *)
THEOREM HoldDecisionStands == Spec => DecisionStands
<1> DEFINE Step == \A h \in Handlers :
                     (hs[h].pc = "call" /\ hs'[h].pc # "call" /\ hs[h].late /\ hs[h].checked)
                        => \A i \in Items : Decided(st[i]) => st'[i] = st[i]
<1>1. TInv /\ [Next]_vars => [Step]_vars
  <2> SUFFICES ASSUME TInv, [Next]_vars, NEW h \in Handlers, hs[h].pc = "call",
                      hs'[h].pc # "call", hs[h].late, hs[h].checked, NEW i \in Items,
                      Decided(st[i])
               PROVE  st'[i] = st[i]
    OBVIOUS
  <2>1. CASE UNCHANGED st
    BY <2>1
  <2>2. CASE Call(h) \/ CallFails(h)
    <3>1. /\ hs[h].item \in Items /\ hs[h].op \in Ops /\ st[hs[h].item] \in States
          /\ hs[h].op \notin {"expose", "drop"} /\ st \in [Items -> States]
      BY HandlerTyped DEF TInv, TypeOK, HandlerOK
    <3>2. \/ UNCHANGED st
          \/ /\ Accepts(hs[h].op, st[hs[h].item])
             /\ st' = [st EXCEPT ![hs[h].item] = Effect(hs[h].op)]
      BY <2>2 DEF Call, CallFails
    <3>3. Accepts(hs[h].op, st[hs[h].item]) => ~Decided(st[hs[h].item])
      BY <3>1, EffectOK
    <3> QED BY <3>1, <3>2, <3>3
  <2> QED BY <2>1, <2>2, CallCases
<1> QED BY <1>1, TInvAlways, PTL DEF Spec, DecisionStands
=============================================================================
