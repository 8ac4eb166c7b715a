------------------------------ MODULE ReadFace ------------------------------
(***************************************************************************)
(* What an agent gets to see of one inbox: the IMAP sessions               *)
(* (internal/listener), the content they fetch on demand                   *)
(* (imapsync.FetchContent), the bounce-spoof guard, the injection          *)
(* assessment, the filter rules, and the operator's queue of held messages *)
(* (admin HeldList, ExposeHeld, DropHeld).                                 *)
(*                                                                         *)
(* A session judges visibility on the records it listed at SELECT, and     *)
(* serves bodies later, when the store may say something else; other       *)
(* sessions, the operator, the sync and a restart run in between.  A step  *)
(* is one store transaction or one upstream fetch.                         *)
(*                                                                         *)
(* The model is of one owner (single-agent mode).  Of a message's content  *)
(* it keeps what the guard tells apart: "own" (a bounce Darbaan generated  *)
(* and signed), "daemon" (an unsigned bounce by its From line), "report"   *)
(* (an unsigned bounce by its body only) and "plain".  The filter is the   *)
(* action of the rule that matches the message now.                        *)
(***************************************************************************)
EXTENDS Naturals

CONSTANTS
    MaxMail,    \* bound on the messages
    Sessions,   \* IMAP sessions
    NoMail      \* no message

Mail == 1..MaxMail

ASSUME ReadFaceAssumption == MaxMail \in Nat /\ NoMail \notin Mail

VARIABLES
    recs,       \* the inbound records
    assessing,  \* configuration: assessment is enabled
    holdSpoof,  \* configuration: a spoof is held for the operator, or hidden
    ses,        \* the sessions
    cards,      \* messages the operator has been shown as held
    heldOnce,   \* history: messages an assessment has held
    out         \* the message whose body the last step served

conf == <<assessing, holdSpoof>>
vars == <<recs, assessing, holdSpoof, ses, cards, heldOnce, out>>

Rules == {"allow", "hide", "hold"}

Record ==
    [kind : {"plain", "daemon", "report", "own"},
     state : {"new", "pending", "present", "gone"},
     assess : {"none", "handled", "held"},
     decision : {"none", "approved", "rejected"},
     rule : Rules]

NoRecord == [kind |-> "plain", state |-> "new", assess |-> "none",
             decision |-> "none", rule |-> "allow"]

(* view holds the records listed at SELECT; a hidden one is NoRecord.      *)
Session ==
    [pc : {"idle", "judge", "open"}, view : [Mail -> Record],
     todo : SUBSET Mail, fetch : Mail \cup {NoMail}]

NoSession == [pc |-> "idle", view |-> [m \in Mail |-> NoRecord], todo |-> {},
              fetch |-> NoMail]

Alive(r) == r.state \in {"pending", "present"}

(* The values each part of the state takes.                                *)
TypeOK ==
    /\ recs \in [Mail -> Record]
    /\ assessing \in BOOLEAN /\ holdSpoof \in BOOLEAN
    /\ ses \in [Sessions -> Session]
    /\ cards \in SUBSET Mail
    /\ heldOnce \in SUBSET Mail
    /\ out \in Mail \cup {NoMail}

Init ==
    /\ recs = [m \in Mail |-> NoRecord]
    /\ assessing \in BOOLEAN /\ holdSpoof \in BOOLEAN
    /\ ses = [s \in Sessions |-> NoSession]
    /\ cards = {}
    /\ heldOnce = {}
    /\ out = NoMail

-----------------------------------------------------------------------------
(* The store, and the sync that fills it.                                  *)

SetRecord(m, r) ==
    /\ recs' = [recs EXCEPT ![m] = r]
    /\ heldOnce' = IF r.assess = "held" THEN heldOnce \cup {m} ELSE heldOnce

(* What an assessment of a body may yield.  It is not a function of the    *)
(* body: a detector that fails or runs out of time holds the message.      *)
Dispositions == IF assessing THEN {"handled", "held"} ELSE {"none"}

(* A bounce of Darbaan's own, or a pulled message: with assessment on it   *)
(* is stored with its body and disposition, else without either.           *)
Arrive(m) ==
    /\ recs[m].state = "new"
    /\ \E k \in {"plain", "daemon", "report", "own"}, a \in Dispositions, rule \in Rules :
         SetRecord(m, [kind |-> k,
             state |-> IF k = "own" \/ assessing THEN "present" ELSE "pending",
             assess |-> IF k = "own" THEN "none" ELSE a,
             decision |-> "none", rule |-> rule])
    /\ out' = NoMail
    /\ UNCHANGED <<conf, ses, cards>>

(* A label was set, the message grew older or the rules were edited: other *)
(* rules match.                                                            *)
RuleShifts(m) ==
    /\ Alive(recs[m])
    /\ \E rule \in Rules : recs' = [recs EXCEPT ![m].rule = rule]
    /\ out' = NoMail
    /\ UNCHANGED <<conf, ses, cards, heldOnce>>

Removed(m) ==
    recs' = IF Alive(recs[m]) /\ recs[m].kind # "own"
            THEN [recs EXCEPT ![m] = [NoRecord EXCEPT !.state = "gone"]] ELSE recs

(* The reconcile pass retracts a message that left the source.             *)
Retract(m) ==
    /\ Alive(recs[m]) /\ recs[m].kind # "own"
    /\ Removed(m)
    /\ out' = NoMail
    /\ UNCHANGED <<conf, ses, cards, heldOnce>>

Restart ==
    /\ assessing' \in BOOLEAN /\ holdSpoof' \in BOOLEAN
    /\ ses' = [s \in Sessions |-> NoSession]
    /\ out' = NoMail
    /\ UNCHANGED <<recs, cards, heldOnce>>

-----------------------------------------------------------------------------
(* The gates.                                                              *)

(* Guard.IsSpoof: a bounce that carries no signature of ours.              *)
Spoof(r) == r.kind \in {"daemon", "report"}

(* Guard.Verdict: the metadata that make it look at the body, an envelope  *)
(* From like a mailer daemon's or the shape flag stored with a body.       *)
Suspect(r) == r.kind = "daemon" \/ (r.state = "present" /\ r.kind # "plain")

(* withheldIfHeld: FetchContent blanks a held body that was not exposed.   *)
Withheld(r) == r.assess = "held" /\ r.decision # "approved"

(* guardHides, given the guard's verdict.                                  *)
GuardHides(r, spoof) == spoof /\ ~(holdSpoof /\ r.decision = "approved")

(* listAndFilter: guard, assessment, the operator's decision, the rules.   *)
Visible(r, spoof) ==
    IF GuardHides(r, spoof) THEN holdSpoof /\ r.decision = "rejected"
    ELSE IF r.decision # "none" THEN TRUE
    ELSE r.assess # "held" /\ r.rule = "allow"

(* HeldList: the undecided messages of every hold source.  Its guard reads *)
(* the store only, and a body that is not there has no shape.              *)
GuardHoldsSpoof(m) ==
    holdSpoof /\ Suspect(recs[m]) /\ recs[m].state = "present" /\ Spoof(recs[m])

MutHeldListRulesOnly ==
    {m \in Mail : /\ Alive(recs[m]) /\ recs[m].decision = "none"
                  /\ recs[m].rule = "hold" \/ recs[m].assess = "held"}

HeldList ==
    {m \in Mail : /\ Alive(recs[m]) /\ recs[m].decision = "none"
                  /\ recs[m].rule = "hold" \/ recs[m].assess = "held" \/ GuardHoldsSpoof(m)}

-----------------------------------------------------------------------------
(* The operator.                                                           *)

ShowHeld ==
    /\ cards' = cards \cup HeldList
    /\ out' = NoMail
    /\ UNCHANGED <<recs, conf, ses, heldOnce>>

(* setHold: the decision of a message that was shown.  Nothing checks that *)
(* it is still held or undecided.                                          *)
DecideHeld(m) ==
    /\ m \in cards /\ Alive(recs[m])
    /\ \E d \in {"approved", "rejected"} : recs' = [recs EXCEPT ![m].decision = d]
    /\ out' = NoMail
    /\ UNCHANGED <<conf, ses, cards, heldOnce>>

-----------------------------------------------------------------------------
(* A session.                                                              *)

Set(s, x) == ses' = [ses EXCEPT ![s] = x]

First(S) == CHOOSE m \in S : \A n \in S : m <= n

(* Select, and Status up to its counts: list the records, then judge each. *)
Select(s) ==
    LET todo == {m \in Mail : Alive(recs[m])} IN
    /\ ses[s].pc # "judge" /\ ses[s].fetch = NoMail
    /\ Set(s, [pc |-> IF todo = {} THEN "open" ELSE "judge", todo |-> todo,
               view |-> [m \in Mail |-> IF m \in todo THEN recs[m] ELSE NoRecord],
               fetch |-> NoMail])
    /\ out' = NoMail
    /\ UNCHANGED <<recs, conf, cards, heldOnce>>

(* The session after its first message was judged.                         *)
JudgedView(x, spoof) ==
    LET m == First(x.todo) IN
    [pc |-> IF x.todo = {m} THEN "open" ELSE "judge",
     view |-> IF Visible(x.view[m], spoof) THEN x.view
              ELSE [x.view EXCEPT ![m] = NoRecord],
     todo |-> x.todo \ {m}, fetch |-> NoMail]

(* No upstream is needed: the metadata do not make it a suspect, or the    *)
(* body is in the store (a withheld one reads as empty, so it has no       *)
(* shape), or the record is gone, which counts as a spoof.                 *)
Judge(s) ==
    LET m == First(ses[s].todo)
        r == recs[m]
        suspect == Suspect(ses[s].view[m])
    IN  /\ ses[s].pc = "judge" /\ ses[s].fetch = NoMail
        /\ suspect => r.state # "pending"
        /\ Set(s, JudgedView(ses[s], suspect /\ (~Alive(r) \/ (Spoof(r) /\ ~Withheld(r)))))
        /\ out' = NoMail
        /\ UNCHANGED <<recs, conf, cards, heldOnce>>

JudgeFetches(s) ==
    LET m == First(ses[s].todo) IN
    /\ ses[s].pc = "judge" /\ ses[s].fetch = NoMail
    /\ Suspect(ses[s].view[m]) /\ recs[m].state = "pending"
    /\ Set(s, [ses[s] EXCEPT !.fetch = m])
    /\ out' = NoMail
    /\ UNCHANGED <<recs, conf, cards, heldOnce>>

(* rawResolver's gates on the record just fetched.                         *)
MutServableHoldOnly(r) == ~Withheld(r)

Servable(r) == ~Withheld(r) /\ ~GuardHides(r, Spoof(r))

(* FETCH or SEARCH of a body.  A message rejected in the snapshot is a     *)
(* tombstone and needs none; a removed one is an error.                    *)
Wants(s, m) ==
    /\ ses[s].pc = "open" /\ ses[s].fetch = NoMail
    /\ Alive(ses[s].view[m])
    /\ ses[s].view[m].decision # "rejected"

Read(s, m) ==
    /\ Wants(s, m)
    /\ recs[m].state = "present"
    /\ out' = IF Servable(recs[m]) THEN m ELSE NoMail
    /\ UNCHANGED <<recs, conf, ses, cards, heldOnce>>

ReadFetches(s, m) ==
    /\ Wants(s, m)
    /\ recs[m].state = "pending"
    /\ Set(s, [ses[s] EXCEPT !.fetch = m])
    /\ out' = NoMail
    /\ UNCHANGED <<recs, conf, cards, heldOnce>>

(* The upstream session of FetchContent ends: the guard, or the reader,    *)
(* goes on with what it got.                                               *)
Resume(s, spoof) ==
    Set(s, IF ses[s].pc = "judge" THEN JudgedView(ses[s], spoof)
           ELSE [ses[s] EXCEPT !.fetch = NoMail])

(* The body arrived: assess it and store both, whatever the record holds   *)
(* by now.                                                                 *)
FetchFills(s) ==
    LET m == ses[s].fetch IN
    /\ m # NoMail /\ Alive(recs[m])
    /\ \E a \in Dispositions :
         LET full == [recs[m] EXCEPT !.state = "present", !.assess = a] IN
         /\ SetRecord(m, full)
         /\ Resume(s, Spoof(full) /\ ~Withheld(full))
         /\ out' = IF ses[s].pc = "open" /\ Servable(full) THEN m ELSE NoMail
    /\ UNCHANGED <<conf, cards>>

(* The upstream fails, or the record was removed meanwhile: the guard      *)
(* fails closed, the reader gets an error.                                 *)
FetchFails(s) ==
    /\ ses[s].fetch # NoMail
    /\ Resume(s, TRUE)
    /\ out' = NoMail
    /\ UNCHANGED <<recs, conf, cards, heldOnce>>

(* The upstream no longer has the message: the record is dropped.          *)
FetchGone(s) ==
    /\ ses[s].fetch # NoMail
    /\ Removed(ses[s].fetch)
    /\ Resume(s, TRUE)
    /\ out' = NoMail
    /\ UNCHANGED <<conf, cards, heldOnce>>

Close(s) ==
    /\ ses[s].pc # "idle"
    /\ Set(s, NoSession)
    /\ out' = NoMail
    /\ UNCHANGED <<recs, conf, cards, heldOnce>>

Serve(s) ==
    \/ Select(s) \/ Judge(s) \/ JudgeFetches(s)
    \/ FetchFills(s) \/ FetchFails(s) \/ FetchGone(s) \/ Close(s)
    \/ \E m \in Mail : Read(s, m) \/ ReadFetches(s, m)

Next ==
    \/ \E s \in Sessions : Serve(s)
    \/ \E m \in Mail : Arrive(m) \/ RuleShifts(m) \/ Retract(m) \/ DecideHeld(m)
    \/ ShowHeld
    \/ Restart

Spec == Init /\ [][Next]_vars

-----------------------------------------------------------------------------
(* Properties.                                                             *)

(* A body is served only if nothing stands against it: a message that an   *)
(* assessment ever held, and an unsigned bounce, are served only after the *)
(* operator exposed them (the bounce only where spoofs are held at all).   *)
(* The session judged an older record, and the hold or the bounce's shape  *)
(* may have become known by the very fetch that serves the body.           *)
ServedOnlyCleared ==
    out # NoMail =>
        /\ out \in heldOnce => recs[out].decision = "approved"
        /\ Spoof(recs[out]) => holdSpoof /\ recs[out].decision = "approved"

(* What a session hides and no rule hides, the operator is asked about:    *)
(* the read face and the held queue evaluate the hold sources apart, on    *)
(* the same record, and must agree (listAndFilter, HeldList).  A suspect   *)
(* whose body is not stored is left out: the read face hides it when the   *)
(* fetch fails, the queue does not show it.                                *)
Hides(s, m) ==
    /\ m \in ses[s].todo
    /\ ses'[s].pc # "idle" /\ m \notin ses'[s].todo
    /\ ~Alive(ses'[s].view[m])

HeldIsQueued ==
    [][\A s \in Sessions, m \in Mail :
         /\ Hides(s, m)
         /\ recs[m] = ses[s].view[m] /\ recs[m].state = "present"
         /\ recs[m].rule # "hide"
         /\ Spoof(recs[m]) => holdSpoof
         => m \in HeldList]_vars

=============================================================================
