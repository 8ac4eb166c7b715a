----------------------------- MODULE AuditList -----------------------------
(***************************************************************************)
(* Reading the audit log over the admin API: a listing is a walk of calls, *)
(* each resuming after the position the one before returned; a call scans  *)
(* the bucket in batches, one short transaction each, while rows are       *)
(* appended between them.                                                  *)
(***************************************************************************)
EXTENDS AuditLog, SequencesExt

CONSTANTS
    Wanted,     \* transitions the filter matches
    Batch,      \* auditScanBatch
    Limits,     \* limits a client may ask for
    MaxGot      \* rows after which the client stops: only a Seq that was damaged
                \* takes it back to rows it has

ASSUME ListAssumption ==
    /\ Wanted \subseteq Transitions /\ Batch \in Nat \ {0} /\ Limits \subseteq Nat \ {0}
    /\ MaxGot \in Nat

VARIABLE
    walk    \* the client's walk and the call it has open

vars == <<auditVars, walk>>

(* got, after: what the client has and resumes after; limit, cursor, out:  *)
(* of the open call; began: history, rows issued when the walk started.    *)
NewWalk == [pc |-> "idle", got |-> <<>>, after |-> 0, limit |-> 0, cursor |-> 0,
            out |-> <<>>, began |-> 0]

ListInit == Init /\ walk = NewWalk

(* The keys of a set in key order, as the bucket's cursor visits them.     *)
Rank(S, k) == Cardinality({j \in S : j <= k})

InOrder(S) == [i \in 1..Cardinality(S) |-> CHOOSE k \in S : Rank(S, k) = i]

(* Page: up to Batch rows after the cursor, in key order.                  *)
MutPage(cursor) ==
    LET ks == InOrder({k \in Keys : k >= cursor})
    IN  SubSeq(ks, 1, IF Len(ks) < Batch THEN Len(ks) ELSE Batch)

Page(cursor) ==
    LET ks == InOrder({k \in Keys : k > cursor})
    IN  SubSeq(ks, 1, IF Len(ks) < Batch THEN Len(ks) ELSE Batch)

Match(k) == log[k].what \in Wanted

(* The rows of a set that the filter keeps, in key order.                  *)
Kept(S) == InOrder({k \in S : Match(k)})

Call(limit) ==
    /\ walk.pc = "idle" /\ Len(walk.got) <= MaxGot
    /\ walk' = [walk EXCEPT !.pc = "scan", !.limit = limit, !.cursor = walk.after,
                            !.out = <<>>,
                            !.began = IF walk.after = 0 THEN sequence ELSE @]
    /\ UNCHANGED auditVars

(* The call answers; a position of 0 says that the log was exhausted.      *)
Answer(out, next) ==
    walk' = [walk EXCEPT !.pc = IF next = 0 THEN "done" ELSE "idle",
                         !.got = @ \o out, !.out = <<>>, !.after = next]

(* One batch: the cursor passes every row, matching or not, up to the one  *)
(* that fills the limit; a short batch is the last.  The position is the   *)
(* Seq the row holds, which is its key unless the row was damaged.         *)
MutScan ==
    LET page == Page(walk.cursor)
        hits == Kept(Range(page))
        room == walk.limit - Len(walk.out)
    IN
    /\ walk.pc = "scan"
    /\ IF Len(hits) >= room
       THEN Answer(walk.out \o SubSeq(hits, 1, room), log[hits[room]].seq)
       ELSE IF Len(page) < Batch THEN Answer(walk.out \o hits, 0)
       ELSE walk' = [walk EXCEPT !.out = @ \o hits,
                                 !.cursor = IF hits = <<>> THEN @
                                            ELSE log[hits[Len(hits)]].seq]
    /\ UNCHANGED auditVars

Scan ==
    LET page == Page(walk.cursor)
        hits == Kept(Range(page))
        room == walk.limit - Len(walk.out)
    IN
    /\ walk.pc = "scan"
    /\ IF Len(hits) >= room
       THEN Answer(walk.out \o SubSeq(hits, 1, room), log[hits[room]].seq)
       ELSE IF Len(page) < Batch THEN Answer(walk.out \o hits, 0)
       ELSE walk' = [walk EXCEPT !.out = @ \o hits, !.cursor = log[page[Len(page)]].seq]
    /\ UNCHANGED auditVars

(* The call fails, as when the server stops; the client repeats it.        *)
CallFails ==
    /\ walk.pc = "scan"
    /\ walk' = [walk EXCEPT !.pc = "idle", !.out = <<>>]
    /\ UNCHANGED auditVars

ListNext ==
    \/ Next /\ UNCHANGED walk
    \/ \E limit \in Limits : Call(limit)
    \/ Scan
    \/ CallFails

ListSpec == ListInit /\ [][ListNext]_vars /\ WF_vars(Scan)

-----------------------------------------------------------------------------
(* Over an undamaged log no row is missed or repeated across batches and   *)
(* calls, whatever is appended meanwhile: the client has exactly the       *)
(* matching rows up to its position, in order, and a finished walk has all *)
(* those written before it began.                                          *)
Upto(n) == Kept(1..n)

PagesExact ==
    damage = 0 =>
        /\ walk.pc = "idle" => walk.got = Upto(walk.after)
        /\ walk.pc = "scan" => walk.got \o walk.out = Upto(walk.cursor)
        /\ walk.pc = "done" => \E n \in walk.began..sequence : walk.got = Upto(n)

(* A call ends, also over a log with rows missing or changed and a filter  *)
(* that keeps none of a batch, unless a row's Seq was damaged to less than *)
(* its key: that takes the cursor back, and the loop may repeat a batch    *)
(* for ever.                                                               *)
CallEnds ==
    walk.pc = "scan" ~> walk.pc # "scan" \/ \E k \in Keys : log[k].seq < k
=============================================================================
