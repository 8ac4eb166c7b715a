------------------------------ MODULE AuditLog ------------------------------
(***************************************************************************)
(* The hash-chained audit log (internal/audit): rows in a bbolt bucket of  *)
(* their own, keyed by the bucket's sequence, each row appended after the  *)
(* transaction it reports has committed in a message store.  The rows may  *)
(* be damaged on disk: one goes missing, or a field of it changes.         *)
(*                                                                         *)
(* What a row records (event, agent, actor, message) is the transition it  *)
(* stands for.  The hash is the tuple of what it binds, so it is injective *)
(* as SHA-256 is taken to be; time is left out.                            *)
(***************************************************************************)
EXTENDS Integers

CONSTANTS
    Transitions,    \* transactions of the message stores that are audited
    NoHash,         \* PrevHash of the first row
    MaxDamage       \* rows lost or changed on disk

ASSUME AuditAssumption == MaxDamage \in Nat

VARIABLES
    log,        \* the bucket: rows by key
    sequence,   \* the bucket's sequence
    store,      \* transitions committed in the message stores
    due,        \* committed transitions whose handler has still to append
    written,    \* history: rows as they were appended
    missed,     \* history: transitions whose row was never written
    damage

chain == <<log, sequence, written>>
auditVars == <<log, sequence, store, due, written, missed, damage>>

Keys == DOMAIN log

ComputeHash(prev, seq, what) == <<prev, seq, what>>

Init ==
    /\ log = [k \in {} |-> NoHash]
    /\ sequence = 0
    /\ store = {} /\ due = {}
    /\ written = log
    /\ missed = {}
    /\ damage = 0

-----------------------------------------------------------------------------
(* A store transaction commits; its handler then calls writeAudit.         *)
MutCommit(t) ==
    /\ t \notin store
    /\ due' = due \cup {t}
    /\ store' = store
    /\ UNCHANGED <<log, sequence, written, missed, damage>>

Commit(t) ==
    /\ t \notin store
    /\ store' = store \cup {t}
    /\ due' = due \cup {t}
    /\ UNCHANGED <<log, sequence, written, missed, damage>>

(* The last row of the bucket, which is not the last one issued when rows  *)
(* were lost.                                                              *)
Newest == CHOOSE k \in Keys : \A j \in Keys : j <= k

PrevHash == IF Keys = {} THEN NoHash ELSE log[Newest].hash

Entry(t) ==
    LET seq == sequence + 1
    IN  [seq |-> seq, what |-> t, prev |-> PrevHash,
         hash |-> ComputeHash(PrevHash, seq, t)]

Put(f, k, e) == [j \in DOMAIN f \cup {k} |-> IF j = k THEN e ELSE f[j]]

(* The slot after the last row, as a log without a sequence would take it. *)
MutAppendEntry(t) ==
    LET seq == IF Keys = {} THEN 1 ELSE Newest + 1
        e == [seq |-> seq, what |-> t, prev |-> PrevHash,
              hash |-> ComputeHash(PrevHash, seq, t)]
    IN
    /\ t \in due
    /\ sequence' = IF seq > sequence THEN seq ELSE sequence
    /\ log' = Put(log, seq, e)
    /\ written' = IF seq \in DOMAIN written THEN written ELSE Put(written, seq, e)
    /\ due' = due \ {t}
    /\ UNCHANGED <<store, missed, damage>>

AppendEntry(t) ==
    /\ t \in due
    /\ sequence' = sequence + 1
    /\ log' = Put(log, sequence + 1, Entry(t))
    /\ written' = Put(written, sequence + 1, Entry(t))
    /\ due' = due \ {t}
    /\ UNCHANGED <<store, missed, damage>>

(* The transaction rolls back, the sequence with it; the failure is only   *)
(* logged.                                                                 *)
AppendFails(t) ==
    /\ t \in due
    /\ due' = due \ {t}
    /\ missed' = missed \cup {t}
    /\ UNCHANGED <<log, sequence, store, written, damage>>

(* The process stops between the commits and the rows.                     *)
Crash ==
    /\ due # {}
    /\ due' = {}
    /\ missed' = missed \cup due
    /\ UNCHANGED <<log, sequence, store, written, damage>>

-----------------------------------------------------------------------------
(* Damage to the file; the bucket's sequence survives it.                  *)
Lose(k) ==
    /\ damage < MaxDamage /\ damage' = damage + 1
    /\ log' = [j \in Keys \ {k} |-> log[j]]
    /\ UNCHANGED <<sequence, store, due, written, missed>>

(* A row with one field changed, which still decodes.  A hash that changes *)
(* becomes one that no row has, as SHA-256 has it; a Seq above the         *)
(* sequence, which ends a listing, is left out.                            *)
BadHash == ComputeHash(NoHash, 0, NoHash)

Altered(k) ==
    {[log[k] EXCEPT !.what = t] : t \in Transitions}
        \cup {[log[k] EXCEPT !.seq = n] : n \in 0..sequence}
        \cup {[log[k] EXCEPT !.prev = BadHash], [log[k] EXCEPT !.hash = BadHash]}

(* A row that says something else, its hash recomputed to fit.  The chain  *)
(* has no key, so for the last row issued nothing could tell: left out.    *)
Forged(k) ==
    {[seq |-> log[k].seq, what |-> t, prev |-> log[k].prev,
      hash |-> ComputeHash(log[k].prev, log[k].seq, t)] :
        t \in {u \in Transitions : k # sequence /\ u # written[k].what}}

Alter(k, e) ==
    /\ damage < MaxDamage /\ damage' = damage + 1
    /\ log' = [log EXCEPT ![k] = e]
    /\ UNCHANGED <<sequence, store, due, written, missed>>

-----------------------------------------------------------------------------
(* Verify: the rows are a gap-free run from 1, each under its own key,     *)
(* linked to the one before and with the hash of what it says, and the     *)
(* last one is the last that was issued.                                   *)
RowVerifies(k) ==
    /\ log[k].seq = k
    /\ log[k].prev = IF k = 1 THEN NoHash ELSE log[k - 1].hash
    /\ log[k].hash = ComputeHash(log[k].prev, k, log[k].what)

Verify == Keys = 1..sequence /\ \A k \in Keys : RowVerifies(k)

Next ==
    \/ \E t \in Transitions : Commit(t) \/ AppendEntry(t) \/ AppendFails(t)
    \/ Crash
    \/ \E k \in Keys : Lose(k)
    \/ \E k \in Keys : \E e \in Altered(k) \cup Forged(k) : Alter(k, e)

Spec == Init /\ [][Next]_auditVars

-----------------------------------------------------------------------------
(* The values each part of the state takes.                                *)
TypeOK ==
    /\ sequence \in Nat
    /\ store \subseteq Transitions
    /\ due \subseteq store
    /\ missed \subseteq store
    /\ damage \in 0..MaxDamage
    /\ Keys \subseteq DOMAIN written
    /\ DOMAIN written = 1..sequence

(* Verify tells damaged logs from whole ones: it passes after any appends, *)
(* failed appends and crashes, and fails once a row is lost or a field of  *)
(* it changed, wherever it was and whatever is appended afterwards; also   *)
(* when its hash was made to fit, if a row had been appended after it.     *)
VerifyExact == Verify <=> log = written

(* A row never reports a transition that did not commit, and no transition *)
(* has two rows: what a crash can leave is a gap.                          *)
NoPhantom ==
    /\ \A k \in DOMAIN written : written[k].what \in store
    /\ \A j, k \in DOMAIN written : written[j].what = written[k].what => j = k
=============================================================================
