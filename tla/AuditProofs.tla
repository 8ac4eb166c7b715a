---------------------------- MODULE AuditProofs ----------------------------
(***************************************************************************)
(* The audit log tells damage for every length of the log and any number   *)
(* of lost and changed rows, and never reports what did not happen; and    *)
(* the pages of a listing hold what the filter keeps, each row once.       *)
(***************************************************************************)
EXTENDS AuditList, FiniteSetTheorems, SequenceTheorems, WellFoundedInduction, TLAPS

Row(k, t, p, h) == [seq |-> k, what |-> t, prev |-> p, hash |-> h]

(* Rows were issued without gaps, and each one binds what it said.         *)
Issued ==
    /\ sequence \in Nat
    /\ written = [k \in 1..sequence |-> written[k]]
    /\ \A k \in 1..sequence :
          \E t, p : written[k] = Row(k, t, p, ComputeHash(p, k, t))

(* What damage leaves of a row on disk: its link is as written or bad, and *)
(* so is the hash of the last row, which nothing can be forged under.      *)
OnDisk ==
    /\ Keys \subseteq 1..sequence
    /\ log = [k \in Keys |-> log[k]]
    /\ \A k \in Keys :
          /\ \E n, t, p, h : log[k] = Row(n, t, p, h)
          /\ log[k].prev \in {written[k].prev, BadHash}
          /\ k = sequence => log[k].hash \in {written[k].hash, BadHash}

(* A row was linked to the one before it, if that one is still there: lost *)
(* rows never come back.  The link is bad only where that row's hash had   *)
(* been damaged, and a damaged hash never becomes the written one again.   *)
Linked ==
    \A k \in 1..sequence :
        /\ k = 1 => written[k].prev = NoHash
        /\ k > 1 /\ k - 1 \in Keys =>
              \/ written[k].prev = written[k - 1].hash
              \/ written[k].prev = BadHash /\ log[k - 1].hash # written[k - 1].hash

ChainInv == Issued /\ OnDisk /\ Linked

LEMMA RowFields ==
  ASSUME NEW k, NEW t, NEW p, NEW h
  PROVE  /\ Row(k, t, p, h).seq = k /\ Row(k, t, p, h).what = t
         /\ Row(k, t, p, h).prev = p /\ Row(k, t, p, h).hash = h
  BY DEF Row

LEMMA InitChain == Init => ChainInv
  BY DEF Init, ChainInv, Issued, OnDisk, Linked, Keys

(* The newest row of a log that has not lost its last one is that one.     *)
LEMMA NewestIsLast ==
  ASSUME sequence \in Nat, Keys \subseteq 1..sequence, sequence \in Keys
  PROVE  Newest = sequence
<1>1. \A j \in Keys : j <= sequence
  OBVIOUS
<1>2. Newest \in Keys /\ \A j \in Keys : j <= Newest
  BY <1>1, Zenon DEF Newest
<1> QED
  BY <1>1, <1>2

LEMMA AppendChain ==
  ASSUME ChainInv, NEW t, AppendEntry(t)
  PROVE  ChainInv'
<1> DEFINE n == sequence + 1
<1>1. /\ sequence \in Nat /\ n \in Nat /\ sequence' = n
      /\ Keys \subseteq 1..sequence /\ DOMAIN written = 1..sequence
      /\ n \notin Keys /\ 1..n = (1..sequence) \cup {n} /\ n \notin 1..sequence
  BY DEF ChainInv, Issued, OnDisk, AppendEntry
<1>2. /\ Keys' = Keys \cup {n}
      /\ log'[n] = Entry(t) /\ written'[n] = Entry(t)
      /\ \A k \in Keys : log'[k] = log[k]
      /\ \A k \in 1..sequence : written'[k] = written[k]
      /\ log' = [k \in Keys' |-> log'[k]]
      /\ written' = [k \in 1..n |-> written'[k]]
  BY <1>1 DEF AppendEntry, Put, Keys
<1>3. Entry(t) = Row(n, t, PrevHash, ComputeHash(PrevHash, n, t))
  BY DEF Entry, Row
<1>4. Entry(t).prev = PrevHash /\ Entry(t).hash = ComputeHash(PrevHash, n, t)
  BY <1>3, RowFields
<1>5. Issued'
  <2>1. ASSUME NEW k \in 1..n
        PROVE  \E u, p : written'[k] = Row(k, u, p, ComputeHash(p, k, u))
    <3>1. CASE k = n
      BY <3>1, <1>2, <1>3, Zenon
    <3>2. CASE k \in 1..sequence
      <4>1. PICK u, p : written[k] = Row(k, u, p, ComputeHash(p, k, u))
        BY <3>2 DEF ChainInv, Issued
      <4>2. written'[k] = written[k]
        BY <3>2, <1>2
      <4> QED
        BY <4>1, <4>2, Zenon
    <3> QED
      BY <3>1, <3>2, <1>1
  <2> QED
    BY <2>1, <1>1, <1>2 DEF Issued
<1>6. OnDisk'
  <2>1. ASSUME NEW k \in Keys'
        PROVE  /\ \E m, u, p, h : log'[k] = Row(m, u, p, h)
               /\ log'[k].prev \in {written'[k].prev, BadHash}
               /\ k = n => log'[k].hash \in {written'[k].hash, BadHash}
    <3>1. CASE k = n
      <4>1. log'[k] = Row(n, t, PrevHash, ComputeHash(PrevHash, n, t))
        BY <3>1, <1>2, <1>3
      <4>2. log'[k] = written'[k]
        BY <3>1, <1>2
      <4> QED
        BY <4>1, <4>2, Zenon
    <3>2. CASE k \in Keys
      <4>1. written'[k] = written[k] /\ log'[k] = log[k] /\ k # n
        BY <3>2, <1>1, <1>2
      <4>2. /\ \E m, u, p, h : log[k] = Row(m, u, p, h)
            /\ log[k].prev \in {written[k].prev, BadHash}
        BY <3>2 DEF ChainInv, OnDisk
      <4> QED
        BY <4>1, <4>2, Zenon
    <3> QED
      BY <3>1, <3>2, <1>2
  <2>2. Keys' \subseteq 1..n
    BY <1>1, <1>2
  <2> QED
    BY <2>1, <2>2, <1>1, <1>2, Zenon DEF OnDisk, BadHash, ComputeHash
<1>7. Linked'
  <2> SUFFICES ASSUME NEW k \in 1..n
               PROVE  /\ k = 1 => written'[k].prev = NoHash
                      /\ k > 1 /\ k - 1 \in Keys' =>
                            \/ written'[k].prev = written'[k - 1].hash
                            \/ written'[k].prev = BadHash /\ log'[k - 1].hash # written'[k - 1].hash
    BY <1>1 DEF Linked, BadHash, ComputeHash
  <2>1. CASE k = n
    <3>1. k = 1 => Keys = {}
      BY <2>1, <1>1
    <3>2. k = 1 => written'[k].prev = NoHash
      BY <3>1, <2>1, <1>2, <1>4 DEF PrevHash
    <3>3. ASSUME k > 1, k - 1 \in Keys'
          PROVE  \/ written'[k].prev = written'[k - 1].hash
                 \/ written'[k].prev = BadHash /\ log'[k - 1].hash # written'[k - 1].hash
      <4>1. k - 1 = sequence /\ sequence \in Keys /\ sequence \in 1..sequence
        BY <3>3, <2>1, <1>1, <1>2
      <4>2. PrevHash = log[sequence].hash
        BY <4>1, <1>1, NewestIsLast DEF PrevHash
      <4>3. log[sequence].hash \in {written[sequence].hash, BadHash}
        BY <4>1 DEF ChainInv, OnDisk
      <4>4. /\ log'[sequence] = log[sequence] /\ written'[sequence] = written[sequence]
            /\ written'[k].prev = PrevHash
        BY <4>1, <2>1, <1>2, <1>4
      <4> QED
        BY <4>1, <4>2, <4>3, <4>4
    <3> QED
      BY <3>2, <3>3
  <2>2. CASE k # n
    <3>1. k \in 1..sequence /\ (k > 1 => k - 1 \in 1..sequence /\ k - 1 # n)
      BY <2>2, <1>1
    <3>2. k > 1 /\ k - 1 \in Keys' => k - 1 \in Keys /\ log'[k - 1] = log[k - 1]
      BY <3>1, <1>2
    <3> QED
      BY <3>1, <3>2, <1>2 DEF ChainInv, Linked
  <2> QED
    BY <2>1, <2>2
<1> QED
  BY <1>5, <1>6, <1>7 DEF ChainInv

LEMMA LoseChain ==
  ASSUME ChainInv, NEW k \in Keys, Lose(k)
  PROVE  ChainInv'
<1>1. /\ Keys' = Keys \ {k} /\ \A j \in Keys' : log'[j] = log[j]
      /\ log' = [j \in Keys' |-> log'[j]] /\ sequence' = sequence /\ written' = written
  BY DEF Lose, Keys
<1>2. Issued' /\ Linked'
  BY <1>1 DEF ChainInv, Issued, Linked, BadHash, ComputeHash
<1>3. ASSUME NEW j \in Keys'
      PROVE  /\ \E n, t, p, h : log'[j] = Row(n, t, p, h)
             /\ log'[j].prev \in {written[j].prev, BadHash}
             /\ j = sequence => log'[j].hash \in {written[j].hash, BadHash}
  <2>1. j \in Keys /\ log'[j] = log[j]
    BY <1>1
  <2>2. /\ \E n, t, p, h : log[j] = Row(n, t, p, h)
        /\ log[j].prev \in {written[j].prev, BadHash}
        /\ j = sequence => log[j].hash \in {written[j].hash, BadHash}
    BY <2>1 DEF ChainInv, OnDisk
  <2> QED
    BY <2>1, <2>2, Zenon
<1>4. Keys' \subseteq 1..sequence'
  BY <1>1 DEF ChainInv, OnDisk
<1>5. OnDisk'
  BY <1>1, <1>3, <1>4, Zenon DEF OnDisk, BadHash, ComputeHash
<1> QED
  BY <1>2, <1>5 DEF ChainInv

(* The hash a row was written with binds its key: no damaged hash is it.   *)
LEMMA WrittenHash ==
  ASSUME Issued, NEW k \in 1..sequence
  PROVE  /\ written[k].hash = ComputeHash(written[k].prev, k, written[k].what)
         /\ written[k].hash # BadHash
         /\ \A p, n, t : t # written[k].what => ComputeHash(p, n, t) # written[k].hash
<1>1. PICK t, p : written[k] = Row(k, t, p, ComputeHash(p, k, t))
  BY DEF Issued
<1>2. written[k].hash = ComputeHash(written[k].prev, k, written[k].what)
  BY <1>1, RowFields
<1>3. k # 0
  BY DEF Issued
<1> QED
  BY <1>2, <1>3 DEF ComputeHash, BadHash

(* What damage does to a row.                                              *)
LEMMA DamagedRow ==
  ASSUME ChainInv, NEW k \in Keys, NEW e \in Altered(k) \cup Forged(k)
  PROVE  /\ \E n, t, p, h : e = Row(n, t, p, h)
         /\ e.prev \in {log[k].prev, BadHash}
         /\ \/ e.hash \in {log[k].hash, BadHash}
            \/ k # sequence /\ e.hash # written[k].hash
<1> DEFINE Damaged ==
      /\ \E n, t, p, h : e = Row(n, t, p, h)
      /\ e.prev \in {log[k].prev, BadHash}
      /\ \/ e.hash \in {log[k].hash, BadHash}
         \/ k # sequence /\ e.hash # written[k].hash
<1>1. PICK n, t, p, h : log[k] = Row(n, t, p, h)
  BY DEF ChainInv, OnDisk
<1>2. log[k].prev = p /\ log[k].hash = h /\ log[k].seq = n
  BY <1>1, RowFields
<1>3. ASSUME NEW m, NEW u, NEW q, NEW g, e = Row(m, u, q, g),
             q \in {p, BadHash}, g \in {h, BadHash}
      PROVE  Damaged
  <2>1. e.prev = q /\ e.hash = g
    BY <1>3, RowFields
  <2> QED
    BY <2>1, <1>2, <1>3, Zenon
<1>4. ASSUME NEW u, e = [log[k] EXCEPT !.what = u] PROVE Damaged
  <2>1. e = Row(n, u, p, h)
    BY <1>1, <1>4 DEF Row
  <2> QED
    BY <2>1, <1>3, Zenon
<1>5. ASSUME NEW u, e = [log[k] EXCEPT !.seq = u] PROVE Damaged
  <2>1. e = Row(u, t, p, h)
    BY <1>1, <1>5 DEF Row
  <2> QED
    BY <2>1, <1>3, Zenon
<1>6. ASSUME e = [log[k] EXCEPT !.prev = BadHash] \/ e = [log[k] EXCEPT !.hash = BadHash]
      PROVE  Damaged
  <2>1. e = Row(n, t, BadHash, h) \/ e = Row(n, t, p, BadHash)
    BY <1>1, <1>6 DEF Row
  <2> QED
    BY <2>1, <1>3, Zenon
<1> SUFFICES Damaged
  OBVIOUS
<1> HIDE DEF Damaged
<1>7. CASE e \in Altered(k)
  BY <1>4, <1>5, <1>6, <1>7 DEF Altered
<1> USE DEF Damaged
<1>8. CASE e \in Forged(k)
  <2>1. PICK u \in {v \in Transitions : k # sequence /\ v # written[k].what} :
           e = Row(n, u, p, ComputeHash(p, n, u))
    BY <1>2, <1>8 DEF Forged, Row
  <2>2. e.prev = p /\ e.hash = ComputeHash(p, n, u)
    BY <2>1, RowFields
  <2>3. k \in 1..sequence /\ Issued
    BY DEF ChainInv, OnDisk
  <2>4. ComputeHash(p, n, u) # written[k].hash
    BY <2>1, <2>3, WrittenHash, Zenon
  <2> QED
    BY <1>2, <2>1, <2>2, <2>4, Zenon
<1> QED
  BY <1>7, <1>8

LEMMA AlterChain ==
  ASSUME ChainInv, NEW k \in Keys, NEW e \in Altered(k) \cup Forged(k), Alter(k, e)
  PROVE  ChainInv'
<1>1. /\ Keys' = Keys /\ sequence' = sequence /\ written' = written
      /\ log' = [j \in Keys' |-> log'[j]]
      /\ log'[k] = e
      /\ \A j \in Keys : j # k => log'[j] = log[j]
  BY DEF Alter, Keys
<1>2. Issued' /\ Issued
  BY <1>1 DEF ChainInv, Issued
<1>3. ASSUME NEW j \in Keys
      PROVE  /\ \E n, t, p, h : log'[j] = Row(n, t, p, h)
             /\ log'[j].prev \in {written[j].prev, BadHash}
             /\ j = sequence => log'[j].hash \in {written[j].hash, BadHash}
             /\ log[j].hash # written[j].hash => log'[j].hash # written[j].hash
  <2>1. /\ \E n, t, p, h : log[j] = Row(n, t, p, h)
        /\ log[j].prev \in {written[j].prev, BadHash}
        /\ j = sequence => log[j].hash \in {written[j].hash, BadHash}
        /\ j \in 1..sequence
    BY DEF ChainInv, OnDisk
  <2>2. written[j].hash # BadHash
    BY <2>1, <1>2, WrittenHash
  <2>3. CASE j = k
    BY <2>1, <2>2, <2>3, <1>1, DamagedRow
  <2>4. CASE j # k
    BY <2>1, <2>4, <1>1
  <2> QED
    BY <2>3, <2>4
<1>4. Keys' \subseteq 1..sequence'
  BY <1>1 DEF ChainInv, OnDisk
<1>5. OnDisk'
  BY <1>1, <1>3, <1>4, Zenon DEF OnDisk, BadHash, ComputeHash
<1>6. Linked'
  BY <1>1, <1>3 DEF ChainInv, Linked, BadHash, ComputeHash
<1> QED
  BY <1>2, <1>5, <1>6 DEF ChainInv

LEMMA StepChain == ChainInv /\ [Next]_auditVars => ChainInv'
<1> SUFFICES ASSUME ChainInv, [Next]_auditVars PROVE ChainInv'
  OBVIOUS
<1>1. ASSUME UNCHANGED chain PROVE ChainInv'
  <2>1. log' = log /\ sequence' = sequence /\ written' = written /\ Keys' = Keys
    BY <1>1 DEF chain, Keys
  <2>2. Issued'
    BY <2>1, Zenon DEF ChainInv, Issued
  <2>3. OnDisk'
    <3>1. ASSUME NEW k \in Keys'
          PROVE  /\ \E n, t, p, h : log'[k] = Row(n, t, p, h)
                 /\ log'[k].prev \in {written[k].prev, BadHash}
                 /\ k = sequence => log'[k].hash \in {written[k].hash, BadHash}
      <4>1. /\ \E n, t, p, h : log[k] = Row(n, t, p, h)
            /\ log[k].prev \in {written[k].prev, BadHash}
            /\ k = sequence => log[k].hash \in {written[k].hash, BadHash}
        BY <2>1 DEF ChainInv, OnDisk
      <4> QED
        BY <4>1, <2>1, Zenon
    <3>2. Keys' \subseteq 1..sequence' /\ log' = [k \in Keys' |-> log'[k]]
      BY <2>1 DEF ChainInv, OnDisk
    <3> QED
      BY <2>1, <3>1, <3>2, Zenon DEF OnDisk, BadHash, ComputeHash
  <2>4. Linked'
    BY <2>1, Zenon DEF ChainInv, Linked, BadHash, ComputeHash
  <2> QED
    BY <2>2, <2>3, <2>4 DEF ChainInv
<1>2. ASSUME NEW t \in Transitions, Commit(t) \/ AppendFails(t) PROVE ChainInv'
  BY <1>1, <1>2 DEF Commit, AppendFails, chain
<1>3. ASSUME Crash \/ UNCHANGED auditVars PROVE ChainInv'
  BY <1>1, <1>3 DEF Crash, chain, auditVars
<1> QED
  BY <1>2, <1>3, AppendChain, LoseChain, AlterChain DEF Next

(* From the chain invariant: a log that verifies has every row.  The hash  *)
(* of the last one is the written one, and so is that of any other, to     *)
(* which the next row is linked; and a hash binds all that its row says.   *)
LEMMA ChainExact == ChainInv => VerifyExact
<1> SUFFICES ASSUME ChainInv PROVE Verify <=> log = written
  BY DEF VerifyExact
<1>1. /\ sequence \in Nat /\ Keys \subseteq 1..sequence /\ DOMAIN written = 1..sequence
  BY DEF ChainInv, Issued, OnDisk
<1>2. /\ written = [k \in 1..sequence |-> written[k]]
      /\ log = [k \in Keys |-> log[k]]
  BY DEF ChainInv, Issued, OnDisk
<1>3. ASSUME Verify PROVE log = written
  <2>1. Keys = 1..sequence
    BY <1>3 DEF Verify
  <2>2. ASSUME NEW k \in 1..sequence PROVE log[k] = written[k]
    <3>1. PICK t, p : written[k] = Row(k, t, p, ComputeHash(p, k, t))
      BY DEF ChainInv, Issued
    <3>2. PICK m, u, q, h : log[k] = Row(m, u, q, h)
      BY <2>1 DEF ChainInv, OnDisk
    <3>3. log[k].seq = m /\ log[k].what = u /\ log[k].prev = q /\ log[k].hash = h
      BY <3>2, RowFields
    <3>4. m = k /\ h = ComputeHash(q, k, u)
      BY <3>3, <1>3, <2>1 DEF Verify, RowVerifies
    <3>5. h # BadHash
      <4>1. k # 0
        BY <1>1
      <4> QED
        BY <3>4, <4>1 DEF ComputeHash, BadHash
    <3>6. h = written[k].hash
      <4>1. CASE k = sequence
        BY <4>1, <3>3, <3>5, <2>1 DEF ChainInv, OnDisk
      <4>2. CASE k # sequence
        <5>1. k + 1 \in 1..sequence /\ k + 1 > 1 /\ (k + 1) - 1 = k /\ k + 1 # 1
          BY <4>2, <1>1
        <5>2. log[k + 1].prev = log[k].hash
          BY <5>1, <1>3, <2>1 DEF Verify, RowVerifies
        <5>3. log[k + 1].prev \in {written[k + 1].prev, BadHash}
          BY <5>1, <2>1 DEF ChainInv, OnDisk
        <5>4. written[k + 1].prev \in {written[k].hash, BadHash}
          BY <5>1, <2>1 DEF ChainInv, Linked
        <5> QED
          BY <5>2, <5>3, <5>4, <3>3, <3>5
      <4> QED
        BY <4>1, <4>2
    <3>7. written[k].hash = ComputeHash(p, k, t)
      BY <3>1, RowFields
    <3>8. q = p /\ u = t
      BY <3>4, <3>6, <3>7 DEF ComputeHash
    <3> QED
      BY <3>1, <3>2, <3>4, <3>6, <3>7, <3>8
  <2> QED
    BY <2>1, <2>2, <1>2
<1>4. ASSUME log = written PROVE Verify
  <2>1. Keys = 1..sequence
    BY <1>1, <1>4 DEF Keys
  <2>2. ASSUME NEW k \in Keys PROVE RowVerifies(k)
    <3>1. PICK t, p : log[k] = Row(k, t, p, ComputeHash(p, k, t))
      BY <1>4, <2>1 DEF ChainInv, Issued
    <3>2. log[k].seq = k /\ log[k].hash = ComputeHash(log[k].prev, k, log[k].what)
      BY <3>1, RowFields
    <3>3. CASE k = 1
      BY <3>2, <3>3, <1>4, <2>1 DEF RowVerifies, ChainInv, Linked
    <3>4. CASE k # 1
      <4>1. k > 1 /\ k - 1 \in Keys
        BY <3>4, <2>1, <1>1
      <4> QED
        BY <3>2, <3>4, <4>1, <1>4, <2>1 DEF RowVerifies, ChainInv, Linked
    <3> QED
      BY <3>3, <3>4
  <2> QED
    BY <2>1, <2>2 DEF Verify
<1> QED
  BY <1>3, <1>4

(* Verify fails exactly when a row was lost or a field of it changed,      *)
(* however many rows were appended before and after; a hash recomputed to  *)
(* fit does not hide a row under which another was appended (Verify).      *)
THEOREM VerifyTheorem == Spec => []VerifyExact
<1>1. Spec => []ChainInv
  BY InitChain, StepChain, PTL DEF Spec
<1> QED
  BY <1>1, ChainExact, PTL

-----------------------------------------------------------------------------
(* Rows stand for transitions that committed, are not awaited any more and *)
(* were not given up, each for one of its own.                             *)
RowsInv ==
    /\ sequence \in Nat /\ DOMAIN written = 1..sequence
    /\ Keys \subseteq 1..sequence
    /\ store \subseteq Transitions /\ due \subseteq store /\ missed \subseteq store
    /\ damage \in 0..MaxDamage
    /\ \A k \in 1..sequence : written[k].what \in store \ due
    /\ \A j, k \in 1..sequence : written[j].what = written[k].what => j = k

LEMMA StepRows == RowsInv /\ [Next]_auditVars => RowsInv'
<1> SUFFICES ASSUME RowsInv, [Next]_auditVars PROVE RowsInv'
  OBVIOUS
<1>1. ASSUME NEW t \in Transitions, Commit(t) PROVE RowsInv'
  BY <1>1 DEF RowsInv, Commit, Keys
<1>2. ASSUME NEW t \in Transitions, AppendEntry(t) PROVE RowsInv'
  <2> DEFINE n == sequence + 1
  <2>1. /\ n \in Nat /\ sequence' = n /\ n \notin 1..sequence
        /\ 1..n = (1..sequence) \cup {n}
    BY <1>2 DEF RowsInv, AppendEntry
  <2>2. /\ DOMAIN written' = 1..n /\ Keys' = Keys \cup {n}
        /\ \A k \in 1..sequence : written'[k] = written[k]
        /\ written'[n].what = t
    BY <1>2, <2>1 DEF RowsInv, AppendEntry, Put, Entry, Keys
  <2>3. /\ store' = store /\ due' = due \ {t} /\ t \in due /\ missed' = missed
        /\ damage' = damage
    BY <1>2 DEF AppendEntry
  <2>4. \A k \in 1..n : written'[k].what \in store' \ due'
    BY <2>1, <2>2, <2>3 DEF RowsInv
  <2>5. \A j, k \in 1..n : written'[j].what = written'[k].what => j = k
    BY <2>1, <2>2, <2>3 DEF RowsInv
  <2> QED
    BY <2>1, <2>2, <2>3, <2>4, <2>5 DEF RowsInv
<1>3. ASSUME NEW t \in Transitions, AppendFails(t) PROVE RowsInv'
  BY <1>3 DEF RowsInv, AppendFails, Keys
<1>4. ASSUME Crash PROVE RowsInv'
  BY <1>4 DEF RowsInv, Crash, Keys
<1>5. ASSUME NEW k \in Keys, Lose(k) PROVE RowsInv'
  BY <1>5, AuditAssumption DEF RowsInv, Lose, Keys
<1>6. ASSUME NEW k \in Keys, NEW e \in Altered(k) \cup Forged(k), Alter(k, e) PROVE RowsInv'
  BY <1>6, AuditAssumption DEF RowsInv, Alter, Keys
<1>7. ASSUME UNCHANGED auditVars PROVE RowsInv'
  BY <1>7 DEF RowsInv, auditVars, Keys
<1> QED
  BY <1>1, <1>2, <1>3, <1>4, <1>5, <1>6, <1>7 DEF Next

LEMMA RowsHold == Spec => []RowsInv
<1>1. Init => RowsInv
  BY AuditAssumption DEF Init, RowsInv, Keys
<1> QED
  BY <1>1, StepRows, PTL DEF Spec

(* The log's type invariant.                                               *)
THEOREM TypeTheorem == Spec => []TypeOK
<1>1. RowsInv => TypeOK
  BY DEF RowsInv, TypeOK
<1> QED
  BY <1>1, RowsHold, PTL

(* A row is never written for a transition that did not commit, nor twice  *)
(* for one that did, whatever fails and whenever the process stops.        *)
THEOREM NoPhantomTheorem == Spec => []NoPhantom
<1>1. RowsInv => NoPhantom
  BY DEF RowsInv, NoPhantom
<1> QED
  BY <1>1, RowsHold, PTL

(* The log under listing clients is the log: reading never disturbs it, so *)
(* what is proved above holds while clients page through it.               *)
THEOREM ListingLeavesLog == ListSpec => Spec /\ []VerifyExact /\ []NoPhantom
<1>1. ListInit => Init
  BY DEF ListInit
<1>2. ASSUME [ListNext]_vars PROVE [Next]_auditVars
  <2>1. CASE Next
    BY <2>1
  <2>2. CASE UNCHANGED auditVars
    BY <2>2
  <2>3. ASSUME NEW limit \in Limits, Call(limit) PROVE UNCHANGED auditVars
    BY <2>3 DEF Call
  <2>4. ASSUME Scan \/ CallFails \/ UNCHANGED vars PROVE UNCHANGED auditVars
    BY <2>4 DEF Scan, CallFails, vars
  <2> QED
    BY <1>2, <2>1, <2>2, <2>3, <2>4 DEF ListNext
<1>3. ListSpec => Spec
  BY <1>1, <1>2, PTL DEF ListSpec, Spec
<1> QED
  BY <1>3, VerifyTheorem, NoPhantomTheorem, PTL
-----------------------------------------------------------------------------
(* A sequence lists a set: all of it, in order.                            *)
Increasing(s) == \A i, j \in 1..Len(s) : i < j => s[i] < s[j]

Lists(s, S) == s \in Seq(Nat) /\ Increasing(s) /\ {s[i] : i \in 1..Len(s)} = S

(* The first position at which a fact fails: induction on the naturals.    *)
LEMMA LeastExists ==
  ASSUME NEW S, S \subseteq Nat, S # {}
  PROVE  \E x \in S : \A y \in S : x <= y
<1>1. PICK x \in S : \A y \in S : ~(<<y, x>> \in OpToRel(<, Nat))
  BY NatLessThanWellFounded, WFMin
<1>2. \A y \in S : y \in Nat /\ x \in Nat
  OBVIOUS
<1>3. \A y \in S : ~(y < x)
  BY <1>1, <1>2 DEF OpToRel
<1> QED
  BY <1>2, <1>3

LEMMA ListsAppend ==
  ASSUME NEW n \in Nat, NEW S \in SUBSET (1..n), NEW s, Lists(s, S)
  PROVE  Lists(Append(s, n + 1), S \cup {n + 1})
<1> DEFINE t == Append(s, n + 1)
<1>1. s \in Seq(Nat) /\ Len(s) \in Nat /\ \A i \in 1..Len(s) : s[i] \in 1..n
  BY DEF Lists
<1>2. /\ t \in Seq(Nat) /\ Len(t) = Len(s) + 1
      /\ \A i \in 1..Len(s) : t[i] = s[i]
      /\ t[Len(s) + 1] = n + 1
  BY <1>1
<1> HIDE DEF t
<1>3. Increasing(t)
  <2> SUFFICES ASSUME NEW i \in 1..Len(t), NEW j \in 1..Len(t), i < j PROVE t[i] < t[j]
    BY DEF Increasing
  <2>0. i \in 1..Len(s) /\ (j = Len(s) + 1 \/ j \in 1..Len(s))
    BY <1>1, <1>2
  <2>1. CASE j = Len(s) + 1
    <3>1. t[i] \in 1..n /\ t[j] = n + 1
      BY <2>0, <2>1, <1>1, <1>2
    <3> QED
      BY <3>1
  <2>2. CASE j \in 1..Len(s)
    <3>1. s[i] < s[j] /\ t[i] = s[i] /\ t[j] = s[j]
      BY <2>0, <2>2, <1>2 DEF Lists, Increasing
    <3> QED
      BY <3>1
  <2> QED
    BY <2>0, <2>1, <2>2
<1>4. {t[i] : i \in 1..Len(t)} = S \cup {n + 1}
  <2>1. ASSUME NEW i \in 1..Len(t) PROVE t[i] \in S \cup {n + 1}
    <3>1. i = Len(s) + 1 \/ i \in 1..Len(s)
      BY <1>1, <1>2
    <3> QED
      BY <3>1, <1>2 DEF Lists
  <2>2. ASSUME NEW k \in S PROVE \E i \in 1..Len(t) : t[i] = k
    <3>1. PICK i \in 1..Len(s) : s[i] = k
      BY DEF Lists
    <3>2. i \in 1..Len(t) /\ t[i] = k
      BY <3>1, <1>1, <1>2
    <3> QED
      BY <3>2
  <2>3. Len(s) + 1 \in 1..Len(t)
    BY <1>1, <1>2
  <2> QED
    BY <2>1, <2>2, <2>3, <1>2
<1> QED
  BY <1>2, <1>3, <1>4 DEF Lists, t

(* Every set of keys can be listed.                                        *)
LEMMA Listing ==
  ASSUME NEW n \in Nat, NEW S \in SUBSET (1..n)
  PROVE  \E s : Lists(s, S)
<1> DEFINE Good(m) == \A T \in SUBSET (1..m) : \E s : Lists(s, T)
           Bad == {m \in Nat : ~Good(m)}
<1>1. SUFFICES Bad = {}
  BY <1>1
<1>2. SUFFICES ASSUME Bad # {} PROVE FALSE
  OBVIOUS
<1>3. PICK m \in Bad : \A y \in Bad : m <= y
  BY <1>2, LeastExists
<1>4. PICK T \in SUBSET (1..m) : ~\E s : Lists(s, T)
  BY <1>3
<1>5. CASE m = 0
  <2>1. T = {}
    BY <1>5, <1>4
  <2>2. Lists(<<>>, {})
    BY DEF Lists, Increasing
  <2> QED
    BY <2>1, <2>2, <1>4
<1>6. CASE m # 0
  <2>1. m - 1 \in Nat /\ m - 1 \notin Bad /\ (m - 1) + 1 = m
    BY <1>3, <1>6
  <2>2. T \ {m} \in SUBSET (1..(m - 1))
    BY <1>3, <1>4
  <2>3. PICK s : Lists(s, T \ {m})
    BY <2>1, <2>2
  <2>4. Lists(Append(s, m), (T \ {m}) \cup {m})
    BY <2>1, <2>2, <2>3, ListsAppend
  <2>5. CASE m \in T
    <3>1. (T \ {m}) \cup {m} = T
      BY <2>5
    <3> QED
      BY <3>1, <2>4, <1>4
  <2>6. CASE m \notin T
    <3>1. T \ {m} = T
      BY <2>6
    <3> QED
      BY <3>1, <2>3, <1>4
  <2> QED
    BY <2>5, <2>6
<1> QED
  BY <1>5, <1>6

(* The first m of a listing are m keys.                                    *)
LEMMA PrefixSize ==
  ASSUME NEW s, NEW S, Lists(s, S), NEW m \in 0..Len(s)
  PROVE  Cardinality({s[i] : i \in 1..m}) = m
<1> DEFINE T == {s[i] : i \in 1..m}
           f == [i \in 1..m |-> s[i]]
<1>1. s \in Seq(Nat) /\ Len(s) \in Nat /\ m \in Nat /\ \A i \in 1..m : i \in 1..Len(s)
  BY DEF Lists
<1>2. \A i, j \in 1..m : f[i] = f[j] => i = j
  <2> SUFFICES ASSUME NEW i \in 1..m, NEW j \in 1..m, s[i] = s[j] PROVE i = j
    OBVIOUS
  <2>1. s[i] \in Nat /\ s[j] \in Nat
    BY <1>1
  <2>2. ~(i < j) /\ ~(j < i)
    BY <2>1, <1>1 DEF Lists, Increasing
  <2> QED
    BY <2>2
<1>3. f \in Bijection(1..m, T)
  BY <1>2 DEF Bijection, Injection, Surjection, IsInjective
<1>4. ExistsBijection(1..m, T)
  BY <1>3 DEF ExistsBijection
<1>5. IsFiniteSet(1..m) /\ Cardinality(1..m) = m
  BY <1>1, FS_Interval
<1> QED
  BY <1>4, <1>5, FS_Bijection

(* A set of keys has one listing: InOrder.                                 *)
LEMMA ListIsInOrder ==
  ASSUME NEW n \in Nat, NEW S \in SUBSET (1..n), NEW s, Lists(s, S)
  PROVE  InOrder(S) = s /\ Cardinality(S) = Len(s)
<1>1. s \in Seq(Nat) /\ Len(s) \in Nat /\ S = {s[i] : i \in 1..Len(s)}
  BY DEF Lists
<1>2. Cardinality(S) = Len(s)
  BY <1>1, PrefixSize
<1>3. ASSUME NEW i \in 1..Len(s) PROVE s[i] \in S /\ Rank(S, s[i]) = i
  <2>1. {j \in S : j <= s[i]} = {s[h] : h \in 1..i}
    <3>1. ASSUME NEW h \in 1..Len(s) PROVE s[h] <= s[i] <=> h <= i
      <4>1. s[h] \in Nat /\ s[i] \in Nat /\ h \in Nat /\ i \in Nat
        BY <1>1
      <4>2. (h < i => s[h] < s[i]) /\ (i < h => s[i] < s[h])
        BY DEF Lists, Increasing
      <4> QED
        BY <4>1, <4>2
    <3>2. 1..i = {h \in 1..Len(s) : h <= i}
      BY <1>1
    <3> QED
      BY <3>1, <3>2, <1>1
  <2>2. i \in 0..Len(s)
    BY <1>1
  <2> QED
    BY <2>1, <2>2, <1>1, PrefixSize DEF Rank
<1>4. ASSUME NEW i \in 1..Len(s) PROVE (CHOOSE k \in S : Rank(S, k) = i) = s[i]
  <2>1. \A k \in S : Rank(S, k) = i <=> k = s[i]
    <3> SUFFICES ASSUME NEW k \in S PROVE Rank(S, k) = i <=> k = s[i]
      OBVIOUS
    <3>1. PICK h \in 1..Len(s) : k = s[h]
      BY <1>1
    <3> QED
      BY <3>1, <1>3
  <2>2. s[i] \in S
    BY <1>3
  <2> QED
    BY <2>1, <2>2
<1>5. s = [i \in 1..Len(s) |-> s[i]]
  BY <1>1
<1>6. InOrder(S) = [i \in 1..Len(s) |-> s[i]]
  BY <1>2, <1>4 DEF InOrder
<1> QED
  BY <1>2, <1>5, <1>6

LEMMA InOrderLists ==
  ASSUME NEW n \in Nat, NEW S \in SUBSET (1..n)
  PROVE  Lists(InOrder(S), S)
  BY Listing, ListIsInOrder

(* What comes in order after a listing extends it.                         *)
LEMMA ListsConcat ==
  ASSUME NEW s, NEW S, Lists(s, S), NEW t, NEW T, Lists(t, T),
         \A j \in S : \A k \in T : j < k
  PROVE  Lists(s \o t, S \cup T)
<1> DEFINE u == s \o t
<1>1. /\ s \in Seq(Nat) /\ t \in Seq(Nat) /\ Len(s) \in Nat /\ Len(t) \in Nat
      /\ S = {s[i] : i \in 1..Len(s)} /\ T = {t[i] : i \in 1..Len(t)}
  <2>1. s \in Seq(Nat) /\ S = {s[i] : i \in 1..Len(s)}
    BY DEF Lists
  <2>2. t \in Seq(Nat) /\ T = {t[i] : i \in 1..Len(t)}
    BY DEF Lists
  <2> QED
    BY <2>1, <2>2
<1>2. /\ u \in Seq(Nat) /\ Len(u) = Len(s) + Len(t)
      /\ \A i \in 1..Len(s) : u[i] = s[i]
      /\ \A i \in 1..Len(u) : i > Len(s) => u[i] = t[i - Len(s)]
  BY <1>1
<1> HIDE DEF u
<1>3. \A i \in 1..Len(u) : i \in 1..Len(s) \/ (i > Len(s) /\ i - Len(s) \in 1..Len(t))
  BY <1>1, <1>2
<1>4. Increasing(u)
  <2> SUFFICES ASSUME NEW i \in 1..Len(u), NEW j \in 1..Len(u), i < j PROVE u[i] < u[j]
    BY DEF Increasing
  <2>1. CASE j \in 1..Len(s)
    <3>1. i \in 1..Len(s)
      BY <2>1, <1>1
    <3> QED
      BY <2>1, <3>1, <1>2 DEF Lists, Increasing
  <2>2. CASE i \in 1..Len(s) /\ j > Len(s)
    <3>1. u[i] = s[i] /\ s[i] \in S
      BY <2>2, <1>1, <1>2
    <3>2. j - Len(s) \in 1..Len(t) /\ u[j] = t[j - Len(s)]
      BY <2>2, <1>1, <1>2, <1>3
    <3>3. t[j - Len(s)] \in T
      BY <3>2, <1>1
    <3> QED
      BY <3>1, <3>2, <3>3
  <2>3. CASE i > Len(s) /\ j > Len(s)
    <3>1. i - Len(s) \in 1..Len(t) /\ j - Len(s) \in 1..Len(t) /\ i - Len(s) < j - Len(s)
      BY <2>3, <1>1, <1>3
    <3> QED
      BY <2>3, <3>1, <1>2 DEF Lists, Increasing
  <2> QED
    BY <2>1, <2>2, <2>3, <1>3, <1>1
<1>5. {u[i] : i \in 1..Len(u)} = S \cup T
  <2>1. \A i \in 1..Len(u) : u[i] \in S \cup T
    BY <1>1, <1>2, <1>3
  <2>2. ASSUME NEW k \in S PROVE \E i \in 1..Len(u) : u[i] = k
    <3>1. PICK i \in 1..Len(s) : s[i] = k
      BY <1>1
    <3>2. i \in 1..Len(u) /\ u[i] = k
      BY <3>1, <1>1, <1>2
    <3> QED
      BY <3>2
  <2>3. ASSUME NEW k \in T PROVE \E i \in 1..Len(u) : u[i] = k
    <3>1. PICK i \in 1..Len(t) : t[i] = k
      BY <1>1
    <3>2. i + Len(s) \in 1..Len(u) /\ i + Len(s) > Len(s) /\ (i + Len(s)) - Len(s) = i
      BY <1>1, <1>2
    <3>3. u[i + Len(s)] = k
      BY <3>1, <3>2, <1>2
    <3> QED
      BY <3>2, <3>3
  <2> QED
    BY <2>1, <2>2, <2>3
<1> QED
  BY <1>2, <1>4, <1>5 DEF Lists, u

(* The first rows of a listing list the set up to the last of them.        *)
LEMMA ListsPrefix ==
  ASSUME NEW s, NEW S, Lists(s, S), NEW m \in 1..Len(s)
  PROVE  /\ Lists(SubSeq(s, 1, m), {k \in S : k <= s[m]})
         /\ Len(SubSeq(s, 1, m)) = m /\ SubSeq(s, 1, m)[m] = s[m] /\ s[m] \in S
<1> DEFINE u == SubSeq(s, 1, m)
           U == {k \in S : k <= s[m]}
<1>1. s \in Seq(Nat) /\ Len(s) \in Nat /\ m \in Nat /\ S = {s[i] : i \in 1..Len(s)}
  BY DEF Lists
<1>2. u \in Seq(Nat) /\ Len(u) = m /\ \A i \in 1..m : u[i] = s[i] /\ i \in 1..Len(s)
  BY <1>1
<1> HIDE DEF u
<1>3. Increasing(u)
  BY <1>2 DEF Lists, Increasing
<1>4. ASSUME NEW i \in 1..Len(s) PROVE s[i] <= s[m] <=> i <= m
  <2>1. s[i] \in Nat /\ s[m] \in Nat /\ i \in Nat
    BY <1>1
  <2>2. (i < m => s[i] < s[m]) /\ (m < i => s[m] < s[i])
    BY DEF Lists, Increasing
  <2> QED
    BY <2>1, <2>2, <1>1
<1>5. 1..m = {i \in 1..Len(s) : i <= m}
  BY <1>1
<1>6. {u[i] : i \in 1..Len(u)} = U
  <2>1. \A i \in 1..Len(u) : u[i] \in U
    BY <1>1, <1>2, <1>4, <1>5
  <2>2. ASSUME NEW k \in U PROVE \E i \in 1..Len(u) : u[i] = k
    <3>1. PICK i \in 1..Len(s) : s[i] = k
      BY <1>1
    <3>2. i \in 1..m
      BY <3>1, <1>4, <1>5
    <3> QED
      BY <3>1, <3>2, <1>2
  <2> QED
    BY <2>1, <2>2
<1> QED
  BY <1>1, <1>2, <1>3, <1>6 DEF Lists, u
-----------------------------------------------------------------------------
(* The client's walk.  While the log is whole, what the client has and     *)
(* what the open call has gathered are the matching rows up to the place   *)
(* each of them has reached, and the call has room for another row.        *)
WalkType ==
    walk \in [pc : {"idle", "scan", "done"}, got : Seq(Nat), after : 0..sequence,
              limit : Nat, cursor : 0..sequence, out : Seq(Nat), began : 0..sequence]

WalkOK ==
    /\ walk.pc \in {"idle", "scan"} => walk.got = Upto(walk.after)
    /\ walk.pc = "scan" => /\ Len(walk.out) < walk.limit
                           /\ walk.got \o walk.out = Upto(walk.cursor)
    /\ walk.pc = "done" => \E n \in walk.began..sequence : walk.got = Upto(n)

WalkInv ==
    /\ sequence \in Nat /\ damage \in Nat
    /\ Keys \subseteq 1..sequence
    /\ damage = 0 => /\ Keys = 1..sequence /\ \A k \in Keys : log[k].seq = k
                     /\ WalkType /\ WalkOK

LEMMA KeptLists ==
  ASSUME NEW n \in Nat, NEW S \in SUBSET (1..n)
  PROVE  Lists(Kept(S), {k \in S : Match(k)})
<1>1. {k \in S : Match(k)} \in SUBSET (1..n)
  OBVIOUS
<1> QED
  BY <1>1, InOrderLists DEF Kept

LEMMA UptoExtends ==
  ASSUME NEW a \in Nat, NEW b \in Nat, a <= b
  PROVE  Upto(a) \o Kept((a + 1)..b) = Upto(b)
<1> DEFINE A == {k \in 1..a : Match(k)}
           B == {k \in (a + 1)..b : Match(k)}
           C == {k \in 1..b : Match(k)}
<1>1. 1..a \in SUBSET (1..b) /\ (a + 1)..b \in SUBSET (1..b) /\ C \in SUBSET (1..b)
  OBVIOUS
<1>2. Lists(Upto(a), A) /\ Lists(Kept((a + 1)..b), B)
  BY <1>1, KeptLists DEF Upto
<1>3. \A j \in A : \A k \in B : j < k
  OBVIOUS
<1>4. A \cup B = C
  <2>1. \A k \in C : k \in 1..a \/ k \in (a + 1)..b
    OBVIOUS
  <2> QED
    BY <2>1, <1>1
<1>5. Lists(Upto(a) \o Kept((a + 1)..b), C)
  BY <1>2, <1>3, <1>4, ListsConcat
<1> QED
  BY <1>1, <1>5, ListIsInOrder DEF Upto, Kept

LEMMA KeptPrefix ==
  ASSUME NEW c \in Nat, NEW e \in Nat, NEW r \in 1..Len(Kept((c + 1)..e))
  PROVE  /\ Kept((c + 1)..e)[r] \in (c + 1)..e
         /\ SubSeq(Kept((c + 1)..e), 1, r) = Kept((c + 1)..(Kept((c + 1)..e)[r]))
<1> DEFINE s == Kept((c + 1)..e)
           S == {k \in (c + 1)..e : Match(k)}
           h == s[r]
           H == {k \in (c + 1)..h : Match(k)}
<1>1. (c + 1)..e \in SUBSET (1..e)
  OBVIOUS
<1>2. Lists(s, S)
  BY <1>1, KeptLists
<1>3. r \in 1..Len(s)
  OBVIOUS
<1> HIDE DEF s
<1>4. h \in S /\ Lists(SubSeq(s, 1, r), {k \in S : k <= h})
  BY <1>2, <1>3, ListsPrefix
<1>5. h \in (c + 1)..e
  BY <1>4
<1>6. {k \in S : k <= h} = H /\ H \in SUBSET (1..e)
  BY <1>5, <1>1
<1>7. SubSeq(s, 1, r) = InOrder(H)
  BY <1>4, <1>6, ListIsInOrder
<1> QED
  BY <1>5, <1>7 DEF Kept, s

(* A batch over a whole log: the keys after the cursor, all that are left  *)
(* unless it is full.                                                      *)
LEMMA PageIs ==
  ASSUME sequence \in Nat, Keys = 1..sequence, NEW c \in 0..sequence
  PROVE  /\ Len(Page(c)) \in Nat
         /\ Len(Page(c)) < Batch => Range(Page(c)) = (c + 1)..sequence
         /\ ~(Len(Page(c)) < Batch) =>
               /\ Page(c)[Len(Page(c))] \in (c + 1)..sequence
               /\ Range(Page(c)) = (c + 1)..Page(c)[Len(Page(c))]
<1> DEFINE ks == InOrder({k \in Keys : k > c})
           K == (c + 1)..sequence
           m == IF Len(ks) < Batch THEN Len(ks) ELSE Batch
<1>1. {k \in Keys : k > c} = K /\ K \in SUBSET (1..sequence)
  OBVIOUS
<1>2. Lists(ks, K)
  BY <1>1, InOrderLists
<1>3. ks \in Seq(Nat) /\ Len(ks) \in Nat /\ {ks[i] : i \in 1..Len(ks)} = K
  BY <1>2 DEF Lists
<1>4. Page(c) = SubSeq(ks, 1, m)
  BY DEF Page
<1>5. Batch \in Nat \ {0}
  BY ListAssumption
<1> HIDE DEF ks
<1>6. CASE Len(ks) < Batch
  <2>1. SubSeq(ks, 1, Len(ks)) = ks
    BY <1>3
  <2>2. Page(c) = ks /\ DOMAIN ks = 1..Len(ks)
    BY <1>3, <1>4, <1>6, <2>1
  <2> QED
    BY <2>2, <1>3, <1>6 DEF Range
<1>7. CASE ~(Len(ks) < Batch)
  <2>1. Batch \in 1..Len(ks) /\ Page(c) = SubSeq(ks, 1, Batch)
    BY <1>3, <1>4, <1>5, <1>7
  <2>2. /\ Lists(Page(c), {k \in K : k <= ks[Batch]})
        /\ Len(Page(c)) = Batch /\ Page(c)[Batch] = ks[Batch] /\ ks[Batch] \in K
    <3> HIDE DEF K
    <3>1. /\ Lists(SubSeq(ks, 1, Batch), {k \in K : k <= ks[Batch]})
          /\ Len(SubSeq(ks, 1, Batch)) = Batch
          /\ SubSeq(ks, 1, Batch)[Batch] = ks[Batch] /\ ks[Batch] \in K
      BY <2>1, <1>2, ListsPrefix
    <3> QED
      BY <2>1, <3>1
  <2>3. {k \in K : k <= ks[Batch]} = (c + 1)..ks[Batch]
    BY <2>2
  <2>4. Page(c) \in Seq(Nat) /\ DOMAIN Page(c) = 1..Len(Page(c))
    BY <2>2 DEF Lists
  <2>5. Range(Page(c)) = (c + 1)..ks[Batch]
    BY <2>2, <2>3, <2>4 DEF Lists, Range
  <2> QED
    BY <2>2, <2>5, <1>5
<1> QED
  BY <1>6, <1>7

LEMMA UptoStays ==
  ASSUME NEW n \in Nat, \A k \in 1..n : log'[k] = log[k]
  PROVE  Upto(n)' = Upto(n)
<1>1. {k \in 1..n : log'[k].what \in Wanted} = {k \in 1..n : log[k].what \in Wanted}
  OBVIOUS
<1> QED
  BY <1>1 DEF Upto, Kept, Match

(* Rows that are appended do not change what lies behind.                  *)
LEMMA WalkStays ==
  ASSUME sequence \in Nat, WalkType, WalkOK, sequence' \in Nat, sequence <= sequence',
         \A k \in 1..sequence : log'[k] = log[k], walk' = walk
  PROVE  WalkType' /\ WalkOK'
<1>1. ASSUME NEW n \in 0..sequence PROVE Upto(n)' = Upto(n)
  <2>1. n \in Nat /\ \A k \in 1..n : k \in 1..sequence
    OBVIOUS
  <2> QED
    BY <2>1, UptoStays
<1>2. walk.after \in 0..sequence /\ walk.cursor \in 0..sequence /\ walk.began \in 0..sequence
  BY DEF WalkType
<1>3. WalkType'
  BY DEF WalkType
<1>4. Upto(walk.after)' = Upto(walk.after) /\ Upto(walk.cursor)' = Upto(walk.cursor)
  <2>1. ASSUME NEW n \in 0..sequence, n = walk.after PROVE Upto(walk.after)' = Upto(walk.after)
    BY <2>1, <1>1 DEF Upto
  <2>2. ASSUME NEW n \in 0..sequence, n = walk.cursor
        PROVE  Upto(walk.cursor)' = Upto(walk.cursor)
    BY <2>2, <1>1 DEF Upto
  <2> QED
    BY <2>1, <2>2, <1>2
<1>5. ASSUME NEW n \in walk.began..sequence, walk.got = Upto(n)
      PROVE  \E j \in walk'.began..sequence' : walk'.got = Upto(j)'
  <2>1. n \in 0..sequence /\ n \in walk'.began..sequence'
    BY <1>2, <1>5
  <2> QED
    BY <2>1, <1>1, <1>5
<1>6. WalkOK'
  BY <1>4, <1>5 DEF WalkOK
<1> QED
  BY <1>3, <1>6

LEMMA LogWalk ==
  ASSUME WalkInv, Next, UNCHANGED walk
  PROVE  WalkInv'
<1>1. ASSUME UNCHANGED <<log, sequence, damage>> PROVE WalkInv'
  <2>1. /\ sequence' = sequence /\ damage' = damage /\ Keys' = Keys
        /\ \A k \in 1..sequence : log'[k] = log[k]
    BY <1>1 DEF Keys
  <2>2. damage = 0 => WalkType' /\ WalkOK'
    BY <2>1, WalkStays DEF WalkInv
  <2> QED
    BY <2>1, <2>2 DEF WalkInv
<1>2. ASSUME NEW t \in Transitions, AppendEntry(t) PROVE WalkInv'
  <2>1. /\ sequence \in Nat /\ sequence' = sequence + 1 /\ damage' = damage
        /\ 1..(sequence + 1) = (1..sequence) \cup {sequence + 1}
        /\ sequence + 1 \notin 1..sequence
    BY <1>2 DEF AppendEntry, WalkInv
  <2>2. /\ Keys' = Keys \cup {sequence + 1}
        /\ \A k \in Keys : k # sequence + 1 => log'[k] = log[k]
    BY <1>2 DEF AppendEntry, Put, Keys
  <2>3. damage = 0 => \A k \in 1..sequence : log'[k] = log[k]
    BY <2>1, <2>2 DEF WalkInv
  <2>4. damage = 0 => WalkType' /\ WalkOK'
    BY <2>1, <2>3, WalkStays DEF WalkInv
  <2>5. log'[sequence + 1].seq = sequence + 1
    BY <1>2, <2>2 DEF AppendEntry, Put, Entry, Keys
  <2>6. damage = 0 => \A k \in Keys' : log'[k].seq = k
    BY <2>1, <2>2, <2>3, <2>5 DEF WalkInv
  <2> QED
    BY <2>1, <2>2, <2>4, <2>6 DEF WalkInv
<1>3. ASSUME NEW k \in Keys, Lose(k) \/ \E e \in Altered(k) \cup Forged(k) : Alter(k, e)
      PROVE  WalkInv'
  <2>1. sequence' = sequence /\ damage' = damage + 1 /\ Keys' \subseteq Keys
    BY <1>3 DEF Lose, Alter, Keys
  <2>2. damage' \in Nat /\ damage' # 0
    BY <2>1 DEF WalkInv
  <2> QED
    BY <2>1, <2>2 DEF WalkInv
<1>4. ASSUME NEW t \in Transitions, Commit(t) \/ AppendFails(t) PROVE UNCHANGED <<log, sequence, damage>>
  BY <1>4 DEF Commit, AppendFails
<1>5. ASSUME Crash PROVE UNCHANGED <<log, sequence, damage>>
  BY <1>5 DEF Crash
<1> QED
  BY <1>1, <1>2, <1>3, <1>4, <1>5 DEF Next

(* The steps of the client leave the log, and with it what is wanted.      *)
LEMMA ClientStep ==
  ASSUME WalkInv, UNCHANGED auditVars, damage = 0 => WalkType' /\ WalkOK'
  PROVE  WalkInv'
<1>1. sequence' = sequence /\ damage' = damage /\ Keys' = Keys /\ log' = log
  BY DEF auditVars, Keys
<1> QED
  BY <1>1 DEF WalkInv

LEMMA SameLog ==
  ASSUME UNCHANGED auditVars
  PROVE  sequence' = sequence /\ \A n : Upto(n)' = Upto(n)
<1>1. sequence' = sequence /\ log' = log
  BY DEF auditVars
<1> QED
  BY <1>1 DEF Upto, Kept, Match

LEMMA CallWalk ==
  ASSUME WalkInv, NEW limit \in Limits, Call(limit)
  PROVE  WalkInv'
<1>1. ASSUME damage = 0 PROVE WalkType' /\ WalkOK'
  <2>1. limit \in Nat /\ 0 < limit
    BY ListAssumption
  <2>2. sequence' = sequence /\ \A n : Upto(n)' = Upto(n)
    BY SameLog DEF Call
  <2>3. /\ sequence \in Nat /\ WalkType /\ walk.pc = "idle" /\ walk.got = Upto(walk.after)
    BY <1>1 DEF WalkInv, WalkOK, Call
  <2>4. walk' = [walk EXCEPT !.pc = "scan", !.limit = limit, !.cursor = walk.after,
                             !.out = <<>>,
                             !.began = IF walk.after = 0 THEN sequence ELSE @]
    BY DEF Call
  <2>5. WalkType'
    <3>1. sequence \in 0..sequence /\ <<>> \in Seq(Nat)
      BY <2>3
    <3>2. (IF walk.after = 0 THEN sequence ELSE walk.began) \in 0..sequence
      BY <2>3, <3>1 DEF WalkType
    <3> QED
      BY <2>1, <2>2, <2>3, <2>4, <3>1, <3>2, Zenon DEF WalkType
  <2>6. /\ walk'.pc = "scan" /\ walk'.got = walk.got /\ walk'.after = walk.after
        /\ walk'.cursor = walk.after /\ walk'.out = <<>> /\ walk'.limit = limit
    BY <2>3, <2>4 DEF WalkType
  <2>7. walk.got \o <<>> = walk.got
    BY <2>3 DEF WalkType
  <2>8. Upto(walk.after)' = Upto(walk.after) /\ Upto(walk.cursor)' = Upto(walk.after)
    BY <2>2, <2>6 DEF Upto
  <2> QED
    BY <2>1, <2>3, <2>5, <2>6, <2>7, <2>8 DEF WalkOK
<1> QED
  BY <1>1, ClientStep DEF Call

LEMMA FailWalk ==
  ASSUME WalkInv, CallFails
  PROVE  WalkInv'
<1>1. ASSUME damage = 0 PROVE WalkType' /\ WalkOK'
  <2>1. sequence' = sequence /\ \A n : Upto(n)' = Upto(n)
    BY SameLog DEF CallFails
  <2>2. /\ sequence \in Nat /\ WalkType /\ walk.got = Upto(walk.after)
        /\ walk' = [walk EXCEPT !.pc = "idle", !.out = <<>>]
    BY <1>1 DEF WalkInv, WalkOK, CallFails
  <2>3. WalkType'
    <3>1. <<>> \in Seq(Nat)
      OBVIOUS
    <3> QED
      BY <2>1, <2>2, <3>1 DEF WalkType
  <2>4. walk'.pc = "idle" /\ walk'.got = walk.got /\ walk'.after = walk.after
    BY <2>2 DEF WalkType
  <2>5. Upto(walk.after)' = Upto(walk.after)
    BY <2>1, <2>4 DEF Upto
  <2> QED
    BY <2>2, <2>3, <2>4, <2>5 DEF WalkOK
<1> QED
  BY <1>1, ClientStep DEF CallFails

LEMMA Concat ==
  \A a, b, c \in Seq(Nat) : a \o b \in Seq(Nat) /\ a \o (b \o c) = (a \o b) \o c
<1> SUFFICES ASSUME NEW a \in Seq(Nat), NEW b \in Seq(Nat), NEW c \in Seq(Nat)
             PROVE  a \o b \in Seq(Nat) /\ a \o (b \o c) = (a \o b) \o c
  OBVIOUS
<1>1. a \o b \in Seq(Nat)
  OBVIOUS
<1>2. (a \o b) \o c = a \o (b \o c)
  BY ConcatAssociative
<1> QED
  BY <1>1, <1>2, Zenon

(* An answer moves the client to the place the call has reached.           *)
LEMMA AnswerWalk ==
  ASSUME sequence \in Nat, WalkType, UNCHANGED auditVars, NEW o \in Seq(Nat),
         NEW n \in 0..sequence, walk.got \o o = Upto(n),
         NEW next \in {0, n}, next = 0 => walk.began <= n,
         Answer(o, next)
  PROVE  WalkType' /\ WalkOK'
<1>1. sequence' = sequence /\ \A j : Upto(j)' = Upto(j)
  BY SameLog
<1>2. /\ next \in 0..sequence /\ <<>> \in Seq(Nat) /\ walk.got \o o \in Seq(Nat)
      /\ walk.began \in 0..sequence
  <2>1. walk.got \in Seq(Nat) /\ walk.began \in 0..sequence
    BY DEF WalkType
  <2>2. walk.got \o o \in Seq(Nat)
    BY <2>1, Concat, Zenon
  <2> QED
    BY <2>1, <2>2
<1>3. walk' = [walk EXCEPT !.pc = IF next = 0 THEN "done" ELSE "idle",
                           !.got = walk.got \o o, !.out = <<>>, !.after = next]
  BY DEF Answer
<1>4. WalkType'
  BY <1>1, <1>2, <1>3, Zenon DEF WalkType
<1>5. /\ walk'.pc = IF next = 0 THEN "done" ELSE "idle"
      /\ walk'.got = Upto(n) /\ walk'.after = next /\ walk'.began = walk.began
  BY <1>3 DEF WalkType
<1>6. CASE next = 0
  <2>1. n \in walk'.began..sequence' /\ walk'.got = Upto(n)'
    BY <1>1, <1>2, <1>5, <1>6
  <2> QED
    BY <1>4, <1>5, <1>6, <2>1 DEF WalkOK
<1>7. CASE next # 0
  <2>1. next = n /\ walk'.pc = "idle"
    BY <1>5, <1>7
  <2>2. Upto(walk.after)' = Upto(n)
    BY <2>1, <1>1, <1>5 DEF Upto
  <2> QED
    BY <1>4, <1>5, <2>1, <2>2 DEF WalkOK
<1> QED
  BY <1>6, <1>7

LEMMA ScanWalk ==
  ASSUME WalkInv, Scan
  PROVE  WalkInv'
<1>1. UNCHANGED auditVars
  BY DEF Scan
<1>2. SUFFICES ASSUME damage = 0 PROVE WalkType' /\ WalkOK'
  BY <1>1, ClientStep
<1> DEFINE c == walk.cursor
           page == Page(c)
           hits == Kept(Range(page))
           room == walk.limit - Len(walk.out)
<1>3. /\ sequence \in Nat /\ Keys = 1..sequence /\ WalkType /\ WalkOK /\ walk.pc = "scan"
      /\ walk.got = Upto(walk.after) /\ walk.got \o walk.out = Upto(c)
      /\ Len(walk.out) < walk.limit
  BY <1>2 DEF WalkInv, WalkOK, Scan
<1>4. /\ c \in 0..sequence /\ c \in Nat /\ walk.got \in Seq(Nat) /\ walk.out \in Seq(Nat)
      /\ walk.limit \in Nat /\ Len(walk.out) \in Nat /\ walk.began \in 0..sequence
  BY <1>3 DEF WalkType
<1>5. room \in Nat /\ room > 0
  BY <1>3, <1>4
<1>6. IF Len(hits) >= room
      THEN Answer(walk.out \o SubSeq(hits, 1, room), log[hits[room]].seq)
      ELSE IF Len(page) < Batch THEN Answer(walk.out \o hits, 0)
      ELSE walk' = [walk EXCEPT !.out = @ \o hits, !.cursor = log[page[Len(page)]].seq]
  BY DEF Scan
<1>7. PICK e \in c..sequence :
         /\ Range(page) = (c + 1)..e
         /\ IF Len(page) < Batch THEN e = sequence ELSE page[Len(page)] = e /\ e # c
  <2>1. Len(page) \in Nat /\ Batch \in Nat
    BY <1>3, <1>4, PageIs, ListAssumption
  <2>2. CASE Len(page) < Batch
    <3>1. Range(page) = (c + 1)..sequence /\ sequence \in c..sequence
      BY <1>3, <1>4, <2>2, PageIs
    <3> QED
      BY <3>1, <2>2
  <2>3. CASE ~(Len(page) < Batch)
    <3>1. page[Len(page)] \in (c + 1)..sequence /\ Range(page) = (c + 1)..page[Len(page)]
      BY <1>3, <1>4, <2>3, PageIs
    <3>2. page[Len(page)] \in c..sequence /\ page[Len(page)] # c
      BY <3>1, <1>4
    <3> QED
      BY <3>1, <3>2, <2>3
  <2> QED
    BY <2>2, <2>3
<1> HIDE DEF page
<1>8. /\ e \in Nat /\ e \in 0..sequence /\ c <= e /\ hits = Kept((c + 1)..e)
  BY <1>3, <1>4, <1>7
<1>9. hits \in Seq(Nat) /\ Len(hits) \in Nat
  <2>1. (c + 1)..e \in SUBSET (1..e)
    BY <1>4, <1>8
  <2>2. Lists(Kept((c + 1)..e), {k \in (c + 1)..e : Match(k)})
    BY <2>1, <1>8, KeptLists
  <2> QED
    BY <2>2, <1>8 DEF Lists
<1> HIDE DEF hits, room, c
<1>10. CASE Len(hits) >= room
  <2> DEFINE h == hits[room]
             sub == SubSeq(hits, 1, room)
  <2>1. room \in 1..Len(hits)
    BY <1>5, <1>9, <1>10
  <2>2. h \in (c + 1)..e /\ sub = Kept((c + 1)..h)
    BY <2>1, <1>4, <1>8, KeptPrefix
  <2>3. sub \in Seq(Nat)
    BY <2>1, <1>9
  <2>4. h \in Nat /\ c <= h /\ h \in 0..sequence /\ h # 0
    BY <2>2, <1>3, <1>4, <1>8
  <2>5. walk.out \o sub \in Seq(Nat) /\ walk.got \o (walk.out \o sub) = Upto(c) \o sub
    <3>1. walk.got \o (walk.out \o sub) = (walk.got \o walk.out) \o sub
      BY <2>3, <1>4, Concat, Zenon
    <3>2. walk.out \o sub \in Seq(Nat)
      BY <2>3, <1>4
    <3> QED
      BY <3>1, <3>2, <1>3 DEF c
  <2>6. Upto(c) \o sub = Upto(h)
    BY <2>2, <2>4, <1>4, UptoExtends
  <2>7. Answer(walk.out \o sub, h)
    <3>1. log[h].seq = h
      BY <2>2, <1>2, <1>3, <1>4, <1>8 DEF WalkInv
    <3> QED
      BY <3>1, <1>6, <1>10
  <2> HIDE DEF h, sub
  <2> QED
    BY <2>4, <2>5, <2>6, <2>7, <1>1, <1>3, AnswerWalk
<1>11. ASSUME ~(Len(hits) >= room)
       PROVE  /\ walk.out \o hits \in Seq(Nat) /\ Len(walk.out \o hits) < walk.limit
              /\ walk.got \o (walk.out \o hits) = Upto(e)
  <2>1. walk.out \o hits \in Seq(Nat) /\ Len(walk.out \o hits) = Len(walk.out) + Len(hits)
    BY <1>4, <1>9
  <2>2. Len(walk.out) + Len(hits) < walk.limit
    BY <1>4, <1>9, <1>11 DEF room
  <2>3. walk.got \o (walk.out \o hits) = (walk.got \o walk.out) \o hits
    BY <1>4, <1>9, Concat, Zenon
  <2>4. Upto(c) \o hits = Upto(e)
    BY <1>4, <1>8, UptoExtends
  <2> QED
    BY <2>1, <2>2, <2>3, <2>4, <1>3 DEF c
<1>12. CASE ~(Len(hits) >= room) /\ Len(page) < Batch
  <2>1. e = sequence /\ walk.began <= e /\ Answer(walk.out \o hits, 0)
    BY <1>4, <1>6, <1>7, <1>12
  <2> QED
    BY <2>1, <1>1, <1>3, <1>8, <1>11, <1>12, AnswerWalk
<1>13. CASE ~(Len(hits) >= room) /\ ~(Len(page) < Batch)
  <2>1. walk' = [walk EXCEPT !.out = walk.out \o hits, !.cursor = e]
    <3>1. page[Len(page)] = e /\ e \in Keys
      BY <1>3, <1>7, <1>8, <1>4, <1>13
    <3>2. log[e].seq = e
      BY <3>1, <1>2 DEF WalkInv
    <3> QED
      BY <3>1, <3>2, <1>6, <1>13
  <2>2. sequence' = sequence /\ \A n : Upto(n)' = Upto(n)
    BY <1>1, SameLog
  <2>3. WalkType'
    BY <2>1, <2>2, <1>3, <1>8, <1>11, <1>13, Zenon DEF WalkType
  <2>4. /\ walk'.pc = "scan" /\ walk'.got = walk.got /\ walk'.after = walk.after
        /\ walk'.limit = walk.limit /\ walk'.out = walk.out \o hits /\ walk'.cursor = e
    BY <2>1, <1>3 DEF WalkType
  <2>5. Upto(walk.after)' = Upto(walk.after) /\ Upto(walk.cursor)' = Upto(e)
    BY <2>2, <2>4 DEF Upto
  <2> QED
    BY <2>3, <2>4, <2>5, <1>3, <1>11, <1>13 DEF WalkOK
<1> QED
  BY <1>10, <1>12, <1>13

LEMMA InitWalk == ListInit => WalkInv
<1> SUFFICES ASSUME ListInit PROVE WalkInv
  OBVIOUS
<1>1. sequence = 0 /\ damage = 0 /\ Keys = {} /\ walk = NewWalk
  BY DEF ListInit, Init, Keys
<1>2. WalkType
  <2>1. <<>> \in Seq(Nat) /\ 0 \in 0..0
    OBVIOUS
  <2> QED
    BY <1>1, <2>1 DEF WalkType, NewWalk
<1>3. Upto(0) = <<>>
  <2>1. Lists(<<>>, {}) /\ {k \in 1..0 : Match(k)} = {} /\ {} \in SUBSET (1..0)
    BY DEF Lists, Increasing
  <2> QED
    BY <2>1, ListIsInOrder DEF Upto, Kept
<1>4. WalkOK
  BY <1>1, <1>3 DEF WalkOK, NewWalk
<1> QED
  BY <1>1, <1>2, <1>4 DEF WalkInv

LEMMA StepWalk == WalkInv /\ [ListNext]_vars => WalkInv'
<1> SUFFICES ASSUME WalkInv, [ListNext]_vars PROVE WalkInv'
  OBVIOUS
<1>1. ASSUME UNCHANGED vars PROVE WalkInv'
  <2>1. UNCHANGED auditVars /\ walk' = walk
    BY <1>1 DEF vars
  <2>2. damage = 0 => WalkType' /\ WalkOK'
    BY <2>1, WalkStays DEF WalkInv, auditVars
  <2> QED
    BY <2>1, <2>2, ClientStep
<1> QED
  BY <1>1, LogWalk, CallWalk, ScanWalk, FailWalk DEF ListNext

(* Paging is exact: over an undamaged log of any length, with any filter,  *)
(* batch and limits, and with rows appended between the batches, a client  *)
(* has every matching row up to its position once and in order, and after  *)
(* its last call all those that were there when it began (AuditList,       *)
(* Page).                                                                  *)
THEOREM PagesTheorem == ListSpec => []PagesExact
<1>1. WalkInv => PagesExact
  BY DEF WalkInv, WalkOK, PagesExact
<1> QED
  BY <1>1, InitWalk, StepWalk, PTL DEF ListSpec
=============================================================================
