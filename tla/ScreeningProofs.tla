-------------------------- MODULE ScreeningProofs --------------------------
(***************************************************************************)
(* What Screening checks on small windows, for every window, overlap, cap  *)
(* and message: a message handed to the agent was read whole, and no flag  *)
(* was lost on the way.                                                    *)
(***************************************************************************)
EXTENDS Screening, SequenceTheorems, TLAPS

(* Flags reported so far are collected or about to be.                     *)
FlagInv ==
    /\ flagged = found \cup Flag(best, src)
    /\ pc \notin {"cut", "classify", "done"} => best = {}
    /\ pc # "done" => outcome = "none"
    /\ FlagsCount

LEMMA FlagUnion ==
  ASSUME NEW A, NEW B, NEW s
  PROVE  Flag(A \cup B, s) = Flag(A, s) \cup Flag(B, s)
  BY DEF Flag

LEMMA FlagEmpty == \A s : Flag({}, s) = {}
  BY DEF Flag

LEMMA StepFlags == FlagInv /\ [Next]_vars => FlagInv'
<1> SUFFICES ASSUME FlagInv, [Next]_vars PROVE FlagInv'
  OBVIOUS
<1> USE DEF FlagInv, FlagsCount, mailVars, walkVars, readVars
<1>1. CASE Cheap
  BY <1>1 DEF Cheap, Finish, NotCleared
<1>2. CASE Walk
  BY <1>2 DEF Walk
<1>3. CASE Extracted
  BY <1>3 DEF Extracted, Finish, NotCleared
<1>4. CASE Patterns
  <2>1. PICK fs : found' = found \cup fs /\ flagged' = flagged \cup fs
    BY <1>4 DEF Patterns, Detected
  <2>2. flagged' = found' \cup Flag(best, src)
    BY <2>1
  <2>3. UNCHANGED <<best, src, outcome>> /\ pc' # "done" /\ pc = "assess"
    BY <1>4 DEF Patterns, Detected
  <2>4. pc' = "compose" => best = {}
    BY <1>4 DEF Patterns, Detected
  <2> QED
    BY <2>2, <2>3, <2>4
<1>5. CASE DeadlineEnds
  BY <1>5 DEF DeadlineEnds, Finish, NotCleared
<1>6. CASE Cut
  BY <1>6 DEF Cut
<1>7. CASE CutDone
  BY <1>7 DEF CutDone, Finish, NotCleared
<1>8. CASE OutOfCalls \/ ClassifyFails
  BY <1>8 DEF OutOfCalls, ClassifyFails, AnswerArrives, Finish, NotCleared
<1>9. CASE Answered
  <2>1. PICK ls : best' = best \cup ls /\ flagged' = flagged \cup Flag(ls, src)
    BY <1>9 DEF Answered, Merge
  <2>2. flagged' = found \cup Flag(best \cup ls, src)
    BY <2>1, FlagUnion
  <2> QED
    BY <1>9, <2>1, <2>2 DEF Answered, AnswerArrives
<1>10. CASE Truncated
  BY <1>10 DEF Truncated, AnswerArrives
<1>11. CASE SourceDone
  <2>1. flagged' = found' /\ best' = {} /\ outcome' = outcome /\ pc = "classify"
    BY <1>11 DEF SourceDone
  <2>2. flagged' = found' \cup Flag(best', src')
    BY <2>1, FlagEmpty
  <2> QED
    BY <1>11, <2>1, <2>2 DEF SourceDone
<1>12. CASE Composed
  <2>1. flagged = found
    BY <1>12, FlagEmpty DEF Composed
  <2>2. outcome' = "handled" => ~(Compose(mail, found) >= Threshold)
    BY <1>12 DEF Composed, Finish, Holds
  <2>3. UNCHANGED <<mail, found, flagged, best, src>> /\ pc' = "done"
    BY <1>12 DEF Composed, Finish
  <2>4. outcome' = "handled" => ~(Compose(mail, flagged) >= Threshold)'
    BY <2>1, <2>2, <2>3
  <2> QED
    BY <2>3, <2>4
<1>13. CASE Ask
  BY <1>13 DEF Ask
<1>14. CASE UNCHANGED vars
  BY <1>14 DEF vars
<1> QED
  BY <1>1, <1>2, <1>3, <1>4, <1>5, <1>6, <1>7, <1>8, <1>9, <1>10, <1>11, <1>12, <1>13, <1>14
     DEF Next

(* Nothing any detector or any whole answer flagged is missing from the    *)
(* score of a message that is handed to the agent.                         *)
THEOREM FlagsTheorem == Spec => []FlagsCount
<1>1. Init => FlagInv
  BY FlagEmpty DEF Init, FlagInv, FlagsCount
<1>2. FlagInv => FlagsCount
  BY DEF FlagInv
<1> QED
  BY <1>1, <1>2, StepFlags, PTL DEF Spec

-----------------------------------------------------------------------------
(* Types.                                                                  *)
LEMMA Constants ==
  /\ MaxPartText \in Nat /\ MaxTotalText \in Nat /\ MaxParts \in Nat /\ MaxDepth \in Nat
  /\ Window \in Nat /\ Overlap \in Nat /\ MinSplit \in Nat /\ MinSplit > 0
  /\ 2 * Overlap <= Window /\ Window > 0 /\ Overlap > 0
  /\ Mails \subseteq Mail
  BY ScreeningAssumption

LEMMA PartTyped ==
  ASSUME mail \in Mails
  PROVE  /\ mail.parts \in Seq(Part) /\ Len(mail.parts) \in Nat
         /\ \A i \in 1..Len(mail.parts) : mail.parts[i] \in Part
         /\ \A p \in Part : p.len \in Nat /\ p.key \in Keys /\ p.kind \in Kinds
<1>1. mail \in Mail
  BY Constants
<1>2. mail.parts \in Seq(Part)
  BY <1>1 DEF Mail
<1>3. \A p \in Part : p.len \in Nat /\ p.key \in Keys /\ p.kind \in Kinds
  BY DEF Part
<1> QED
  BY <1>2, <1>3

(* Halves of a window are windows of the same text, and every phrase of at *)
(* most Reach runes in it lies whole in one of them.                       *)
LEMMA HalvesCover ==
  ASSUME NEW j \in Jobs, j.end - j.start >= 2 * MinSplit
  PROVE  /\ Halves(j) \in Seq(Jobs)
         /\ \A a, b \in Nat :
               (a < b /\ b - a <= Reach /\ j.start <= a /\ b <= j.end) =>
                  \E i \in 1..Len(Halves(j)) :
                     /\ Halves(j)[i].text = j.text
                     /\ Halves(j)[i].start <= a /\ b <= Halves(j)[i].end
<1> DEFINE n == j.end - j.start
           h == (n + 1) \div 2
           o == Overlap \div 2
           size == h + o
           one == [j EXCEPT !.end = j.start + size]
           two == [j EXCEPT !.start = j.start + h]
<1>1. j.start \in Nat /\ j.end \in Nat /\ j.text \in Texts
  BY DEF Jobs
<1>2. n \in Nat
  BY <1>1, Constants
<1>3. h \in Nat /\ o \in Nat /\ size \in Nat
  BY <1>2, Constants
<1>4. CASE n <= size
  <2>1. Halves(j) = <<j>>
    BY <1>4 DEF Halves
  <2> QED
    BY <2>1, <1>1
<1>5. CASE ~(n <= size)
  <2>1. Halves(j) = <<one, two>>
    BY <1>5 DEF Halves
  <2>2. one \in Jobs /\ two \in Jobs
    BY <1>1, <1>3 DEF Jobs
  <2>3. /\ one.text = j.text /\ one.start = j.start /\ one.end = j.start + size
        /\ two.text = j.text /\ two.start = j.start + h /\ two.end = j.end
    BY DEF Jobs
  <2>4. ASSUME NEW a \in Nat, NEW b \in Nat, a < b, b - a <= Reach, j.start <= a, b <= j.end
        PROVE  \/ one.start <= a /\ b <= one.end
               \/ two.start <= a /\ b <= two.end
    <3>1. b - a <= o + 1
      BY <2>4 DEF Reach
    <3> HIDE DEF h, o, one, two
    <3>2. b <= j.start + (h + o) \/ j.start + h <= a
      BY <3>1, <1>1, <1>3, <2>4
    <3> QED
      BY <3>2, <2>3, <2>4
  <2> HIDE DEF one, two
  <2>5. Len(Halves(j)) = 2 /\ Halves(j)[1] = one /\ Halves(j)[2] = two
        /\ Halves(j) \in Seq(Jobs)
    BY <2>1, <2>2
  <2> QED
    BY <2>3, <2>4, <2>5
<1> QED
  BY <1>4, <1>5

(* A kept text stays at its place; a new one that is not empty is there.   *)
LEMMA KeepFacts ==
  ASSUME NEW ts \in Seq(Texts), NEW t \in Texts
  PROVE  /\ Keep(ts, t) \in Seq(Texts)
         /\ \A i \in 1..Len(ts) : i \in 1..Len(Keep(ts, t)) /\ Keep(ts, t)[i] = ts[i]
         /\ t.len # 0 => \E i \in 1..Len(Keep(ts, t)) : Keep(ts, t)[i] = t
<1>1. CASE t.len = 0 \/ \E i \in DOMAIN ts : ts[i] = t
  BY <1>1 DEF Keep
<1>2. CASE ~(t.len = 0 \/ \E i \in DOMAIN ts : ts[i] = t)
  <2>1. Keep(ts, t) = Append(ts, t)
    BY <1>2 DEF Keep
  <2>2. /\ Append(ts, t) \in Seq(Texts) /\ Len(Append(ts, t)) = Len(ts) + 1
        /\ \A i \in 1..Len(ts) : Append(ts, t)[i] = ts[i]
        /\ Append(ts, t)[Len(ts) + 1] = t
    BY AppendProperties
  <2> QED
    BY <2>1, <2>2
<1> QED
  BY <1>1, <1>2

LEMMA BudgetTyped ==
  ASSUME NEW n \in Nat, total \in 0..MaxTotalText
  PROVE  Budget(n) \in 0..n /\ total + Budget(n) \in 0..MaxTotalText
  BY Constants DEF Budget

LEMMA FlagTyped == \A ls \in SUBSET Labels, s \in Sources : Flag(ls, s) \subseteq Factors
  BY ScreeningAssumption DEF Flag

LEMMA WalkTyped ==
  ASSUME TypeOK, Walk PROVE TypeOK'
<1> DEFINE p == mail.parts[next]
<1>1. next \in 1..Len(mail.parts) /\ p \in Part /\ Len(mail.parts) \in Nat
  BY PartTyped DEF TypeOK, Walk
<1>2. p.len \in Nat /\ p.key \in Keys
  BY <1>1, PartTyped DEF TypeOK
<1>3. ReadLen(p) \in Nat
  BY <1>2, Constants DEF ReadLen
<1>4. walked' \in Nat
  BY DEF Walk, Visit, TypeOK
<1>5. truncated' \in BOOLEAN /\ undecodable' \in BOOLEAN
  BY DEF Walk, Visit, KeepText
<1>6. texts' \in [Sources -> Seq(Texts)] /\ total' \in 0..MaxTotalText
  <2>1. CASE texts' = texts /\ total' = total
    BY <2>1 DEF TypeOK
  <2>2. CASE KeepText(p) /\ p.kind \in Sources
    <3> DEFINE n == Budget(ReadLen(p))
    <3>1. n \in Nat /\ total + n \in 0..MaxTotalText
      BY <1>3, BudgetTyped DEF TypeOK
    <3>2. [key |-> p.key, len |-> n] \in Texts
      BY <1>2, <3>1 DEF Texts
    <3>3. Keep(texts[p.kind], [key |-> p.key, len |-> n]) \in Seq(Texts)
      BY <3>2, <2>2, KeepFacts DEF TypeOK
    <3> QED
      BY <2>2, <3>1, <3>3 DEF KeepText, TypeOK
  <2> QED
    BY <2>1, <2>2 DEF Walk, Visit
<1>7. next' \in 1..(Len(mail.parts) + 1)
  BY <1>1 DEF Walk
<1> QED
  BY <1>4, <1>5, <1>6, <1>7 DEF Walk, TypeOK, readVars

LEMMA CutTyped ==
  ASSUME TypeOK, Cut PROVE TypeOK'
<1> DEFINE t == texts[src][cut.text]
           last == cut.start + Window >= t.len
           win == [text |-> t, start |-> cut.start,
                   end |-> IF last THEN t.len ELSE cut.start + Window]
<1>1. texts[src] \in Seq(Texts) /\ cut.text \in 1..Len(texts[src]) /\ cut.start \in Nat
  BY DEF TypeOK, Cut
<1>2. t \in Texts
  BY <1>1
<1>3. t.len \in Nat
  BY <1>2 DEF Texts
<1>4. win \in Jobs
  BY <1>1, <1>2, <1>3, Constants DEF Jobs
<1>5. jobs' \in Seq(Jobs)
  <2>1. jobs' = Append(jobs, win)
    BY DEF Cut
  <2> HIDE DEF win
  <2> QED
    BY <1>4, <2>1, AppendProperties DEF TypeOK
<1>6. CutStep \in Nat
  BY Constants DEF CutStep
<1>7. cut' \in [text : Nat \ {0}, start : Nat]
  <2>1. cut' = [text |-> cut.text + 1, start |-> 0]
        \/ cut' = [cut EXCEPT !.start = cut.start + CutStep]
    BY DEF Cut
  <2>2. cut \in [text : Nat \ {0}, start : Nat]
    BY DEF TypeOK
  <2> QED
    BY <2>1, <2>2, <1>1, <1>6
<1> QED
  BY <1>5, <1>7 DEF Cut, TypeOK, mailVars, walkVars

LEMMA AnsweredTyped ==
  ASSUME TypeOK, Answered PROVE TypeOK'
<1>1. PICK ls \in SUBSET Labels : best' = Merge(ls) /\ flagged' = flagged \cup Flag(ls, src)
  BY DEF Answered
<1>2. best' \in SUBSET Labels /\ flagged' \in SUBSET Factors
  BY <1>1, FlagTyped DEF TypeOK, Merge
<1>3. Head(jobs) \in Jobs /\ Tail(jobs) \in Seq(Jobs)
  BY HeadTailProperties DEF TypeOK, Answered, AnswerArrives
<1>4. read' \in SUBSET (Sources \X Jobs)
  BY <1>3 DEF TypeOK, Answered
<1> QED
  BY <1>2, <1>3, <1>4 DEF Answered, AnswerArrives, TypeOK, mailVars, walkVars

LEMMA TruncatedTyped ==
  ASSUME TypeOK, Truncated PROVE TypeOK'
<1>1. Head(jobs) \in Jobs /\ Tail(jobs) \in Seq(Jobs)
  BY HeadTailProperties DEF TypeOK, Truncated, AnswerArrives
<1>2. Halves(Head(jobs)) \in Seq(Jobs)
  BY <1>1, HalvesCover DEF Truncated
<1>3. jobs' \in Seq(Jobs)
  BY <1>1, <1>2, ConcatProperties DEF Truncated
<1> QED
  BY <1>3 DEF Truncated, AnswerArrives, TypeOK, mailVars, walkVars

LEMMA StepTyped == TypeOK /\ [Next]_vars => TypeOK'
<1> SUFFICES ASSUME TypeOK, [Next]_vars PROVE TypeOK'
  OBVIOUS
<1> USE DEF mailVars, walkVars, readVars
<1>1. CASE Cheap
  BY <1>1 DEF Cheap, Finish, NotCleared, TypeOK, Outcomes
<1>2. CASE Extracted
  BY <1>2 DEF Extracted, Finish, NotCleared, TypeOK, Outcomes
<1>3. CASE Patterns
  <2>1. PatternFactors \subseteq Factors
    BY ScreeningAssumption
  <2> QED
    BY <1>3, <2>1 DEF Patterns, Detected, TypeOK
<1>4. CASE DeadlineEnds \/ OutOfCalls
  BY <1>4 DEF DeadlineEnds, OutOfCalls, Finish, NotCleared, TypeOK, Outcomes
<1>5. CASE CutDone
  BY <1>5 DEF CutDone, Finish, NotCleared, TypeOK, Outcomes
<1>6. CASE ClassifyFails
  BY <1>6 DEF ClassifyFails, AnswerArrives, Finish, NotCleared, TypeOK, Outcomes
<1>7. CASE SourceDone
  <2>1. found' \in SUBSET Factors /\ src' \in Sources /\ pc' \in {"cut", "compose"}
    BY <1>7, FlagTyped DEF SourceDone, TypeOK, Sources
  <2>2. cut' \in [text : Nat \ {0}, start : Nat] /\ calls' \in Nat /\ best' \in SUBSET Labels
    BY <1>7 DEF SourceDone, NoCut
  <2> QED
    BY <1>7, <2>1, <2>2 DEF SourceDone, TypeOK
<1>8. CASE Composed
  BY <1>8 DEF Composed, Finish, TypeOK, Outcomes
<1>9. CASE UNCHANGED vars
  BY <1>9 DEF vars, TypeOK
<1>10. CASE Ask
  BY <1>10 DEF Ask, TypeOK
<1> QED
  BY <1>1, <1>2, <1>3, <1>4, <1>5, <1>6, <1>7, <1>8, <1>9, <1>10, WalkTyped, CutTyped,
     AnsweredTyped, TruncatedTyped DEF Next

LEMMA InitTyped == Init => TypeOK
<1> SUFFICES ASSUME Init PROVE TypeOK
  OBVIOUS
<1>1. Len(mail.parts) \in Nat
  BY PartTyped DEF Init
<1>2. texts \in [Sources -> Seq(Texts)]
  BY DEF Init
<1>3. src \in Sources /\ jobs \in Seq(Jobs) /\ read \in SUBSET (Sources \X Jobs)
  BY DEF Init, Sources
<1>4. cut \in [text : Nat \ {0}, start : Nat] /\ next \in 1..(Len(mail.parts) + 1)
  BY <1>1 DEF Init, NoCut
<1>5. total \in 0..MaxTotalText /\ outcome \in Outcomes
  BY Constants DEF Init, Outcomes
<1> QED
  BY <1>2, <1>3, <1>4, <1>5 DEF Init, TypeOK

(* The type invariant: among it, that the extraction never keeps more than *)
(* its total cap.                                                          *)
THEOREM TypeTheorem == Spec => []TypeOK
  BY InitTyped, StepTyped, PTL DEF Spec

-----------------------------------------------------------------------------
(* The extraction: unless it says otherwise, every text part visited so    *)
(* far is kept whole.                                                      *)
KeptPart(p) ==
    p.kind \in Sources /\ p.len # 0 =>
        \E k \in 1..Len(texts[p.kind]) : texts[p.kind][k] = [key |-> p.key, len |-> p.len]

KeptInv ==
    /\ TypeOK
    /\ ~truncated /\ ~undecodable => \A i \in 1..(next - 1) : KeptPart(mail.parts[i])
    /\ pc \notin {"cheap", "walk", "done"} => next > Len(mail.parts) /\ ~undecodable
    /\ outcome = "handled" => /\ pc = "done" /\ next > Len(mail.parts)
                              /\ ~undecodable /\ ~truncated
    /\ pc \in {"cheap", "walk", "assess"} => src = "body" /\ cut = NoCut

LEMMA WalkKept ==
  ASSUME KeptInv, Walk, ~truncated', ~undecodable', NEW i \in 1..(next' - 1)
  PROVE  KeptPart(mail.parts[i])'
<1> DEFINE p == mail.parts[next]
<1>1. /\ next \in 1..Len(mail.parts) /\ p \in Part /\ Len(mail.parts) \in Nat
      /\ next' = next + 1 /\ mail' = mail /\ texts \in [Sources -> Seq(Texts)]
  BY PartTyped DEF KeptInv, TypeOK, Walk
<1>2. p.len \in Nat /\ p.key \in Keys
  BY <1>1, PartTyped DEF KeptInv, TypeOK
<1>3. ~truncated /\ ~undecodable
  BY DEF Walk, Visit, KeepText
<1>4. CASE p.kind \in Sources
  <2> DEFINE n == Budget(ReadLen(p))
             t == [key |-> p.key, len |-> n]
  <2>1. KeepText(p)
    BY <1>4 DEF Walk, Visit
  <2>2. ~Capped(p) /\ ~(n < ReadLen(p))
    BY <2>1 DEF KeepText
  <2>3. ReadLen(p) = p.len
    BY <2>2 DEF ReadLen
  <2>4. n \in 0..p.len
    BY <1>2, <2>3, BudgetTyped DEF KeptInv, TypeOK
  <2>5. n = p.len
    BY <1>2, <2>2, <2>3, <2>4
  <2>6. t \in Texts /\ t = [key |-> p.key, len |-> p.len] /\ t.len = p.len
    BY <1>2, <2>5 DEF Texts
  <2>7. texts' = [texts EXCEPT ![p.kind] = Keep(texts[p.kind], t)]
    BY <2>1 DEF KeepText
  <2> HIDE DEF t, n
  <2>8. /\ texts'[p.kind] = Keep(texts[p.kind], t)
        /\ \A s \in Sources : s # p.kind => texts'[s] = texts[s]
    BY <1>1, <1>4, <2>7
  <2>0. texts[p.kind] \in Seq(Texts)
    BY <1>1, <1>4
  <2> DEFINE kept == Keep(texts[p.kind], t)
  <2>12. /\ \A k \in 1..Len(texts[p.kind]) : k \in 1..Len(kept) /\ kept[k] = texts[p.kind][k]
         /\ t.len # 0 => \E k \in 1..Len(kept) : kept[k] = t
    BY <2>0, <2>6, KeepFacts
  <2>9. \A s \in Sources : \A k \in 1..Len(texts[s]) :
          k \in 1..Len(texts'[s]) /\ texts'[s][k] = texts[s][k]
    <3>1. ASSUME NEW s \in Sources, NEW k \in 1..Len(texts[s])
          PROVE  k \in 1..Len(texts'[s]) /\ texts'[s][k] = texts[s][k]
      <4>1. CASE s = p.kind
        BY <4>1, <2>8, <2>12
      <4>2. CASE s # p.kind
        BY <4>2, <2>8
      <4> QED
        BY <4>1, <4>2
    <3> QED
      BY <3>1
  <2>10. CASE i = next
    <3>1. p.len # 0 => \E k \in 1..Len(texts'[p.kind]) : texts'[p.kind][k] = t
      BY <2>6, <2>8, <2>12
    <3> QED
      BY <2>10, <3>1, <2>6, <1>1 DEF KeptPart
  <2>11. CASE i # next
    <3>1. i \in 1..(next - 1) /\ KeptPart(mail.parts[i])
      BY <2>11, <1>1, <1>3 DEF KeptInv
    <3> QED
      BY <3>1, <2>9, <1>1 DEF KeptPart
  <2> QED
    BY <2>10, <2>11
<1>5. CASE p.kind \notin Sources
  <2>1. texts' = texts
    BY <1>5 DEF Walk, Visit
  <2>2. CASE i = next
    BY <2>2, <1>1, <1>5 DEF KeptPart
  <2>3. CASE i # next
    <3>1. i \in 1..(next - 1) /\ KeptPart(mail.parts[i])
      BY <2>3, <1>1, <1>3 DEF KeptInv
    <3> QED
      BY <3>1, <2>1, <1>1 DEF KeptPart
  <2> QED
    BY <2>2, <2>3
<1> QED
  BY <1>4, <1>5

LEMMA StepKept == KeptInv /\ FlagInv /\ [Next]_vars => KeptInv'
<1> SUFFICES ASSUME KeptInv, FlagInv, [Next]_vars PROVE KeptInv'
  OBVIOUS
<1>1. TypeOK'
  BY StepTyped DEF KeptInv
<1>2. CASE Walk
  <2>1. ~truncated' /\ ~undecodable' => \A i \in 1..(next' - 1) : KeptPart(mail.parts[i])'
    BY <1>2, WalkKept
  <2>2. pc' = "walk" /\ outcome' = "none" /\ UNCHANGED <<src, cut>>
    BY <1>2 DEF Walk, FlagInv, readVars
  <2>3. src' = "body" /\ cut' = NoCut
    BY <1>2, <2>2 DEF Walk, KeptInv
  <2> QED
    BY <1>1, <2>1, <2>2, <2>3 DEF KeptInv
<1>3. ASSUME UNCHANGED <<mailVars, walkVars>>
      PROVE  ~truncated' /\ ~undecodable' => \A i \in 1..(next' - 1) : KeptPart(mail.parts[i])'
  BY <1>3 DEF KeptInv, KeptPart, mailVars, walkVars
<1> USE DEF mailVars, walkVars, readVars
<1>4. CASE Cheap
  BY <1>1, <1>3, <1>4 DEF KeptInv, FlagInv, Cheap, Finish, NotCleared
<1>5. CASE Extracted
  <2>1. Len(mail.parts) \in Nat
    BY PartTyped DEF KeptInv, TypeOK
  <2> QED
    BY <1>1, <1>3, <1>5, <2>1 DEF KeptInv, FlagInv, Extracted, Finish, NotCleared
<1>6. CASE Patterns
  BY <1>1, <1>3, <1>6 DEF KeptInv, FlagInv, Patterns, Detected
<1>7. CASE DeadlineEnds \/ OutOfCalls
  BY <1>1, <1>3, <1>7 DEF KeptInv, DeadlineEnds, OutOfCalls, Finish, NotCleared
<1>8. CASE Cut
  BY <1>1, <1>3, <1>8 DEF KeptInv, Cut
<1>9. CASE CutDone
  BY <1>1, <1>3, <1>9 DEF KeptInv, FlagInv, CutDone, Finish, NotCleared
<1>10. CASE Answered
  BY <1>1, <1>3, <1>10 DEF KeptInv, Answered, AnswerArrives
<1>11. CASE Truncated
  BY <1>1, <1>3, <1>11 DEF KeptInv, Truncated, AnswerArrives
<1>12. CASE ClassifyFails
  BY <1>1, <1>3, <1>12 DEF KeptInv, ClassifyFails, Finish, NotCleared
<1>13. CASE SourceDone
  BY <1>1, <1>3, <1>13 DEF KeptInv, SourceDone, FlagInv
<1>14. CASE Composed
  BY <1>1, <1>3, <1>14 DEF KeptInv, Composed, Finish, Holds
<1>15. CASE UNCHANGED vars
  BY <1>1, <1>3, <1>15 DEF KeptInv, vars
<1>16. CASE Ask
  BY <1>1, <1>3, <1>16 DEF KeptInv, Ask
<1> QED
  BY <1>2, <1>4, <1>5, <1>6, <1>7, <1>8, <1>9, <1>10, <1>11, <1>12, <1>13, <1>14, <1>15, <1>16
     DEF Next

-----------------------------------------------------------------------------
(* Coverage: a phrase of at most Reach runes of a kept text was read, is   *)
(* in a window still to be read or lies ahead of the cuts, or its source   *)
(* has not been started or is not read at all.                             *)
InJobs(t, a, b) ==
    \E i \in 1..Len(jobs) : jobs[i].text = t /\ jobs[i].start <= a /\ b <= jobs[i].end

ToCut(i, a) == pc = "cut" /\ (cut.text < i \/ (cut.text = i /\ cut.start <= a))

InHand(s, i, a, b) ==
    s = src /\ pc \in {"cut", "classify"} /\ (InJobs(texts[s][i], a, b) \/ ToCut(i, a))

Unread(s) ==
    \/ pc \in {"cheap", "walk", "assess"} \/ ~Classifier
    \/ s = "text" /\ src = "body" /\ pc \in {"cut", "classify"}
    \/ s = "text" /\ ~ReadsAttachments
    \/ pc = "done" /\ outcome # "handled"

Phrase(s, i, a, b) == a < b /\ b <= texts[s][i].len /\ b - a <= Reach

CoverInv ==
    \A s \in Sources : \A i \in 1..Len(texts[s]) : \A a, b \in Nat :
        Phrase(s, i, a, b) =>
            ReadWhole(s, texts[s][i], a, b) \/ InHand(s, i, a, b) \/ Unread(s)

LEMMA CutCover ==
  ASSUME KeptInv, CoverInv, Cut PROVE CoverInv'
<1> DEFINE t == texts[src][cut.text]
           last == cut.start + Window >= t.len
           win == [text |-> t, start |-> cut.start,
                   end |-> IF last THEN t.len ELSE cut.start + Window]
<1>1. /\ texts[src] \in Seq(Texts) /\ cut.text \in 1..Len(texts[src]) /\ cut.start \in Nat
      /\ jobs \in Seq(Jobs) /\ cut.text \in Nat /\ src \in Sources
  BY DEF KeptInv, TypeOK, Cut
<1>2. t \in Texts /\ t.len \in Nat
  <2>1. t \in Texts
    BY <1>1
  <2> QED
    BY <2>1 DEF Texts
<1>3. win \in Jobs
  BY <1>1, <1>2, Constants DEF Jobs
<1>4. win.text = t /\ win.start = cut.start
      /\ win.end = IF last THEN t.len ELSE cut.start + Window
  OBVIOUS
<1>5. /\ jobs' = Append(jobs, win) /\ UNCHANGED <<texts, src, read, pc, outcome>> /\ pc = "cut"
      /\ cut' = IF last THEN [text |-> cut.text + 1, start |-> 0]
                ELSE [cut EXCEPT !.start = cut.start + CutStep]
  BY DEF Cut, mailVars
<1>6. /\ last => cut'.text = cut.text + 1 /\ cut'.start = 0
      /\ ~last => cut'.text = cut.text /\ cut'.start = cut.start + CutStep
  BY <1>5 DEF KeptInv, TypeOK
<1> HIDE DEF win
<1>7. /\ Len(jobs') = Len(jobs) + 1 /\ jobs'[Len(jobs) + 1] = win /\ Len(jobs) \in Nat
      /\ \A i \in 1..Len(jobs) : jobs'[i] = jobs[i]
  BY <1>1, <1>3, <1>5, AppendProperties
<1> SUFFICES ASSUME NEW s \in Sources, NEW i \in 1..Len(texts[s]), NEW a \in Nat, NEW b \in Nat,
                    Phrase(s, i, a, b)
             PROVE  ReadWhole(s, texts[s][i], a, b)' \/ InHand(s, i, a, b)' \/ Unread(s)'
  BY <1>5 DEF CoverInv, Phrase
<1>8. CASE ReadWhole(s, texts[s][i], a, b) \/ Unread(s)
  BY <1>8, <1>5 DEF ReadWhole, Unread
<1>9. CASE s = src /\ InJobs(texts[s][i], a, b)
  <2>1. InJobs(texts[s][i], a, b)'
    BY <1>9, <1>5, <1>7 DEF InJobs
  <2> QED
    BY <2>1, <1>5, <1>9 DEF InHand
<1>10. CASE s = src /\ cut.text < i
  <2>1. cut'.text < i \/ (cut'.text = i /\ cut'.start = 0 /\ 0 <= a)
    <3>1. i \in Nat
      BY <1>1, <1>10
    <3> QED
      BY <1>1, <1>6, <1>10, <3>1
  <2>2. ToCut(i, a)'
    BY <2>1, <1>5 DEF ToCut
  <2> QED
    BY <2>2, <1>5, <1>10 DEF InHand
<1>11. CASE s = src /\ cut.text = i /\ cut.start <= a
  <2>1. t = texts[s][i] /\ b <= t.len /\ a < b /\ b - a <= Overlap \div 2 + 1
    BY <1>11 DEF Phrase, Reach
  <2>2. b <= win.end \/ (~last /\ cut.start + CutStep <= a)
    <3>1. Overlap \in Nat /\ Window \in Nat /\ Overlap \div 2 \in Nat
          /\ Overlap \div 2 <= Overlap /\ 2 * Overlap <= Window
      BY Constants
    <3>2. CASE last
      BY <3>2, <1>4, <2>1
    <3>3. CASE ~last
      BY <3>1, <3>3, <1>1, <1>4, <2>1 DEF CutStep
    <3> QED
      BY <3>2, <3>3
  <2>3. CASE b <= win.end
    <3>1. Len(jobs) + 1 \in 1..Len(jobs') /\ jobs'[Len(jobs) + 1] = win
      BY <1>7
    <3>2. win.text = texts'[s][i] /\ win.start <= a /\ b <= win.end
      BY <2>1, <2>3, <1>4, <1>5, <1>11
    <3>3. InJobs(texts[s][i], a, b)'
      BY <3>1, <3>2 DEF InJobs
    <3> QED
      BY <3>3, <1>5, <1>11 DEF InHand
  <2>4. CASE ~last /\ cut.start + CutStep <= a
    <3>1. ToCut(i, a)'
      BY <2>4, <1>5, <1>6, <1>11 DEF ToCut
    <3> QED
      BY <3>1, <1>5, <1>11 DEF InHand
  <2> QED
    BY <2>2, <2>3, <2>4
<1> QED
  BY <1>8, <1>9, <1>10, <1>11 DEF CoverInv, InHand, ToCut

LEMMA AnsweredCover ==
  ASSUME KeptInv, CoverInv, Answered PROVE CoverInv'
<1>1. jobs \in Seq(Jobs) /\ jobs # <<>> /\ src \in Sources
  BY DEF KeptInv, TypeOK, Answered, AnswerArrives
<1>2. /\ jobs' = Tail(jobs) /\ read' = read \cup {<<src, Head(jobs)>>}
      /\ UNCHANGED <<texts, src, pc, outcome, cut>> /\ pc = "classify"
  BY DEF Answered, AnswerArrives, mailVars
<1>3. /\ Len(jobs) \in Nat /\ Len(jobs') = Len(jobs) - 1 /\ Head(jobs) = jobs[1]
      /\ \A i \in 1..Len(jobs') : jobs'[i] = jobs[i + 1]
  BY <1>1, <1>2, HeadTailProperties
<1> SUFFICES ASSUME NEW s \in Sources, NEW i \in 1..Len(texts[s]), NEW a \in Nat, NEW b \in Nat,
                    Phrase(s, i, a, b)
             PROVE  ReadWhole(s, texts[s][i], a, b)' \/ InHand(s, i, a, b)' \/ Unread(s)'
  BY <1>2 DEF CoverInv, Phrase
<1>4. CASE ReadWhole(s, texts[s][i], a, b) \/ Unread(s)
  BY <1>4, <1>2 DEF ReadWhole, Unread
<1>5. CASE InHand(s, i, a, b)
  <2>1. PICK k \in 1..Len(jobs) : jobs[k].text = texts[s][i] /\ jobs[k].start <= a
                                  /\ b <= jobs[k].end
    BY <1>5, <1>2 DEF InHand, InJobs, ToCut
  <2>2. CASE k = 1
    <3>1. <<s, jobs[1]>> \in read' /\ <<s, jobs[1]>>[1] = s /\ <<s, jobs[1]>>[2] = jobs[1]
      BY <1>2, <1>3, <1>5 DEF InHand
    <3> QED
      BY <2>1, <2>2, <3>1, <1>2 DEF ReadWhole
  <2>3. CASE k # 1
    <3>1. k - 1 \in 1..Len(jobs') /\ jobs'[k - 1] = jobs[k]
      BY <2>3, <1>3
    <3>2. InJobs(texts[s][i], a, b)'
      BY <2>1, <3>1, <1>2 DEF InJobs
    <3> QED
      BY <3>2, <1>2, <1>5 DEF InHand
  <2> QED
    BY <2>2, <2>3
<1> QED
  BY <1>4, <1>5 DEF CoverInv

LEMMA TruncatedCover ==
  ASSUME KeptInv, CoverInv, Truncated PROVE CoverInv'
<1> DEFINE j == Head(jobs)
<1>1. jobs \in Seq(Jobs) /\ jobs # <<>> /\ src \in Sources
  BY DEF KeptInv, TypeOK, Truncated, AnswerArrives
<1>2. /\ jobs' = Halves(j) \o Tail(jobs)
      /\ UNCHANGED <<texts, src, pc, outcome, cut, read>> /\ pc = "classify"
      /\ j.end - j.start >= 2 * MinSplit
  BY DEF Truncated, AnswerArrives, mailVars
<1>3. /\ Len(jobs) \in Nat /\ Len(Tail(jobs)) = Len(jobs) - 1 /\ j = jobs[1] /\ j \in Jobs
      /\ \A i \in 1..Len(Tail(jobs)) : Tail(jobs)[i] = jobs[i + 1]
      /\ Tail(jobs) \in Seq(Jobs)
  BY <1>1, HeadTailProperties
<1>4. /\ Halves(j) \in Seq(Jobs)
      /\ \A a, b \in Nat :
            (a < b /\ b - a <= Reach /\ j.start <= a /\ b <= j.end) =>
               \E i \in 1..Len(Halves(j)) :
                  /\ Halves(j)[i].text = j.text
                  /\ Halves(j)[i].start <= a /\ b <= Halves(j)[i].end
  BY <1>2, <1>3, HalvesCover
<1>5. /\ Len(Halves(j)) \in Nat /\ Len(jobs') = Len(Halves(j)) + Len(Tail(jobs))
      /\ \A i \in 1..Len(Halves(j)) : jobs'[i] = Halves(j)[i]
      /\ \A i \in 1..Len(Tail(jobs)) : \E q \in 1..Len(jobs') : jobs'[q] = Tail(jobs)[i]
  <2> DEFINE h == Halves(j)
             r == Tail(jobs)
  <2> HIDE DEF h, r
  <2>1. h \in Seq(Jobs) /\ r \in Seq(Jobs) /\ jobs' = h \o r
    BY <1>2, <1>3, <1>4 DEF h, r
  <2>2. /\ Len(h) \in Nat /\ Len(r) \in Nat /\ Len(h \o r) = Len(h) + Len(r)
        /\ \A i \in 1..Len(h) : (h \o r)[i] = h[i]
        /\ \A i \in 1..Len(r) : (h \o r)[Len(h) + i] = r[i]
    BY <2>1
  <2>3. ASSUME NEW i \in 1..Len(r) PROVE \E q \in 1..Len(h \o r) : (h \o r)[q] = r[i]
    <3>1. Len(h) + i \in 1..Len(h \o r)
      BY <2>2
    <3> QED
      BY <2>2, <3>1
  <2> QED
    BY <2>1, <2>2, <2>3 DEF h, r
<1> SUFFICES ASSUME NEW s \in Sources, NEW i \in 1..Len(texts[s]), NEW a \in Nat, NEW b \in Nat,
                    Phrase(s, i, a, b)
             PROVE  ReadWhole(s, texts[s][i], a, b)' \/ InHand(s, i, a, b)' \/ Unread(s)'
  BY <1>2 DEF CoverInv, Phrase
<1>6. CASE ReadWhole(s, texts[s][i], a, b) \/ Unread(s)
  BY <1>6, <1>2 DEF ReadWhole, Unread
<1>7. CASE InHand(s, i, a, b)
  <2>1. PICK k \in 1..Len(jobs) : jobs[k].text = texts[s][i] /\ jobs[k].start <= a
                                  /\ b <= jobs[k].end
    BY <1>7, <1>2 DEF InHand, InJobs, ToCut
  <2>2. \E m \in 1..Len(jobs') : jobs'[m].text = texts[s][i] /\ jobs'[m].start <= a
                                 /\ b <= jobs'[m].end
    <3>1. CASE k = 1
      <4>1. PICK m \in 1..Len(Halves(j)) : /\ Halves(j)[m].text = j.text
                                           /\ Halves(j)[m].start <= a /\ b <= Halves(j)[m].end
        BY <2>1, <3>1, <1>3, <1>4 DEF Phrase
      <4>2. m \in 1..Len(jobs') /\ jobs'[m] = Halves(j)[m]
        BY <1>3, <1>5
      <4> QED
        BY <4>1, <4>2, <2>1, <3>1, <1>3
    <3>2. CASE k # 1
      <4>1. k - 1 \in 1..Len(Tail(jobs)) /\ Tail(jobs)[k - 1] = jobs[k]
        BY <3>2, <1>3
      <4>2. PICK q \in 1..Len(jobs') : jobs'[q] = jobs[k]
        BY <4>1, <1>5
      <4> QED
        BY <4>2, <2>1
    <3> QED
      BY <3>1, <3>2
  <2>3. InJobs(texts[s][i], a, b)'
    BY <2>2, <1>2 DEF InJobs
  <2> QED
    BY <2>3, <1>2, <1>7 DEF InHand
<1> QED
  BY <1>6, <1>7 DEF CoverInv

LEMMA SourceDoneCover ==
  ASSUME KeptInv, CoverInv, SourceDone PROVE CoverInv'
<1>1. /\ jobs = <<>> /\ pc = "classify" /\ src \in Sources
      /\ UNCHANGED <<texts, read, outcome>> /\ cut' = NoCut
      /\ IF MoreToRead THEN pc' = "cut" /\ src' = "text" ELSE pc' = "compose" /\ src' = src
  BY DEF SourceDone, mailVars, KeptInv, TypeOK
<1> SUFFICES ASSUME NEW s \in Sources, NEW i \in 1..Len(texts[s]), NEW a \in Nat, NEW b \in Nat,
                    Phrase(s, i, a, b)
             PROVE  ReadWhole(s, texts[s][i], a, b)' \/ InHand(s, i, a, b)' \/ Unread(s)'
  BY <1>1 DEF CoverInv, Phrase
<1>2. CASE ReadWhole(s, texts[s][i], a, b)
  BY <1>1, <1>2 DEF ReadWhole
<1>3. ~InHand(s, i, a, b)
  BY <1>1 DEF InHand, InJobs, ToCut
<1>4. CASE Unread(s)
  <2>1. CASE ~Classifier \/ (s = "text" /\ ~ReadsAttachments)
    BY <2>1 DEF Unread
  <2>2. CASE s = "text" /\ src = "body" /\ ReadsAttachments
    <3>1. pc' = "cut" /\ src' = "text" /\ cut' = NoCut
      BY <1>1, <2>2 DEF MoreToRead
    <3>2. i \in Nat /\ i >= 1
      BY DEF KeptInv, TypeOK
    <3>3. ToCut(i, a)'
      BY <3>1, <3>2 DEF ToCut, NoCut
    <3> QED
      BY <3>1, <3>3, <2>2 DEF InHand
  <2> QED
    BY <1>1, <1>4, <2>1, <2>2 DEF Unread
<1> QED
  BY <1>2, <1>3, <1>4 DEF CoverInv

LEMMA StepCover == KeptInv /\ FlagInv /\ CoverInv /\ [Next]_vars => CoverInv'
<1> SUFFICES ASSUME KeptInv, FlagInv, CoverInv, [Next]_vars PROVE CoverInv'
  OBVIOUS
<1> USE DEF mailVars, walkVars, readVars
(* Steps that keep the texts, the windows and what was read, and leave no  *)
(* source of a handled message behind.                                     *)
<1>1. ASSUME UNCHANGED <<texts, read, jobs, cut, src>>,
             \A s \in Sources : Unread(s) => Unread(s)',
             \A s \in Sources, i \in Nat, a \in Nat, b \in Nat : InHand(s, i, a, b) =>
                 InHand(s, i, a, b)' \/ Unread(s)'
      PROVE  CoverInv'
  <2> SUFFICES ASSUME NEW s \in Sources, NEW i \in 1..Len(texts[s]), NEW a \in Nat, NEW b \in Nat,
                      Phrase(s, i, a, b)
               PROVE  ReadWhole(s, texts[s][i], a, b)' \/ InHand(s, i, a, b)' \/ Unread(s)'
    BY <1>1 DEF CoverInv, Phrase
  <2>1. i \in Nat
    BY DEF KeptInv, TypeOK
  <2>2. ReadWhole(s, texts[s][i], a, b) => ReadWhole(s, texts[s][i], a, b)'
    BY <1>1 DEF ReadWhole
  <2> QED
    BY <1>1, <2>1, <2>2 DEF CoverInv
<1>2. ASSUME \A s \in Sources : Unread(s)' PROVE CoverInv'
  BY <1>2 DEF CoverInv
<1>3. CASE Cheap
  BY <1>2, <1>3 DEF Cheap, Finish, NotCleared, Unread
<1>4. CASE Walk
  BY <1>2, <1>4 DEF Walk, Unread
<1>5. CASE Extracted
  BY <1>2, <1>5 DEF Extracted, Finish, NotCleared, Unread
<1>6. CASE Patterns
  <2>1. CASE ~Classifier
    BY <1>2, <2>1 DEF Unread
  <2>2. CASE Classifier
    <3>1. UNCHANGED <<texts, read, cut, src>> /\ pc' = "cut" /\ src = "body" /\ cut = NoCut
      BY <1>6, <2>2 DEF Patterns, Detected, KeptInv
    <3> SUFFICES ASSUME NEW s \in Sources, NEW i \in 1..Len(texts[s]), NEW a \in Nat, NEW b \in Nat
                 PROVE  InHand(s, i, a, b)' \/ Unread(s)'
      BY <3>1 DEF CoverInv
    <3>2. i \in Nat /\ i >= 1
      BY DEF KeptInv, TypeOK
    <3>3. CASE s = "body"
      BY <3>1, <3>2, <3>3 DEF InHand, ToCut, NoCut
    <3>4. CASE s = "text"
      BY <3>1, <3>4 DEF Unread
    <3> QED
      BY <3>3, <3>4 DEF Sources
  <2> QED
    BY <2>1, <2>2 DEF KeptInv, TypeOK
<1>7. CASE DeadlineEnds \/ OutOfCalls
  BY <1>2, <1>7 DEF DeadlineEnds, OutOfCalls, Finish, NotCleared, Unread
<1>8. CASE ClassifyFails
  BY <1>2, <1>8 DEF ClassifyFails, Finish, NotCleared, Unread
<1>9. CASE CutDone
  <2>1. CASE Len(jobs) > Limit
    BY <1>2, <1>9, <2>1 DEF CutDone, Finish, NotCleared, Unread
  <2>2. CASE ~(Len(jobs) > Limit)
    <3>1. /\ UNCHANGED <<texts, read, jobs, cut, src, outcome>> /\ pc = "cut" /\ pc' = "classify"
          /\ cut.text > Len(texts[src]) /\ cut.text \in Nat /\ texts[src] \in Seq(Texts)
      BY <1>9, <2>2 DEF CutDone, KeptInv, TypeOK
    <3> SUFFICES ASSUME NEW s \in Sources, NEW i \in 1..Len(texts[s]), NEW a \in Nat, NEW b \in Nat,
                        Phrase(s, i, a, b)
                 PROVE  ReadWhole(s, texts[s][i], a, b)' \/ InHand(s, i, a, b)' \/ Unread(s)'
      BY <3>1 DEF CoverInv, Phrase
    <3>2. s = src => ~ToCut(i, a)
      BY <3>1 DEF ToCut
    <3>3. ReadWhole(s, texts[s][i], a, b) \/ InHand(s, i, a, b) \/ Unread(s)
      BY DEF CoverInv
    <3>4. CASE ReadWhole(s, texts[s][i], a, b) \/ Unread(s)
      BY <3>1, <3>4 DEF ReadWhole, Unread
    <3>5. CASE InHand(s, i, a, b)
      BY <3>1, <3>2, <3>5 DEF InHand, InJobs
    <3> QED
      BY <3>3, <3>4, <3>5
  <2> QED
    BY <2>1, <2>2
<1>10. CASE Composed
  BY <1>1, <1>10 DEF Composed, Finish, Unread, InHand
<1>11. CASE UNCHANGED vars
  BY <1>1, <1>11 DEF vars, Unread, InHand, InJobs, ToCut
<1>12. CASE Ask
  BY <1>1, <1>12 DEF Ask, Unread, InHand, InJobs, ToCut
<1> QED
  BY <1>3, <1>4, <1>5, <1>6, <1>7, <1>8, <1>9, <1>10, <1>11, <1>12, CutCover,
     AnsweredCover, TruncatedCover, SourceDoneCover DEF Next

(* A message handed to the agent was read whole, for every message and     *)
(* every setting of the caps, windows and overlaps that startup accepts.   *)
THEOREM ReadTheorem == Spec => []HandledIsRead
<1> DEFINE Inv == KeptInv /\ FlagInv /\ CoverInv
<1>1. Init => Inv
  <2> SUFFICES ASSUME Init PROVE Inv
    OBVIOUS
  <2>1. FlagInv
    BY FlagEmpty DEF Init, FlagInv, FlagsCount
  <2>2. KeptInv
    <3>1. \A i \in 1..(next - 1) : FALSE
      BY DEF Init
    <3> QED
      BY <3>1, InitTyped DEF Init, KeptInv
  <2>3. CoverInv
    BY DEF Init, CoverInv, Unread
  <2> QED
    BY <2>1, <2>2, <2>3
<1>2. Inv /\ [Next]_vars => Inv'
  BY StepFlags, StepKept, StepCover
<1>3. Inv => HandledIsRead
  <2> SUFFICES ASSUME Inv, outcome = "handled", Classifier,
                      NEW i \in DOMAIN mail.parts,
                      mail.parts[i].kind = "body"
                          \/ (mail.parts[i].kind = "text" /\ ReadsAttachments),
                      NEW a \in 0..mail.parts[i].len, NEW b \in 0..mail.parts[i].len,
                      a < b, b - a <= Reach
               PROVE  ReadWhole(mail.parts[i].kind,
                                [key |-> mail.parts[i].key, len |-> mail.parts[i].len], a, b)
    BY DEF HandledIsRead
  <2> DEFINE p == mail.parts[i]
             t == [key |-> p.key, len |-> p.len]
  <2>1. i \in 1..(next - 1) /\ p \in Part /\ p.len \in Nat /\ ~truncated /\ ~undecodable
        /\ pc = "done"
    BY PartTyped DEF KeptInv, TypeOK
  <2>2. p.kind \in Sources /\ p.len # 0
    BY <2>1 DEF Sources
  <2>3. PICK k \in 1..Len(texts[p.kind]) : texts[p.kind][k] = t
    BY <2>1, <2>2 DEF KeptInv, KeptPart
  <2>4. t.len = p.len /\ a \in Nat /\ b \in Nat
    BY <2>1
  <2>5. Phrase(p.kind, k, a, b)
    BY <2>3, <2>4, <2>1 DEF Phrase
  <2>6. ~InHand(p.kind, k, a, b) /\ ~Unread(p.kind)
    BY <2>1 DEF InHand, Unread
  <2>7. ReadWhole(p.kind, texts[p.kind][k], a, b)
    BY <2>2, <2>4, <2>5, <2>6 DEF CoverInv
  <2> QED
    BY <2>3, <2>7
<1> QED
  BY <1>1, <1>2, <1>3, PTL DEF Spec
=============================================================================
