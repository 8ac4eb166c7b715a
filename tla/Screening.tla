------------------------------ MODULE Screening ------------------------------
(***************************************************************************)
(* The injection assessment of one incoming message: screener.Screen, the  *)
(* text extraction (mailtext), the assessor with its pattern detector and  *)
(* its classifier, and the score (riskscore).                              *)
(*                                                                         *)
(* The extraction visits the message's MIME parts under four caps; the     *)
(* classifier covers the extracted texts with overlapping windows, splits  *)
(* a window its endpoint could not read whole, and works under a cap on    *)
(* its calls.  A step is one part visited, one window cut, one request to  *)
(* the endpoint or one answer of it.                                       *)
(*                                                                         *)
(* A text is its identity and its length in runes (a byte is a rune, and   *)
(* its URLs are already placeholders); an answer is the set of labels that *)
(* reach their threshold, since the highest confidence over the windows    *)
(* reaches it when one of them does.                                       *)
(***************************************************************************)
EXTENDS Naturals, Sequences, FiniteSets, FiniteSetsExt

CONSTANTS
    Mails,                      \* the messages that may arrive
    MaxPartText, MaxTotalText,  \* caps of the extraction
    MaxParts, MaxDepth, MaxAttachmentBytes,
    Window, Overlap, MinSplit,  \* windows of the classifier
    MaxWindows, MaxAttachmentWindows,
    Classifier,                 \* configuration: a classifier is enabled
    Labels,                     \* labels of the classifier
    LabelFactor,                \* the factor a label flags in the body
    LabelAttachmentFactor,      \* and in an attachment, or NoFactor
    NoFactor,
    PatternFactors,             \* what the pattern detector can flag
    FactorPoints,               \* the point table
    SenderBaselines, RecipientAdjust, Threshold,
    Keys                        \* identities of texts

Kinds == {"multi", "nested", "body", "text", "binary"}

(* A node of the MIME tree, in the order the walk meets them.  bad: its    *)
(* head is an error to the parent ("head"), or reading it is ("read").     *)
Part == [kind : Kinds, depth : Nat, len : Nat, key : Keys, bad : {"no", "head", "read"}]

(* rcpt: where the mailbox's own address stands, "self" if it has none.    *)
Mail == [readable : BOOLEAN, trust : STRING, rcpt : {"self", "to", "cc", "none"},
         parts : Seq(Part)]

Sources == {"body", "text"}
Factors == DOMAIN FactorPoints
Texts == [key : Keys, len : Nat]
Jobs == [text : Texts, start : Nat, end : Nat]

(* normalizeClassifier, newConfig and ValidateAlignment refuse anything    *)
(* else at startup.                                                        *)
ASSUME ScreeningAssumption ==
    /\ Mails \subseteq Mail
    /\ {MaxPartText, MaxTotalText, MaxParts, MaxDepth, MaxAttachmentBytes} \subseteq Nat
    /\ {Window, Overlap, MinSplit, MaxWindows, MaxAttachmentWindows} \subseteq Nat \ {0}
    /\ 2 * MinSplit <= Window /\ 2 * Overlap <= Window
    /\ Classifier \in BOOLEAN
    /\ PatternFactors \subseteq Factors
    /\ LabelFactor \in [Labels -> Factors]
    /\ LabelAttachmentFactor \in [Labels -> Factors \cup {NoFactor}]
    /\ NoFactor \notin Factors
    /\ FactorPoints \in [Factors -> Nat]
    /\ Threshold \in 0..100
    /\ "unknown" \in DOMAIN SenderBaselines
    /\ SenderBaselines \in [DOMAIN SenderBaselines -> Nat]
    /\ RecipientAdjust \in [{"to", "cc", "bcc"} -> Nat]

VARIABLES
    mail,       \* the message
    pc,         \* where Screen is
    next,       \* the part the walk visits next
    walked,     \* leaf parts met so far
    total,      \* text kept so far
    truncated, undecodable,
    texts,      \* the distinct texts kept, per source
    found,      \* factors reported by the detectors that finished
    src,        \* the source the classifier reads
    cut,        \* the text and the position the next window starts at
    jobs,       \* windows to classify
    calls,      \* requests made for this source
    asked,      \* a request is out
    best,       \* labels that reached their threshold
    read,       \* history: windows the endpoint read whole
    flagged,    \* history: factors any detector or whole answer named
    outcome

mailVars == <<mail, texts, truncated, undecodable>>
walkVars == <<next, walked, total>>
readVars == <<src, cut, jobs, calls, asked, best, read>>
vars == <<mailVars, walkVars, readVars, pc, found, flagged, outcome>>

Outcomes == {"none", "handled", "held", "gated", "not_cleared"}

TypeOK ==
    /\ mail \in Mails
    /\ pc \in {"cheap", "walk", "assess", "cut", "classify", "compose", "done"}
    /\ next \in 1..(Len(mail.parts) + 1)
    /\ walked \in Nat
    /\ total \in 0..MaxTotalText
    /\ truncated \in BOOLEAN /\ undecodable \in BOOLEAN
    /\ texts \in [Sources -> Seq(Texts)]
    /\ found \in SUBSET Factors /\ flagged \in SUBSET Factors
    /\ src \in Sources
    /\ cut \in [text : Nat \ {0}, start : Nat]
    /\ jobs \in Seq(Jobs)
    /\ calls \in Nat /\ asked \in BOOLEAN
    /\ best \in SUBSET Labels
    /\ read \in SUBSET (Sources \X Jobs)
    /\ outcome \in Outcomes

NoCut == [text |-> 1, start |-> 0]

Init ==
    /\ mail \in Mails
    /\ pc = "cheap"
    /\ next = 1 /\ walked = 0 /\ total = 0
    /\ truncated = FALSE /\ undecodable = FALSE
    /\ texts = [s \in Sources |-> <<>>]
    /\ found = {} /\ flagged = {}
    /\ src = "body" /\ cut = NoCut /\ jobs = <<>> /\ calls = 0 /\ best = {}
    /\ asked = FALSE /\ read = {}
    /\ outcome = "none"

-----------------------------------------------------------------------------
(* The score.                                                              *)

Clamp(n) == IF n > 100 THEN 100 ELSE n

BaselineFor(trust) ==
    IF trust \in DOMAIN SenderBaselines THEN SenderBaselines[trust]
    ELSE SenderBaselines["unknown"]

(* ResolveRecipient and its adjustment: an address in neither To nor Cc    *)
(* counts as Bcc; a mailbox without an address adds nothing.               *)
RecipientPoints(rcpt) ==
    CASE rcpt = "self" -> 0
      [] rcpt = "none" -> RecipientAdjust["bcc"]
      [] OTHER -> RecipientAdjust[rcpt]

CheapScore(m) == Clamp(BaselineFor(m.trust) + RecipientPoints(m.rcpt))

Compose(m, fs) == Clamp(CheapScore(m) + MapThenSumSet(LAMBDA f : FactorPoints[f], fs))

-----------------------------------------------------------------------------
(* Screen: the cheap terms first, then the extraction.                     *)

Finish(o) == pc' = "done" /\ outcome' = o

(* The deadline of the assessment, a detector's error: never a pass.       *)
NotCleared == Finish("not_cleared")

Cheap ==
    /\ pc = "cheap"
    /\ CASE CheapScore(mail) >= Threshold -> Finish("gated")
         [] CheapScore(mail) < Threshold /\ ~mail.readable -> NotCleared
         [] OTHER -> pc' = "walk" /\ UNCHANGED outcome
    /\ UNCHANGED <<mailVars, walkVars, readVars, found, flagged>>

-----------------------------------------------------------------------------
(* mailtext: walk, leaf, appendBody, budgetText.                           *)

(* readCapped, countCapped: more bytes than the part may give.             *)
Capped(p) == p.len > IF p.kind = "binary" THEN MaxAttachmentBytes ELSE MaxPartText

ReadLen(p) == IF Capped(p) THEN MaxPartText ELSE p.len

MutBudget(n) == n

(* budgetText: what the remaining total leaves of n runes.                 *)
Budget(n) == IF total + n > MaxTotalText THEN MaxTotalText - total ELSE n

(* distinctTexts: an empty text, or one already kept, is dropped.          *)
Keep(ts, t) ==
    IF t.len = 0 \/ \E i \in DOMAIN ts : ts[i] = t THEN ts ELSE Append(ts, t)

(* leaf, for a part whose text is kept.                                    *)
KeepText(p) ==
    LET n == Budget(ReadLen(p)) IN
    /\ texts' = [texts EXCEPT ![p.kind] = Keep(@, [key |-> p.key, len |-> n])]
    /\ total' = total + n
    /\ truncated' = (truncated \/ Capped(p) \/ n < ReadLen(p))

Deep(p) == p.depth > MaxDepth

(* A part nested too deep is skipped with all below it, a multipart only   *)
(* leads to its parts, and a leaf past the count is skipped.  A message    *)
(* attached to the message is a leaf, and its own parts follow.  (After a  *)
(* structural error the walk leaves parts out; the message is not cleared  *)
(* then, whatever they hold.)                                              *)
Visit(p) ==
    LET leaf == ~Deep(p) /\ p.kind # "multi"
        skip == Deep(p) \/ (leaf /\ walked >= MaxParts)
    IN  /\ walked' = IF leaf THEN walked + 1 ELSE walked
        /\ undecodable' = (\/ undecodable
                           \/ p.bad = "head" /\ p.depth <= MaxDepth + 1
                           \/ p.bad = "read" /\ ~skip)
        /\ IF p.kind \in Sources /\ ~skip THEN KeepText(p)
           ELSE /\ truncated' = (truncated \/ skip \/ (leaf /\ Capped(p)))
                /\ UNCHANGED <<texts, total>>

Walk ==
    /\ pc = "walk" /\ next <= Len(mail.parts)
    /\ Visit(mail.parts[next])
    /\ next' = next + 1
    /\ UNCHANGED <<mail, readVars, pc, found, flagged, outcome>>

(* The extraction is complete: text that never reached the assessor holds  *)
(* the message.                                                            *)
Extracted ==
    /\ pc = "walk" /\ next > Len(mail.parts)
    /\ IF undecodable THEN NotCleared ELSE pc' = "assess" /\ outcome' = outcome
    /\ UNCHANGED <<mailVars, walkVars, readVars, found, flagged>>

-----------------------------------------------------------------------------
(* Assess: the pattern detector, then the classifier, by union.            *)

(* What the pattern detector may report of a text.                         *)
Detected == SUBSET PatternFactors

Patterns ==
    /\ pc = "assess"
    /\ \E fs \in Detected :
         found' = found \cup fs /\ flagged' = flagged \cup fs
    /\ pc' = IF Classifier THEN "cut" ELSE "compose"
    /\ UNCHANGED <<mailVars, walkVars, readVars, outcome>>

(* The assessment's context has ended before or after the detectors.       *)
DeadlineEnds ==
    /\ pc \in {"assess", "compose"}
    /\ NotCleared
    /\ UNCHANGED <<mailVars, walkVars, readVars, found, flagged>>

Limit == IF src = "body" THEN MaxWindows ELSE MaxAttachmentWindows

(* splitWindows over each text: the last window ends at the text's end.    *)
CutStep == Window - Overlap

Cut ==
    LET t == texts[src][cut.text]
        last == cut.start + Window >= t.len
        w == [text |-> t, start |-> cut.start,
              end |-> IF last THEN t.len ELSE cut.start + Window]
    IN  /\ pc = "cut" /\ cut.text <= Len(texts[src])
        /\ jobs' = Append(jobs, w)
        /\ cut' = IF last THEN [text |-> cut.text + 1, start |-> 0]
                  ELSE [cut EXCEPT !.start = @ + CutStep]
        /\ UNCHANGED <<mailVars, walkVars, pc, found, flagged, outcome,
                       src, calls, asked, best, read>>

(* All windows are known: more than the limit fails the detector.          *)
CutDone ==
    /\ pc = "cut" /\ cut.text > Len(texts[src])
    /\ IF Len(jobs) > Limit THEN NotCleared
       ELSE pc' = "classify" /\ outcome' = outcome
    /\ UNCHANGED <<mailVars, walkVars, readVars, found, flagged>>

-----------------------------------------------------------------------------
(* classifyTexts: one request per window.                                  *)

MayAsk == calls + 1 <= Limit

(* A request counts when it is made, whatever comes of it.                 *)
MutAsk ==
    /\ pc = "classify" /\ jobs # <<>> /\ ~asked
    /\ MayAsk
    /\ asked' = TRUE
    /\ UNCHANGED <<mailVars, walkVars, pc, found, flagged, outcome, src, cut, jobs, calls,
                   best, read>>

Ask ==
    /\ pc = "classify" /\ jobs # <<>> /\ ~asked
    /\ MayAsk
    /\ asked' = TRUE /\ calls' = calls + 1
    /\ UNCHANGED <<mailVars, walkVars, pc, found, flagged, outcome, src, cut, jobs, best, read>>

(* No more calls are allowed.                                              *)
OutOfCalls ==
    /\ pc = "classify" /\ jobs # <<>> /\ ~asked
    /\ ~MayAsk
    /\ NotCleared
    /\ UNCHANGED <<mailVars, walkVars, readVars, found, flagged>>

(* The answer to the request comes in.                                     *)
AnswerArrives == pc = "classify" /\ jobs # <<>> /\ asked /\ asked' = FALSE

(* The factor a label flags in a source; a label without one flags nothing.*)
Flag(ls, s) ==
    {IF s = "body" THEN LabelFactor[l] ELSE LabelAttachmentFactor[l] : l \in ls} \ {NoFactor}

MutMerge(ls) == ls

(* The highest confidence of every label so far.                           *)
Merge(ls) == best \cup ls

(* The endpoint read the window whole.                                     *)
Answered ==
    /\ AnswerArrives
    /\ \E ls \in SUBSET Labels :
         /\ best' = Merge(ls)
         /\ flagged' = flagged \cup Flag(ls, src)
    /\ read' = read \cup {<<src, Head(jobs)>>}
    /\ jobs' = Tail(jobs)
    /\ UNCHANGED <<mailVars, walkVars, pc, found, outcome, src, cut, calls>>

MutHalves(j) ==
    LET h == (j.end - j.start + 1) \div 2
    IN  <<[j EXCEPT !.end = j.start + h], [j EXCEPT !.start = j.start + h]>>

(* splitWindows(n, (n+1)/2 + overlap/2, overlap/2): two halves, or the     *)
(* same window again when a half with its overlap is as long.              *)
Halves(j) ==
    LET n == j.end - j.start
        h == (n + 1) \div 2
        size == h + Overlap \div 2
    IN  IF n <= size THEN <<j>>
        ELSE <<[j EXCEPT !.end = j.start + size], [j EXCEPT !.start = j.start + h]>>

(* The endpoint read only part of the window: its halves come next.        *)
Truncated ==
    LET j == Head(jobs) IN
    /\ AnswerArrives
    /\ j.end - j.start >= 2 * MinSplit
    /\ jobs' = Halves(j) \o Tail(jobs)
    /\ UNCHANGED <<mailVars, walkVars, pc, found, flagged, outcome, src, cut, calls, best, read>>

(* The request fails, the answer breaks the contract, or a window of the   *)
(* smallest size was not read whole.                                       *)
ClassifyFails ==
    /\ AnswerArrives
    /\ NotCleared
    /\ UNCHANGED <<mailVars, walkVars, found, flagged, src, cut, jobs, calls, best, read>>

ReadsAttachments == \E l \in Labels : LabelAttachmentFactor[l] # NoFactor

MoreToRead == src = "body" /\ ReadsAttachments

(* A source is covered: flag its labels, go on with the attachments.       *)
SourceDone ==
    /\ pc = "classify" /\ jobs = <<>>
    /\ found' = found \cup Flag(best, src)
    /\ IF MoreToRead THEN pc' = "cut" /\ src' = "text"
       ELSE pc' = "compose" /\ src' = src
    /\ cut' = NoCut /\ calls' = 0 /\ best' = {}
    /\ UNCHANGED <<mailVars, walkVars, flagged, outcome, jobs, asked, read>>

(* Compose, and holdTruncated: a message read in part is held whatever its *)
(* score.                                                                  *)
Holds == Compose(mail, found) >= Threshold \/ truncated

Composed ==
    /\ pc = "compose"
    /\ Finish(IF Holds THEN "held" ELSE "handled")
    /\ UNCHANGED <<mailVars, walkVars, readVars, found, flagged>>

Next ==
    \/ Cheap \/ Walk \/ Extracted \/ Patterns \/ DeadlineEnds
    \/ Cut \/ CutDone \/ Ask \/ OutOfCalls \/ Answered \/ Truncated \/ ClassifyFails
    \/ SourceDone \/ Composed

Spec == Init /\ [][Next]_vars

(* Screen runs to its end; the endpoint answers or the request's deadline  *)
(* ends it.                                                                *)
FairSpec == Spec /\ WF_vars(Next)

-----------------------------------------------------------------------------
(* Properties.                                                             *)

(* The longest text that every cut leaves whole: splitWindows keeps one of *)
(* Overlap + 1 runes, a split of a window one of Overlap/2 + 1.            *)
Reach == Overlap \div 2 + 1

(* Some window of the source that was read whole holds runes a..b-1 of t.  *)
ReadWhole(s, t, a, b) ==
    \E w \in read : w[1] = s /\ w[2].text = t /\ w[2].start <= a /\ b <= w[2].end

(* A message handed to the agent was read, all of it: every text part      *)
(* within reach of the classifier is kept uncut, and every phrase of at    *)
(* most Reach runes in it lies whole in a window the endpoint read whole,  *)
(* whatever the caps cut, the endpoint truncated and the windows split     *)
(* into (Screen, walk, classifyTexts).                                     *)
HandledIsRead ==
    (outcome = "handled" /\ Classifier) =>
        \A i \in DOMAIN mail.parts :
            LET p == mail.parts[i] IN
            (p.kind = "body" \/ (p.kind = "text" /\ ReadsAttachments)) =>
                \A a \in 0..p.len, b \in 0..p.len :
                    (a < b /\ b - a <= Reach) =>
                        ReadWhole(p.kind, [key |-> p.key, len |-> p.len], a, b)

(* A flag is never lost: nothing a detector reported for any part, window  *)
(* or source was dropped before the score, so no later clean answer can    *)
(* pull a message below the threshold (Multi, classifyTexts, Compose).     *)
FlagsCount == outcome = "handled" => ~(Compose(mail, flagged) >= Threshold)

(* The assessment ends although a truncated window may be split into       *)
(* itself: the number of calls ends it (classifyTexts).                    *)
Ends == <>(pc = "done")
=============================================================================
