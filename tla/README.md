# Darbaan: TLA+ specifications and proofs

Darbaan is a mail gate between an agent and the mail providers of its operator.
Mail the agent submits is trapped until the operator approves it; mail that
arrives upstream is mirrored into a local inbox that the agent reads under a
filter and after an injection assessment. This directory models the parts of Darbaan
whose correctness depends on interleavings, crashes, failures and limits, checks them
with TLC on small instances, and proves the main guarantees with TLAPS for every
instance.

## 1. Inventory

| Component (source) | State | Operations | Interacts with |
|---|---|---|---|
| Outbound store (`internal/sluice`, `internal/blobstore`) | metadata bucket with a sequence, one blob file per record | `Enqueue`, `Approve`, `Reject`, `RecordSendAttempt`, `ClaimResend`, `reconcileClaims`, orphan sweep | called by the submission face and the admin handlers; appends audit rows |
| Submission face (`internal/listener/smtp.go`, `cmd/darbaan` `operatorBypassQueue`) | none | accept DATA, stamp the inbox, trap; release at once if every recipient is an operator identity | outbound store, admin service |
| Admin service (`internal/admin/service.go`) | none of its own | approve, approve-as, reject, re-send, bounce; held inbound list, expose, drop; reconcile release; audit listing | both stores, sender, bounce, reconciler, audit log |
| Upstream sender (`internal/backend`) | none | one SMTP submission with an overall deadline, classified as ok, permanent, transient or outcome unknown | the provider |
| Inbound store (`internal/inbound`) | records, dedup index, blobs, reconcile latch | `AddSynced*`, `AddGenerated`, `SetContentAssessed`, `RemoveSynced`, hold decisions, seen flags, keywords, validity stamps, sweep | sync, reconcile, read face, bounces |
| Inbound sync (`internal/imapsync`) | cursor and latch | `Sync`, `Reconcile`, `ReleaseReconcile`, `FetchContent`, `WriteKeywords`, `reconcileKeywords`, `stampForWrite`, the coordinator `OnDemandSync` | the provider's mailbox, inbound store |
| IMAP read face (`internal/listener/imap.go`) | per session: the snapshot taken at SELECT | SELECT, STATUS (which triggers an on-demand pull), SEARCH, FETCH with on-demand content, STORE of seen and keywords | inbound store, sync, filter, bounce guard |
| Assessment (`internal/screener`, `internal/mailtext`, `internal/assessor`, `internal/riskscore`) | none that outlives a message | extract the text of the parts, pattern detector, classifier over windows, score and threshold | sync and content fetch; the classifier's endpoint |
| Filter (`internal/filter`) | pure | first matching rule's action | read face, admin service |
| Bounce guard (`internal/bounceguard`, `internal/signer`, `internal/bounce`) | key | tells a bounce of Darbaan's own from a spoofed one | read face, admin service |
| Audit log (`internal/audit`) | hash-chained rows under the bucket's sequence | append, verify, page | both stores, admin service |
| Telegram client (`internal/telegram`) | which items have a card, reason prompts | poll four queues, post cards, act on taps and replies | admin API, Telegram's API |
| Admin API, CLI, configuration, provenance headers, telemetry | none that outlives a request | decoding, wiring, formatting, counting | everything |

What is hard here:

* **Handlers take no lock of their own.** Approve, reject, bypass and re-send run in
  their own goroutines and meet only in the store's transactions; a send takes
  seconds and lies between two of them.
* **A send whose outcome is unknown** may or may not have been delivered; a re-send
  after it may duplicate mail, and a crash in the middle of a re-send is the same
  case.
* **Two tiers of storage.** A record and its blob are not written atomically, and a
  rolled-back transaction hands the same id out again; an audit row follows the commit
  it reports.
* **The upstream mailbox moves.** Messages arrive and leave and the UID space may be
  replaced while pulls, reconcile passes, content fetches and label writes are
  half-way, each acting on what it read some steps earlier.
* **One mark for many changes.** A record has a single dirty flag for all its
  keywords, and several writers set, replicate and clear it.
* **Text that nobody read.** Six caps, a truncating endpoint and overlapping windows
  stand between a message and its assessment; whatever falls out must hold it.
* **A chat that remembers more than the client.** Cards outlive restarts, a post may
  succeed and be reported as failed, and a handler may strip a card the loop has not
  marked yet.
* **Configuration changes at a restart** while messages approved under the old one
  are still to be sent.

`PROJECT.json` lists these hazards with the line where each one bites.

## 2. Modules

| Module | Models | Composes |
|---|---|---|
| `Sluice` | the outbound store, one operator per transaction | - |
| `Outbound` | submission, bypass, approve, reject, re-send, sender, bounce, crash and reopening | `Sluice` |
| `DeliveryGate` | the abstract promise of the outbound path | implemented by `Outbound` (`GateSpec`) |
| `InboundStore` | the inbound store: records, dedup index, blobs | - |
| `InboundSync` | the upstream mailbox, pulls, reconcile passes with cap and release, content fetches, restart | `InboundStore` |
| `Labels` | keywords of a message: STORE, write-through, retry by syncs, validity stamps, the on-demand coordinator | - |
| `ReadFace` | IMAP sessions, on-demand bodies, bounce guard, assessment and filter gates, the operator's queue of held mail | - |
| `Screening` | the assessment of one message: score, extraction, detectors, classifier windows | - |
| `Telegram` | the poll loop, cards, prompts and handlers of the approval client | - |
| `AuditLog` | the hash chain, appends after commits, damage, `Verify` | - |
| `AuditList` | paged listing of the log over the admin API | `AuditLog` |
| `OutboundProofs`, `OutboundSafety` | theorems about `Outbound` | `OutboundSafety` extends `OutboundProofs` |
| `InboundProofs`, `ReadFaceProofs`, `ScreeningProofs`, `LabelsProofs`, `TelegramProofs`, `AuditProofs` | theorems | the module each is named after (`InboundProofs`: `InboundSync`; `AuditProofs`: `AuditList`) |
| `MC*` | the sets and symmetries of the TLC instances | |

Definitions whose name begins with `Mut` are faulty variants of the definition they
precede: replacing it by one makes a property of the run fail, which shows that the
property can fail.

### Outbound

A handler is a thread record `thr[t]`: its program counter, operation, message id
and the values it read earlier and uses later (`as`, `ack`, `via`, `res`). Every step
is one store transaction, one upstream send or one bounce delivery; between steps any
other thread may run and the process may stop. `BeginApprove`, `Decide`,
`ApproveVerdict` are `ApproveID`/`ApproveAs` up to the commit, `BypassVerdict` is
`SendOperatorIdentityBypass`, `BeginResend` and `Claim` are `ReSend`, and `Send`,
`Record` and `Bounce` are the common tail. `Crash` drops every thread; `Open`,
`Reconcile` and `Serve` are `newBbolt` with its sweep and its claim reconciliation,
under a configuration that may differ from the previous one.

The body of a message is the submission it came from. `SendErr` is `none`, `failed`
or `unknown`: the code tells texts apart only by emptiness and by the unknown prefix.
`copies`, `vias` and `acks` are history variables: what the upstream accepted,
through which inbox, and how often the operator acknowledged an unknown outcome.
The audit rows these transactions leave are `AuditLog`; the sender is reduced to the
outcomes its caller distinguishes.

### InboundSync

The environment actions `Arrive`, `Depart` and `Reset` are the provider's mailbox
and its UIDVALIDITY. A pull is `SyncSelect` (SELECT), `SyncLoad` (cursor and FETCH),
one `SyncStore` per message, `SyncSave`. A pass is `CheckLatch`, `LoadHorizon`,
`ListUpstream`, `ListStore` (selection and safety cap), then `Hold` or one `Retract`
per candidate, with the blob deleted in a step of its own; an operator's release is
`ReleaseBegin` and `ReleaseClear` before the same pass without the cap. A read of a
pending message is `FetchBegin`, `FetchBody`, then `FetchFill` or `FetchDrop`.
Failures are one action per actor (`SyncFails`, `PassFails`, `FetchFails`) and
`Restart`, which drops every actor and sweeps orphan blobs.

A message is its `(UIDVALIDITY, UID)`. `Eager` says whether an assessment hook stores
the body with the pull; `RecentOnly` and `OldUids` stand for the recency cutoff; the
cap is the floor `CapFloor` with the fraction `CapNum/CapDen`.

### Labels

One record, and the message its UID names under every validity of the mailbox: this
one, another, or none. The writers are the sessions of the read face (`Store`, computed
from the session's snapshot), the poll loop and the on-demand coordinator (`Trigger`,
`Completed`, `BackoffWindow`). A write is `Get`, then `Identify` and `Stamp` for a record
of unknown validity (`stampForWrite`), `SelectMailbox` with its validity check, `StoreAdd`,
`StoreRemove` and `Clear`; the Gmail session and the plain one take the same steps. A
sync is `Pull`, `ListDirty`, the write, `EndSync`. The environment resets the mailbox, and
any upstream step may fail.

`exposed` is a history variable that only a `Store` adds to, by what the STORE itself
finds (`Exposes`): the keywords it keeps while an earlier change is still marked, those it
puts back from a stale snapshot, and those it adds while another write of the message is
under way. A keyword leaves it when it is removed, or when it is upstream and the last
write under way ends (`Rest`). No write, failure or clearing of the mark adds to it, so
that a clearing that should not have happened is not excused. The `\Seen` flag is local
and left out. Time is left out too: a window elapses and a deadline passes at any moment.

### ReadFace

A session lists the records (`Select`), judges them one by one (`Judge`, or
`JudgeFetches` when the guard needs a body that is not stored yet) and keeps that
snapshot as its `view`; every later `Read` decides on the snapshot and on a fresh
record, as `rawResolver` does. A fetch ends as `FetchFills`, `FetchFails` or
`FetchGone`. The operator works on cards (`ShowHeld`) that may be stale when
`DecideHeld` runs, and `Arrive`, `RuleShifts`, `Retract` and `Restart` change the
store, the rules and the configuration in between.

Of a message the model keeps its `kind`, which is what the guard tells apart (a signed
bounce of Darbaan's own, an unsigned one recognised by its sender or by its body, or
plain mail), whether its body is stored, its assessment, the operator's decision and
the action of the rule that matches it now. The outcome of an assessment is a
nondeterministic choice here; how it comes about is `Screening`. `out` is the message
whose body the last step served. One owner, with the guard configured.

### Screening

One run of `screener.Screen`. `Cheap` is the score of sender and recipient, which may gate
the message before anything is read. `Walk` visits the MIME parts in order under the caps
on depth, parts, part text, total text and attachment bytes, keeping distinct texts; an
undecodable structure ends in `not_cleared`. `Patterns` is the heuristic detector, any set
of its factors. The classifier then works source by source, body and attachments: `Cut` is
`splitWindows`, `CutDone` the window limit, `Ask` counts and makes the call for a window
if the cap allows it, and the call is `Answered` with any set of labels, `Truncated` and
the window split, or fails (`ClassifyFails`, `OutOfCalls`). `SourceDone` turns labels into
factors and `Composed` is the score, with a message read in part held whatever it scores.

A text is its identity and its length. `read` and `flagged` are history variables: the
windows the endpoint read whole, and every factor anyone named.

### Telegram

An item is an entry of one of the four queues (pending, failed, held, suspended). The
loop lists a queue, prunes its de-duplication set, and posts what is new, with the post
(`Notify`) and the mark (`Mark`) as separate steps; `PollFailed` works on the listing that
`PollQueue` took before it posted, as the code does. A tap or a reply starts a handler:
`Guard` is the fresh lookup, `Call` the admin call, `Edit`, `Confirm`, `SendPrompt`,
`Remember` and `Forget` what it does to the chat and to the shared sets. A failed call may
have acted. The service behind the API is what one call makes of an item's state;
`Settle` ends a send.

`lost` is a history variable that names the items the code is known to strand (section
6); `told` the suspended inboxes the operator was alerted of.

### AuditLog and AuditList

A transition commits in a message store and its handler then appends the row; the append
may fail, and the process may stop in between. A row's hash is the tuple of what it binds,
so that it is injective, as SHA-256 is taken to be. `Lose` and `Alter` are damage to the
file: a row disappears, one of its fields changes (`Altered`: content, Seq, link or hash),
or its content changes and its hash is recomputed to fit (`Forged`). The chain has no key,
so a forged last row, and a forged suffix with every link recomputed, cannot be told from
an honest one: they are left out, as is a row that no longer decodes, which fails every
append, page and `Verify`. `AuditList` adds a client that walks the log in calls, and a
call that scans in batches of one short transaction each, with a filter. A batch lists
keys in bucket order, by their rank (`InOrder`), and `Kept` are those the filter lets
through; the position moves by the Seq that a row holds, as the code does, and not by its
key.

## 3. Runs

| Run | Question | Bounds, and why they are enough |
|---|---|---|
| `outbound_core` | Can a message leave unreleased, by the wrong inbox, twice unacknowledged; can a verdict change, a bounce lie, a record lose its body? Does `Outbound` implement `DeliveryGate`? | One message, two handlers, one crash, three copies, three configurations, failures of transactions, body reads and bounces. Handlers of different messages share nothing, so one message shows every conflict; two handlers give every pairwise race; a copy more than two needs an acknowledged re-send of a re-send. |
| `outbound_live` | Are claims always released and approvals concluded? | As above without I/O failures, so that only a crash interrupts; two copies. |
| `inbound_store` | Do reads, retractions, a release and a bounce keep records and blobs together, obey the latch, and retract only what left? | Two UIDs in one UID space, a pull, two readers, the loop, one release, one bounce, one failure or restart, a cap that two candidates reach. |
| `inbound_reset` | Does a mailbox reset lose mail when bodies come with the pull? | Two UID spaces of two UIDs, a pull, the loop, a cutoff that excludes one UID, one failure. |
| `inbound_live` | Do overlapping pulls lose or double mail; is mail that stays stored, and mail that left retracted? | Two pulls and the loop over two UIDs, no failures, no cap. |
| `readface` | Is a body served that the guard or an assessment holds; does the operator's queue show what the sessions hide? | One message and one session, every kind, rule and disposition, any number of restarts with another configuration. Messages meet only in the order of the SELECT loop, which no gate reads. A second session breaks `ServedOnlyCleared`: see section 6. |
| `screening` | Can a message pass that was not read whole, or that something flagged; does the assessment end? | Bodies of every length up to and past the part cap with windows of 6 and overlaps of 2, pairs of parts equal or not, and one message for every way the extraction loses text; call caps small enough to be reached, also by a window that splits into itself. |
| `telegram` | Is every waiting decision offered, is what was decided forgotten, can a stale card reverse a decision? | One item, which may be of any queue and pass from one to the next, one handler against the loop, the command line and the service, three cards, one failed call or restart. Items share nothing but the order of the loop. |
| `labels` | Can a write label another message; is an unreplicated keyword remembered, and does it arrive; does a flight end? | One keyword, one session, both starters of a sync, two validities with every assignment of the UID, three STOREs, one failure. Three STOREs (add, remove, add again) are what a late clearing of the mark needs to lose a keyword. |
| `audit` | Does `Verify` tell damaged logs from whole ones; can a row report what did not happen; do pages skip or repeat? | Four transitions, two of which the filter keeps, batches of two, limits of one and two, one damaged row anywhere and in any field. `MaxGot` stops a walk that a damaged Seq sends back to rows it has. |
| `inbound_reset_lazy`, `labels_forgotten` | end in a counterexample: section 6 | the smallest instance that shows it |

Larger instances were checked once and are not kept as runs, for their time: `Telegram`
with two handlers and no fault, `AuditLog` with three damaged rows, and the inductive
invariants of section 4 on instances of their own, among them `FaceInv` with two sessions,
`TInv` with two handlers, and `MemInv` of `LabelsProofs` with two sessions and four
STOREs, with two keywords and three STOREs, and with both and no failure. On these,
leaving out any one of the three causes of `exposed` makes `Remembered` fail; two of them
need two keywords, and the stale snapshot needs two sessions as well.

The properties are stated in the modules with a comment each. The ones a reader
should know first: `DuplicatesAcknowledged` (a further copy only after a further
acknowledgement), `HeldUntilReleased` (default deny), `DeliveredAsApproved` (the
approved inbox, also after a restart with another configuration), `NoLostMail` (what
the cursor has passed and is still upstream is in the store), `RetractsOnlyDeparted`
(nothing that is still upstream is deleted), `HandledIsRead` (what the agent gets, the
classifier read), `OwnMailOnly` (no label on another message) and `VerifyExact`.
`Outbound`, `InboundSync`, `ReadFace` and `Telegram` state a `TypeOK` that no run lists and
section 4 proves.

Deadlock is checked in every run except `screening`, where an assessment ends, and
`audit`, where the bounded transitions and walks do. Every bound is a named constant.

**Fairness.** `outbound_live` assumes weak fairness of each handler's steps (a started
handler runs on; the send has the overall deadline `sendTimeout`) and of recovery (a
supervisor restarts a stopped process). `inbound_live` assumes weak fairness of the pull
and of the pass: the loops tick for ever, and the provider answers or the connection
breaks. `labels` assumes of the code only that the poll loop ticks, that an on-demand pull
ends by its deadline, and that steps which do not wait for the provider are taken
(`Fairness`). A label session and the poll loop's own pull have no deadline (`Waits`), so
nothing is assumed of them: `FlightEnds` says what happens if the provider never answers,
and `Arrives` has the provider's answering as its hypothesis (`Answered`). `screening`
assumes that the assessment runs on, which its context's deadline guarantees. `telegram`
assumes that the loop ticks, that handlers run on and that a send ends. `audit` assumes
that an open call scans on. No fairness is assumed of operators, agents, STATUS commands
or arrivals.

## 4. Proofs

All theorems hold for any sets and bounds that satisfy the modules' named assumptions.

**`OutboundProofs`** (from `SluiceAssumption`, `OutboundAssumption`): `TypeCorrect`,
`SendsExclusive` (`[]OneSendInFlight`), `NoSilentDuplicate` (`[]DuplicatesAcknowledged`)
and `ImplementsGate` (`Spec => GateSpec`). The inductive invariant is
`IInv == TypeOK /\ StoreInv /\ ThreadInv /\ OneSendInFlight /\ Budget`:

* `StoreInv`: ids above the sequence are unused, and a claim sits only on an approved
  record with a failure.
* `ThreadInv`: a thread that sends owns its record. A first send owns an approved
  record without a recorded outcome, a re-send one that carries a claim. The two
  cannot hold of one record, a verdict is given only once and a claim only on an
  unclaimed record: this is why sends exclude each other.
* `Budget`: while a record shows a plain failure, and while a thread is about to
  send, there is room for one more copy (`copies <= acks`). An unknown outcome may
  have used that room, and the claim that leaves it adds an acknowledgement. A crash
  in the middle of a re-send turns the claim into an unknown outcome, which keeps the
  bound.

Each action has one lemma that it preserves `IInv`; the actions that only move a
thread share `QuietStep`, those that write one record share `QuietPut`. The refinement
maps the record's status to the verdict, and needs `IInv` for the guards of `Deliver`
(released, and room in the budget) and `Acknowledge`.

**`OutboundSafety`** (the same assumptions): `DefaultDeny` (`[]HeldUntilReleased`),
`InboxAsApproved` (`[]DeliveredAsApproved`), `ContentIntact` (`[]ContentMatchesRecord`),
`ClaimsHeld` (`[]ClaimHeld`), and the action properties `FinalStays` (`VerdictIsFinal`)
and `BouncesReportFailure` (`BounceReportsFailure`). The argument is in two halves. First,
under `IInv`, every step lets the state evolve only in a few named ways (`Evolves`): a
record goes from nothing to pending, from pending to a verdict, and after its approval
changes in outcome and claim only; a body is the one it was or the one it came with; a
delivery is made by a handler at its send. Then `SInv` is kept by anything that evolves
so, without looking at the actions again. `SInv` needs two facts about handlers that no
run states: the inbox a handler carries to its send is still the one approved
(`InboxCarried`), although it was read some transactions earlier, and a bypass handler's
message has operators as its only recipients (`BypassOwn`).

**`InboundProofs`** (from `InboundStoreAssumption`, `InboundSyncAssumption`):
`InboundTypeCorrect`, `Deduplicated` (`[]NoDuplicates`), `BodiesBacked`
(`[]ContentBacked`), `CapLatches` (`[]LatchHolds`); where `Stable` holds, `NothingLost`
(`[]NoLostMail`) and `OnlyDepartedRetracted` (`RetractsOnlyDeparted`); and where
`FreshListing` always holds, `NothingLostFresh` (`[]NoLostMail`) and
`NothingLiveRetracted`. `IInv` says of the store that the index holds exactly the keys of
the synced records and that ids are never reused (`StoreInv`); of the mailbox that a UID
once assigned is present or has left, and that no actor knows more than the mailbox has
(`SpaceInv`, `PullOK`); of a pass that what its listing misses has left and that the blob
it still has to delete belongs to no record (`PassOK`); of a fetch that its id still names
the message it read, or nothing (`FetchOK`). `LInv` adds that the candidates of a pass
have left upstream or are of a superseded UID space (`GoneDeparted`) and that a pull in
flight has stored or still has to store whatever its cursor will pass (`PullCovers`).
`Stable` is `Eager \/ MaxValidity = 1`: bodies come with the pull, or the UID space is not
reset. For a lazy store under resets the hypothesis is `FreshListing`: while a pass is
between its listing of the upstream and its listing of the store, the store holds no mail
of a newer UID space than the one listed. One of the two is needed: `inbound_reset_lazy`
is the counterexample without them, and `NothingLostFresh` shows that this window is the
only way a reconcile pass loses mail. `FreshListing` does not give `RetractsOnlyDeparted`,
because a fetch may fill a record that a pass has selected (section 6);
`NothingLiveRetracted` is what remains of it: never a bounce and never a message still
upstream.

**`ReadFaceProofs`** (from `ReadFaceAssumption`): `FaceTypeCorrect`, `QueueCoversHidden`
(`HeldIsQueued`), `ServedCleared` and `ServedClearedAlone` (`[]ServedOnlyCleared`).
`FaceInv` says that what a session has listed was alive and that a body once stored is not
pending again; with it, the guard's verdict at SELECT and the queue's verdict on the same
record agree, for any number of sessions. `ServeInv` adds that an assessment is made once
(`AssessedOnce`). That is where two sessions that fetch one pending message at the same
time break the property (section 6), and `NoOverlap`, the hypothesis of `ServedCleared`,
excludes exactly these; with one session it holds by itself.

**`ScreeningProofs`** (from `ScreeningAssumption`): `TypeTheorem`, `FlagsTheorem` and
`ReadTheorem`. `FlagInv` says that what was flagged is in `found` or in the labels of the
source being read. `KeptInv` says that unless the extraction reports a loss, every part
visited is kept whole. `CoverInv` says that every phrase within reach lies in a window
read, a window waiting, or in what is still to be cut; its two arithmetic facts are
that consecutive windows overlap enough and, lemma `HalvesCover`, that a phrase of at
most `Reach` runes lies whole in one of the halves of its window.

**`LabelsProofs`** (from `LabelsAssumption`): `TypeTheorem`, `OwnMailTheorem`,
`ValidityTheorem` and `MemoryTheorem` (`[]Remembered`), all for any number of sessions.
The invariant `OwnInv` adds to the first three properties that a running write's
established validity is one under which the UID is the record's own; the lemma
`BackoffBounds` bounds the window. `MemInv` adds to `Remembered` what the writes under way
will still do to a keyword of the record that is not exposed: each of them has it to send,
unless it is upstream (`Sends`), so that none clears the mark without it, and none is to
take it off (`Takes`). A STORE breaks these for exactly the keywords it exposes, and no
other step does.

**`TelegramProofs`** (from `TelegramAssumption`): `ClientTypeCorrect` and
`HoldDecisionStands` (`DecisionStands`), for any number of handlers. `TInv` says that a
decided item stays decided, so that a handler whose tap came late and whose lookup
succeeded finds it decided and never calls; only a failed lookup gets past it, which the
property excepts and section 6 reports.

**`AuditProofs`** (from `AuditAssumption`, `ListAssumption`): `VerifyTheorem`,
`NoPhantomTheorem`, `TypeTheorem` and `ListingLeavesLog`. `ChainInv` says that rows were
issued once under consecutive keys (`Issued`), that of a row on disk the link is as written
or bad, and so is the hash of the last one (`OnDisk`), and that each row written is linked
to the one before it if that one is still there, or to a bad hash where that row's hash
had been damaged (`Linked`): lost rows never come back, and neither does a damaged hash.
`Verify` then fixes the rows from the end: the last hash is the written one, every other
is what the next row was linked to, and a hash binds content, Seq and link; a lost tail
is caught because the sequence survives it.
`ListingLeavesLog` shows that the specification with listing clients implements the one
without.

`PagesTheorem` (`[]PagesExact`) shows that the pages of a walk hold together exactly the
rows the filter keeps, each once and in order, for every undamaged log, filter, batch size
and limit. Its invariant `WalkInv` says, of an undamaged log, that the keys are
`1..sequence` and the Seq of each row, and that what the walk has collected, with what the
open call has found, is the listing of the kept keys up to the call's position. It rests
on lemmas about listings: a finite set of numbers has exactly one increasing listing,
`InOrder` is that one, and listings of adjacent ranges concatenate. What would be an
induction over the set is an argument from the least counterexample (`WFMin` of the
natural numbers), which needs no operator parameter.

Every safety property that a run expects to hold is a theorem. Liveness (`ClaimReleased`,
`ApprovalConcludes`, `EventuallyStored`, `EventuallyRetracted`, `Offered`, `Forgets`,
`Arrives`, `FlightEnds`, `Ends`, `CallEnds`) is outside the prover's reach and is
model-checked only. The theorems of three properties have a hypothesis that the code does
not enforce: `NoLostMail` and `RetractsOnlyDeparted` (`Stable`, or `FreshListing` for the
first) and `ServedOnlyCleared` (`NoOverlap`, or one session). Without them TLC finds the
property violated, and each one names the interleaving in which the code does not keep it.

## 5. What is not modelled

* Text and formats: message headers, SMTP, IMAP and Telegram dialogues, DKIM
  signatures, bounce bodies, the regular expressions of the pattern detector, MIME
  decoding, the placeholders for URLs, and the matching of filter rules. These are
  string processing without state.
* Configuration parsing, provenance headers, the admin API's request decoding and
  tokens, telemetry: they run before, around or beside the state that is modelled.
* Of modelled components: seen flags, the owners of a shared inbox, the one-time re-key
  of old records, the fetch of a record of unknown validity, and in Telegram the
  refused taps of others, the full-text button and the loading of identities.

## 6. Where the code and its documentation disagree

Two counterexamples are runs:

* `inbound_reset_lazy`. A pass lists the upstream, the mailbox is reset, a pull stores
  the headers of the new mailbox and saves its cursor, and the pass, reading the store
  now, takes every pending record of the newer validity for a superseded orphan.
* `labels_forgotten`. A STORE of one keyword fails upstream and leaves the record dirty;
  a STORE of another succeeds, replicates only its own delta, and clears the mark of the
  whole record. The first keyword is never replicated. `NothingForgotten` fails in two
  other ways too. The loop's retry may clear the mark late (`imapsync.go:664`): while it is
  between its write and the clearing, a session removes the keyword, replicates that, and
  adds it again, its own write fails, and the late clearing takes the mark that was to
  repeat it. And a session with a stale snapshot puts a keyword back that another has
  removed: it is not in the delta, so it is not sent, and the success of the write clears
  the mark. `Remembered` and `Arrives` except the keywords of these three cases, which
  `exposed` names when the STORE is made, and show that there is no fourth.

Others were met while modelling and have no run:

* The comment at `cmd/darbaan/main.go:1036` says of an on-demand pull that a "bounded context
  lets Sync's cancellation close the client and unblock a hung command", "which clears the
  flag so the next STATUS recovers". That holds for the pull itself. The retry of label
  writes at its end (`imapsync.go:199`) opens sessions without that context and without a
  deadline: an upstream that hangs there keeps the flag, and on-demand sync is off for the
  inbox as long as it hangs. `FlightEnds` excepts this phase by name (`Waits`); without the
  exception it fails under the fairness the code justifies.
* ADR 0039 (line 89) aims to "never present a possibly-delivered message as a plain
  failure". `RecordSendAttempt` overwrites an unknown outcome with the plain failure of
  a later, acknowledged re-send; the next re-send then needs no acknowledgement, and a
  permanent failure bounces. `DuplicatesAcknowledged` still holds, because the
  acknowledgement was given once for that copy.
* If recording the outcome of a bypass fails, the error is logged and the message stays
  approved with an empty send error: neither pending nor re-sendable, although the
  comment at `cmd/darbaan/main.go:322` says it stays one of the two.
* A reconcile pass selects a pending record of a superseded UID space; a content fetch
  that was already past the upstream session stores its body; the pass removes the
  record, now readable, by id. The comment at `imapsync/reconcile.go:223` calls that a
  hard loss to be prevented.
* ADR 0021 (line 121) says the content of a rejected message is "never served to the
  agent again". The serve path takes the tombstone from the snapshot of SELECT and looks
  at the fresh record only for assessment holds and spoofs: a message that a rule holds
  after SELECT, and that the operator then rejects, is served to the session that listed
  it before.

Weaknesses without a promise in the documentation:

* With two sessions a removal of a keyword that is on its way upstream may take off what
  the other session has just added and replicated, with no mark left; such a keyword was
  added while another write was under way, and counts as exposed.
* A listing of the audit log moves by the Seq each row holds. If that was damaged to less
  than the row's key the cursor goes back, and a call whose batch ends there with no match
  repeats it for ever; `CallEnds` excepts such a log, which `Verify` reports. A Seq of
  2^64 - 1 would wrap around in the same way and is not in the model.
* Two sessions that fetch the same body, stored as pending before assessment was turned
  on, both assess it, and the later `SetContentAssessed` replaces a hold of the earlier.
* The operator's queue judges spoofs from stored bodies only, so that a suspect whose
  body was never stored is hidden from the agent and absent from the queue;
  `HeldIsQueued` exempts it by name.
* The Telegram client strands an undecided item until a restart when a verdict's call
  fails after the card was taken, when a reason prompt expires, when a latch is released
  and returns within one poll, and when a re-send ends between a card's post and its
  mark. `Offered` excepts these by the variable `lost`, and shows that there are no
  others. When the lookup of `guardHeld` fails, a stale card can reverse a hold decision.
* After a split the classifier's windows overlap by half the configured amount only, and
  a window little longer than the smallest may be split into itself; the cap on calls
  ends that, and the message is held.

## 7. Plan

What would extend the project, in this order:

1. `ReadFace` with owners, seen flags and the conflict of two assessments of one message.
2. Records of unknown validity in `InboundSync`: their fetch, and the dedup index after a
   stamp.
3. The filter's first match as an operator against a reference definition.
4. The safety facts that `Forgets` and `Offered` of `Telegram` rest on, as theorems.
