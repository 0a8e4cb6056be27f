# Postbode in TLA+

Postbode is a daemon that watches a Gmail mailbox for invoices, spools their
documents, puts each before a human in a local review UI, and uploads what the
human approves to the ClearFacts portal. This directory holds TLA+ models of
it, the TLC configurations that check them, and TLAPS proofs about the review
queue, the uploads, the poll, the daemon's loop, reconnecting Gmail, the
ClearFacts client, the identity keys, the configuration and start-up.
Paths below are relative to `src/`; F-, L-, G- and AC- numbers are those of `docs/specs/postbode-gmail-invoice-agent.spec.md` and
`docs/specs/resilient-poll-failure-budget.spec.md`.

`PROJECT.json` lists the components, the runs, a plausible bug (a "slip") that
breaks each property, the source lines each definition stands for, the
findings, the hazards and the theorems.

## 1. The system

Everything shares one SQLite database through one connection; each exported
method of `*queue.DB` is one transaction. `daemon.Run` is one goroutine that
alternates polls and uploads; the review UI serves HTTP on other goroutines of
the same process; `postbode retry` and friends are other processes on the same
file.

| part | state | operations | hard behaviour | what makes it correct |
|---|---|---|---|---|
| review queue `internal/queue` item, lifecycle | `item`, `vendor_teaching`, `item_transition` | `StageItem`, `Approve`, `Reject`, `MarkAlreadyInPortalWithTeaching`, `OverridePeppolSuppression`, `MarkUploaded`, `MarkFailed` | copies, identity matches, suppression and overrides in any order | one active item per bytes; nothing uploaded without consent; rejection memory; a complete log |
| claims `internal/queue/claim.go` | `claimed_at`, `next_retry_at`, `retry_count`, `first_failed_at` | `ClaimApprovedDue`, `ReleaseStaleClaims`, `RecordUploadRetry` | a crash with a claim; two daemons | a claim excludes others, and never strands an item |
| message tables `message.go`, `message_failure.go` | `message`, `message_failure` | `RecordMessageIfNew`, `RecordMessageFailure`, `DueRetries`, `RecordRetryAttempt`, `Unpark`, `UnparkAll` | park, cool-down, manual retry, failing again | a park is bounded and is lifted only when resolved |
| `sync_state` | history id, stall counter, re-auth flag, label id, in one row | `SaveSyncState`, `RecordPollFailure`, `ResolveAndPersistSubmittedLabel`, `handleReauth` | several steps of the loop read the row, then write it whole; a marker is written apart from the notice it stands for | markers match the notices; no lost label id |
| Gmail watcher `internal/gmailwatch` | the cycle in progress | `Poll`: history or fallback listing, retries, one message, baseline | messages that vanish, fail for ever, or arrive during a cycle | G-1: nothing is passed by unaccounted for; the history id gets past every message |
| extraction `internal/extract` | the spool directory | `ExtractMessage`, `PruneSpool` | crash between record and staging; one file for several items | no document lost; the file of a pending item is there |
| uploader `internal/uploader` | the item in hand | `RunBatch`, `processItem`, `maybeApplyLabel` | an accepted upload whose answer is lost; label decided and applied apart | G-2: no silent duplicates; labels tell the truth |
| ClearFacts client `internal/clearfacts` | rate limiter, token | `UploadFile`, `Document`, `Backoff`, `Classify` | timeouts, 429/5xx, answers cut off or without a document; pacing under concurrency; every error path has a slot to give back | starts are spaced; what is reported uploaded is filed; nothing but ClearFacts holds a caller up |
| daemon loop `internal/daemon` | tickers, nudge channel | `Run`, `RunIteration`, `drainUploads`, `OnApprove` | dropped nudges, label not resolved yet, cycles that end in different ways | no approval waits unseen; no upload without the label id |
| review UI `internal/webui` | approve-all's list | handlers | stale lists | guards repeated on each path; an approval is followed by a nudge |
| reconnecting Gmail `internal/webui/gmail_auth.go`, `gmailwatch/token_source.go`, `cmd/postbode/daemon.go`, keychain | the awaited attempt, its generation, the live token source, the stored token | `handleGmailAuthStart`, `handleGmailAuthCallback`, `installGmailToken`, `Replace`, `buildGmailService` | consents that overtake one another, a save that fails after it took effect, a keychain that cannot be read | the newest consent wins; stored and live credentials agree |
| start-up `cmd/postbode`, `internal/queue/db.go`, `webui/token.go` | schema, `schema_migrations`, `session.token`, the port | `queue.Open`, `LoadOrCreateToken`, `Listen` | several processes at once, of several binaries; a crash in a migration or in a file write | the schema is whole; the review URL is let in; the daemon comes up |
| configuration and rules `internal/config`, `internal/rules`, `gmailwatch/watchscope.go` | none | `Load`, `Evaluate`, `inScope` | one defect anywhere in the file; the order of rules | the rules in force are the rules written |
| dedup identity `internal/dedup` | none | `ParseIdentity`, `MatchesKnownPeppol` | many writings of one invoice, many readings of one text | one invoice, one key |
| MIME, file names | none | pure functions | boundaries | not modelled |
| CLI, notification texts, log rotation, launchd | none of their own | read-only or best effort | - | not modelled |

How they interact: the watcher calls extraction for each message; extraction
asks the rules engine (the `Gate`) about each document and stages the rest; the
UI moves staged items; the uploader claims approved ones, sends the spooled
file, records the outcome and, when all items of a message are uploaded, labels
the message in Gmail.

## 2. Modules

| module | models | composed with |
|---|---|---|
| `Ledger` | abstract: what the queue promises about a document's bytes: consent, delivery, filing | - |
| `Queue` | `internal/queue` items and lifecycle, `schema.go`'s partial unique index, the guards of the UI handlers | implements `Ledger` |
| `QueueProofs` | theorems about `Queue` | extends `Queue`, `TLAPS` |
| `Uploader` | claims, `processItem`, retry policy, label, crashes and restarts, time | extends `Queue` |
| `UploaderProofs` | theorems about `Uploader` | extends `Uploader`, `QueueProofs` |
| `Intake` | mailbox, poll cycle, failure budget and park, extraction step by step, spool, `postbode retry` | extends `Queue` |
| `IntakeProofs` | theorems about `Intake` | extends `Intake`, `QueueProofs` |
| `Consent` | two and more consents in the browser, token exchange, installation under the lock, keychain and running client, crash and start | - |
| `ConsentProofs` | theorems about `Consent` | extends `Consent`, `TLAPS` |
| `Daemon` | the daemon's loop, the stall, re-auth and label parts of `sync_state`, nudges and approve-all | extends `Consent` |
| `DaemonProofs` | theorems about `Daemon` | extends `Daemon`, `ConsentProofs` |
| `Client` | calls of the ClearFacts client: rate limiter, token, request, answer, verdict; a graceful stop | - |
| `ClientProofs` | theorems about `Client` | extends `Client`, `TLAPS` |
| `Identity` | the L3 identity key and the known-Peppol match, as functions | - |
| `Invoices` | the invoices behind the documents, what their texts state, and the keys of their items | extends `Queue`, `Identity` |
| `IdentityProofs` | theorems about `Identity` and `Invoices` | extends `Invoices`, `QueueProofs` |
| `Settings` | `config.yaml` to settings, and settings to the verdict on a document, as functions | - |
| `Reading` | abstract: what a reader of `config.yaml` takes it to ask for, and whether it has a defect; no decoder | extends `Settings` |
| `Startup` | processes that start on one home directory: configuration, migrations, token, port | extends `Reading` |
| `StartupProofs` | theorems about `Settings`, measured by `Reading`, and about `Startup` | extends `Startup`, `TLAPS` |
| `MCQueue`, `MCUploader`, `MCIntake`, `MCDaemon`, `MCClient`, `MCStartup` | the small instances TLC checks | |

**Queue.** `row` is the sequence of inserted `item` rows (ids are positions, the
table is AUTOINCREMENT and nothing deletes), `status` the one column the
lifecycle updates, `teaching` the keys of `vendor_teaching`, `log` the rows
of `item_transition`. `VendorOf` is the sender's domain as staging reads it,
`TaughtOf` as the review UI does, with another function; a mark teaches the
latter, or a key of the item's own (`ItemKey`) when the UI finds no domain or no
message. `StageItem` is `DB.StageItem` whole: rejection memory
(F-44), Peppol suppression, L2, L3, L4, the insert and its log row. `Move` is
`DB.transition` with the index. `manual` stands for the two flags
(`needs_manual_handling`, `unsupported_type`) that the approve handlers refuse.
`log` is a set: the lifecycle has no cycles, so no row can repeat.

**Uploader.** A process is one daemon. `pc` is its place in `processItem`; each
database write and each external call is a step of its own, and `Crash` may come
between any two. ClearFacts files the document (`PortalAccepts`) apart from its
answer, which may be an error although it filed it. Timestamps are ages:
`Tick` advances them and they stop where the code's comparisons stop telling
them apart. `doubt`, `stolen` and `crossed` are history variables that say what
is excused: outcomes the program never saw, items taken from the live process
that was uploading them (its claim released as stale, or the item given up late
by another daemon), and messages on which a second daemon came between the
decision to label and its record. The doubling of `Backoff` is a recursive
function (`Doubled`), and so is the sum of the delays (`Schedule`).
The poll happens only while a process is idle, as in the single goroutine.
`AnswerError`'s kinds are the two the uploader distinguishes; how the client
arrives at them is `Client`. `unlabeled` names the messages whose label call has
failed.

**Intake.** The history id of a message is its place in `mailbox`. `phase` is the
place in `Poll`; `admitting` is the loop over due retries, `next` the loop over
ids, `spooled` and `staging` the two later stages of `ExtractMessage`, and
`charging` the point between the read and the write of
`RecordMessageFailure`. `slipped`, `torn` and `recurred` are history variables
naming the cases a property excuses; each of these excuses has a run that shows
it (see findings). `beyond` is another: mail that no history listing had passed when
a fallback ran and that was outside of its query, because it was older than the
window or had neither an attachment nor a keyword. `fallback.go:15-18` calls that
bound load-bearing, so it is an exception to G-1 by design. A fallback leaves
out any set of messages, and whatever one left out the next one leaves out too. `recurred` holds the bytes that were spooled twice: again for an item
that has them, or by one message that carries them twice. Abstractions: the due retries come in any order; a message out of scope is
treated as one that is gone, which is what `poll.go` does with it; `FailedIDs`
is not a snapshot, because only the poll adds or deletes failure rows; the
read and the write of `RecordRetryAttempt` are one step, because a manual retry
in between is overwritten exactly as one just before would be. `Without` is the
listing without some ids, in its order: the enumeration of the ids left that
keeps it, which says the same as filtering and can be reasoned about.

**Consent.** A token is named by the consent that obtained it; `Original` is the
one in the cache file on disk. `genOf` is the generation an attempt took when it
started, `lock` is `GmailAuth.mu` while `Install` holds it, and between
`SaveGmailToken` and `Replace` the keychain and the client differ. The exchange
runs without the lock, so any number of handlers may be in it. `unsure` is a
history variable: a save that failed may have stored the token, and a keychain
that cannot be read sends the daemon to the cache file.

**Daemon.** `loop` is the place of the one goroutine. A poll is here a run of
requests, each made with the token of the moment (`used`), that ends in
progress, in a counted failure, in a refused token or in a failure nobody
records; `snap` is the row as the poll read it, which the end of `Poll` writes
back. What the poll reads and stages is `Intake`, and an upload is `Uploader`:
here a drain looks at the approved items. `told`, `lost`, `barren` and `blind`
are history variables: the notices the human got in this episode, those that
were lost (`"uncounted"`: a failure that was not counted), the cycles in a row
without progress or any notice, and whether the last drain was cut short.
A crash (`Die`) also stands for a graceful stop, which leaves no more behind.

**Client.** A caller goes from `queued` (blocked on the semaphore) through
`admitted` and `spacing` (`acquire` before and in its wait) and `started` to a
request on the wire, and every way out is `Return`, which gives the slot back.
`sinceLast` is the age of `rateLimiter.last`, `startAge` the age of each
caller's last start, both capped at `MinInterval`. An `Answer` is a status, the
`errors` array, what arrives of the body and what `data` holds; `DecodeResponse`
turns it into the verdict the callers see. ClearFacts may file a document and
answer anything; it answers an upload with a file and no errors only if it has
filed it. `Stop` ends the context of all calls.

**Identity.** A text is the sequence of its words, of the kinds the regular
expressions tell apart; `Matches` keeps what `FindAllStringSubmatch` does with
two matches that share the character between them: of neighbours that fit, every
other one is a match. A From header is the address, how it is wrapped and whether
`mail.ParseAddress` takes it; `EmailAddress` falls back to the raw header when it
does not, and `PortalVendorDomain` is the review UI's own cut (`webui/view.go`). `Keywords`, `Dates`, `Months` and `Amounts` are the places
where one pattern fits; the other definitions stand for one function of
`identity.go` or `peppol.go` each. Characters are below the model: what makes a
word a date or an amount is its kind.

**Invoices.** The measure of a key is the invoice. `NumbersIn`, `DatesIn`,
`PeriodsIn` and `AmountsIn` are all that could be read from a text, wherever it
stands; the `Shows...` say that one of them is in sight, hidden by no neighbour of
its kind. `IsWriting` and `IsLowWriting` say when a file name and a subject are a
writing of an invoice: they state nothing but its number, date and total. `KeyOf` is
the identity that `ExtractMessage` stages a document with. A vendor has several
domains: a header that does not parse gives one of its own.

**Settings.** A YAML node is a scalar, a list or the pairs of a mapping. The
decoders are the functions of `config.go`, with their errors as `Invalid`; one
makes the whole file `Invalid`. Which texts convert, compile as a glob or
contain a phrase are constants, because those are `strconv`, `path.Match` and
`strings`. `Evaluate` and `InScope` are those of `rules.go` and `watchscope.go`
on the document that `processMessage` puts together, which has no body and no
List-Unsubscribe header. `Reading` reads the same file without decoding it:
`Verdict` and `BoundsAsWritten` off the YAML nodes, `SoundFile` for what a file
without a defect is.

**Startup.** `pc` is the place of a process in `runDaemon`, or in a command that
opens the database. `tx` is SQLite's one write transaction, `schema` what is
committed, `todo` the migrations a process found pending when it read
`schema_migrations`; `disk` is the token in `session.token` and `held` the one a
process works with. A process that ends, however it ends, leaves by `Exit`.
`apart` is a history variable: processes whose token may differ from the file's
because a person deleted the file, because two processes looked for a token while
one of them minted it, or because another process could not read the file and
minted over it (`GenerateTokenOverUnread`: to `LoadOrCreateToken` any error of
reading is a missing token). `config.yaml` may be any of its versions at any load.

## 3. Runs and bounds

| run | states | question |
|---|---|---|
| `MCQueue` | 1.25M | do the eight invariants of the queue hold, does it implement `Ledger`, and has each invoice of the corpus one identity key? |
| `MCUploader` | 946k, fair | do portal, Gmail and queue agree; does a claim exclude the other daemon; is the backoff served; does every approval conclude; are labels true, and does every message get one? |
| `MCIntake` | 1.2M, fair | is every message the cursor passed accounted for, but for the three exceptions; is the park bounded and lifted only when resolved; does the spool hold what is pending; does the cursor pass every message in the end? |
| `MCDaemon` | 2.4M | is every approval seen; do the stall and re-auth markers match the notices; is the label id known before an upload; do credentials agree and the newest consent win? |
| `MCClient` | 2k, fair | are any two starts spaced and slots given back; is what a call reports as uploaded filed; does a stop end every call; does every caller get its turn? |
| `MCStartup` | 441k, fair | is the schema whole, the token the right one, the configuration the one written; does launchd's daemon come up? |
| `MCStrandedClaim`, `MCFallbackRace`, `MCTornExtraction`, `MCSharedSpool`, `MCSilentStall`, `MCCutAnswer` | violated | the six findings below |

*Queue:* four items out of seven candidates over four messages (one without a
sender domain, one with a header that does not parse, whose domain staging and the
UI read differently), two documents that are copies of one invoice. That is enough for a chain of
an original, a copy, a suppressed copy and its override, for a rejection followed
by the same pair again, and for teaching followed by a badge. The theorems of
section 5 remove these bounds, those on invoices and writings too. The identity key of each
document is parsed from a writing of its invoice. The corpus has three invoices
- the second with day and month of the first swapped, the third with another
number and no cents - in every writing: four date styles, four to six of amounts,
two of the number, and four ways to divide them over file name and subject with
distracting words around. TLC checks that they are writings in the sense of
`Invoices` (`InvoicesAssumption`). They leave out a date or an amount right behind
an invoice keyword, which the code takes for the number (see "also met").
*Uploader:* ages `StaleAge = 2`, `GiveUpAfter = 3`, backoff 1 then 2 (base,
doubling and cap all occur), two copies of a document told apart. One fault is
enough for each of: a crash at any point, a failed write at any point, an answer
without a uuid; two are allowed with two daemons, where a takeover needs one of
them. Two daemons get one item, because what they contend for is one claim.
`MCUploader` restricts `Next` by `Bound`: two daemons meet two items only without
faults and in the two orders in which they can get in each other's way - a copy
of an item that the other has given up, and a second document of a message whose
first one is done; with a second item otherwise there is one daemon and one fault.
The theorems have no such bound. Fairness is stated of the steps within the bound, so that
it does not ask for a step the bound forbids.
*Intake:* two messages, one with two documents, the other bringing the first of
them again; a rule that refuses the copy; a human who may reject the first item;
a failure budget of 2 and one automatic attempt, so that counting, parking,
waiting and exhaustion are all different states; one manual retry; one fault.
Six items leave room for forced re-extractions. `MaxItems` disables staging when
reached; no property depends on what then stops. A fallback may leave out any
messages; `Bound` has nobody reject an item or call `postbode retry` in behaviours
in which one left out a message that had not been passed. The theorems have no such
bound.
*Daemon:* two consents, so that one can overtake the other; one approval, for
one is enough to be missed; a stall budget of two, so that a failure below the
budget, the one that reaches it and those above it all occur; one fault, which
is a crash, a lost write, a lost notice or a time-out. `MCSilentStall` needs no
consent.
*Client:* three callers and the one slot that `NewClient` gives the program
(`cmd/postbode/daemon.go:202` asks for no other), so that callers queue behind the
one that waits or sends; an interval of two ticks, so that a
wait can be full, partial or none; one status of each class of `Classify`, 304
for those it has no class for.
*Startup:* launchd's daemon, a daemon of an older binary that knows one of the
two migrations, started by hand, and a command; one migration of two statements,
so that it can be cut in the middle; two faults (failed reads of the token among them) and one rotation of it.
Three sound versions of `config.yaml`, among them none at all, and nineteen
spoilt ones: one for each check of the loader. 72 documents are decided on by
the settings of each sound version and by `Reading`, and `ReadAsMeant` has TLC
compare that reading with the intent the version was written from.

Deadlock checking is off, but for `MCStartup`: the models stop at their bounds (all
items staged and settled, all mail read, all calls returned after a stop), which
the program does not.

## 4. Fairness

`Uploader`: weak fairness of each daemon's own steps (`Step`), of `Start`
(launchd's KeepAlive restarts it) and of `Tick`. `Step` includes `AnswerError`:
a request on the wire ends, with an answer or an error. The code sets no HTTP
timeout, so this is an assumption about the network. It also assumes that the
label was resolved, because the daemon uploads nothing before: that is
`LabelIsKnown` of `Daemon`. No fairness for the human, for the poll, for the portal
or for faults.
`Intake`: weak fairness of `PollStep`: the ticker fires again after every cycle
and a cycle goes on until it ends. None for arrivals, cool-downs, the human or
faults; so messages may fail for ever, and the cursor passes them all the same.
A network that is down for ever is not covered: `Intake` counts each failure of a
message, and finding 5 shows failures that are not counted.
`Client`: weak fairness of what a call does by itself and of what an ended context
makes it do (the runtime schedules goroutines; the context ends the keychain
command and the request, which are both made with it), of `Tick`, and strong
fairness of `Enter`, because a Go channel serves its blocked senders in order.
None for the keychain, the request or the answer: the HTTP client has no
time-out. So `TurnsCome` promises a turn only if no call hangs for good in a
request, and `StoppedCallsReturn` needs the stop.
`Startup`: weak fairness of each process' own steps, and of `Start` for the
daemons launchd keeps alive (`launchd/be.vhco.postbode.plist`, KeepAlive). None
for people: `DaemonsComeUp` supposes that there is a Gmail identity in the end
and that sooner or later no load meets a spoilt file.
`Queue`, `Consent` and `Daemon` are checked for safety only.

## 5. Proofs

`QueueProofs` proves for every set of messages, digests, keys, vendors and
candidates and every bound, under `QueueAssumption` only:

* `TypeCorrect`: `TypeOK`, which is inductive.
* `ActiveBytesUnique`: `OneActivePerSha`. `StageItem` inserts an active row only
  when `SameBytes` is empty; an update passes `IndexAdmits`.
* `QueueImplementsLedger`: the mapping takes the documents of approved rows and
  of uploaded or filed rows. `MoveChangesOneDocument` says how one move changes
  these sets; it needs `OneActivePerSha`: without it a second approved row would
  keep the consent of a delivered document alive.
* `RejectionsStand`: `RejectionIsRemembered` is inductive with `TypeOK`, because
  a rejected row bars staging and only the override makes a dormant row active.
* `NothingUnreviewed`: `NothingPassesUnreviewed` is not inductive. `ReviewHistory`
  strengthens it with what the log holds for items that are still in review, and
  `ManualStaysOut` with where an item that needs manual handling can be.
* `LogIsComplete`: `LogTellsTheStory`, with `LogMovesOn`: moves lead to statuses
  further on (`StatusMovesOn`), so whatever status an item has left lies behind
  the one it has.
* `LinksAreSound`, `TeachingCorrect`: inductive with `TypeOK`; the latter rests
  on `already_in_portal` having no outgoing edge. `QueueAssumption` relates the two
  readings of a domain in no way, so it holds for any two functions.

The lemmas `StageItemEffect`, `MoveEffect` and `LifecycleIsMove` say once what a
step does to the tables; every preservation proof starts from them. The look-ups
use `Oldest` (a `CHOOSE`), for which `OldestIsLeast` shows that the least element
of a non-empty set of ids exists.

`UploaderProofs` proves for any number of daemons, any candidates, any schedule
and any bounds on items and faults (`UploaderAssumption`, `QueueAssumption`):

* `UploaderKeepsQueue`: every behaviour of `Uploader` is one of `Queue`, so each
  theorem above holds while daemons upload. `UploaderImplementsLedger` is that of
  the refinement.
* `UploaderTypeCorrect`: `UTypeOK` is inductive within `Base`, which adds from the
  queue that bytes are active once and that what is past review was approved, and
  of each process what its place says about its item (`Working`): from the record
  of the upload on it is uploaded; between the label call and its record Gmail has
  the label.
* `ClaimsProtect`: `HeldIsClaimed` is inductive with `Base`. The one step that could
  break it is a write of one daemon to the item of another - the release of a stale
  claim, the late end of an attempt - and there the item is `stolen`.
* `NoDoubleUpload`, `PortalCorrect`: `PortalIsKnown` says of each document in the
  portal that a human agreed to it and that it is accounted for - recorded, in
  flight, in doubt or stolen. A second copy needs a second process with the same
  bytes, hence, because the item is active only once and is claimed, the same item.
* `BackoffServed`: `BackoffIsServed` is not inductive, for it says nothing of the
  wait that is still to come. `RetriesAreSpaced` adds that the age of the first
  failure and what is left of `due` cover the next delay too, unless the window has
  closed, and that an uploading process read the retry count that still stands.
* `LabelsTrue`: the action property `LabelsAreTrue`, from `LabelsAreDue`: one process
  at a time labels a message, it is not recorded as labelled, and all its items are
  uploaded, unless it is `crossed`.

`Doubled` and `Schedule` are recursive functions. That they satisfy their equations
is proved, not assumed: `SetInduction` (from the least element of a set of numbers)
and `RecursionExists` give `DoubledRecursion`, `BackoffBounds` and
`ScheduleRecursion`. The library's induction theorems have an operator parameter
and could not be used.

`ConsentProofs` proves for any number of consents and faults:

* `NewestConsentStands`: `NewestConsentWins`, for every step.
* `CredentialsStayTogether`: `CredentialsAgree`.

Neither follows from the guards alone, because the generation starts again at 0
in every process while consents are numbered through. The invariant `CInv`
adds to the types that every handler in flight has
`genOf[c] = generation - (started - c)`, so that equal generations mean the
newest consent (`HolderIsNewest`), and that exactly the holder of the lock is
saving or has saved (`LockDiscipline`): no consent can start between the
comparison of generations and `Replace`. `TokensInStep` says which of keychain
and client has the new token at each place in between.

`ClientProofs` proves for any callers, slots, interval and statuses:

* `ClientTypeCorrect`, `SlotsAreReleased`: `CTypeOK` and `SlotsInStep`, inductive
  together.
* `StartsSpaced`: with one slot any two starts are an interval apart
  (`StartsAreSpaced`); with any number of slots those of one caller are.
* `BurstsAreBounded`: with several slots, what is left of the interval is that it
  sees no more starts than there are slots. `BurstIsBounded` is not inductive, for
  it says nothing of callers still waiting. `Spread` strengthens it: for every
  age `a`, the callers started within `a` and those whose wait ends before they
  are that old are no more than the slots. `Aged` ties the waits to `last`.
* `UploadsAreFiled`: `UploadedIsFiled`, by a table of all answers (`Decoding`).

`StartupProofs` proves for any processes, binaries, migrations and files:

* `MigrationsAreWhole`: `SchemaIsWhole` with what a process in the middle of
  `migrate` knows: what it no longer has to do is applied, and its transaction
  is at its lowest pending version (`IMigrations`). No assumption says that
  processes have the same binary: a later migration implies the earlier ones.
* `ReviewFindsTheToken`: `ReviewIsLetIn` with the rule that while one process
  mints a token, over a blank file or one it could not read, everyone else who has
  one is set apart (`ITokens`).
* `DaemonsDecideAsWritten`: `RulesAsWritten`. A daemon past the load has an accepted
  file (`IConfig`), hence, by the theorems below, one without a defect, works within
  its bounds and decides about every document as it is written, until it ends.
  `StartupAssumption` says of the files that each is absent, empty, unreadable or a
  text, and that a list of rules is numbered by naturals.

The theorems about the configuration are about functions, and hold for every file,
every document and every reading of scalars and globs (`SettingsAssumption`: integers
and durations are numbers, booleans are booleans, and an error is none of these):

* `RulesSayWhatIsWritten`: an accepted list of rules decides as `Written` reads it
  off the YAML nodes, with no decoder in between. The steps are the decoder's:
  `AcceptedMapping`, `AcceptedCondition`, `AcceptedSection`, `MatcherSays`,
  `RuleSays`.
* `FilesSayWhatIsDecided`: the same for a whole `config.yaml` with its watch scope.
* `DefectsAreRefused`: `SoundFile` says of a file's text, with no decoder in
  between, that each key is known and each value of the kind and range its key
  asks for; a file that is not so is `Invalid`. A value that a later one of the
  same key replaces is not looked at, by the code or by `SoundFile`.
* `SoundFilesAreAccepted`: the converse. Any known keys in any order, any repetition,
  any number of rules and values: what `SoundFile` finds no fault with loads. The
  steps are again the decoder's (`ReadableIsDecoded`, `SectionIsAccepted`,
  `RuleIsAccepted`, `RulesAreAccepted`). Its hypothesis `NoFunction(Invalid)` says
  that the error is no list and no record; TLA+ leaves that open for a constant,
  in the code it is the difference between `nil, err` and a value.
* `BoundsAreInForce`: the budgets, the cool-down and the retention of an accepted file
  reach the daemon as written; no default replaces one, although `InForce` could.

`IdentityProofs` proves for all texts, and for any invoices, writings, messages and
candidates (`InvoicesAssumption`, `QueueAssumption`):

* `ConventionsAgree`: an amount is the same with commas and dots exchanged, for any
  groups of digits: `NormalizeAmount` looks only at which separators are alike
  (`AlikeIsEnough`).
* `KeysAreNotGuessed`: a key consists of the vendor and of a number, a date (or a
  month) and an amount that the file name or the subject states. Each field has a
  lemma that what is found is stated, and that something is found where something
  is shown (`NumberIsStated`, `DateIsStated`, `PeriodIsStated`, `AmountIsStated`);
  `MatchesFit` is why a place without a neighbour is never lost.
* `OneKey`: `OneKeyPerInvoice` for the items of the queue, for any corpus.
  `WritingsAgree` gives every writing its invoice's key, and `KeysAreStaged` is the
  invariant that an item has key and bytes of one candidate. That the writings of an
  invoice state nothing else is the hypothesis, as it must be: "also met" names a text
  that states a wrong number.

`DaemonProofs` proves for any consents, approvals, stall budget and faults, with
the two results of `ConsentProofs` for the composition. `DInv` adds to the types
and to `CInv` what holds while the loop is at each of its places:

* `UploadsKnowTheLabel`: `LabelIsKnown`. Several steps write the whole row from
  a copy; `RowIsOwned` says that nobody else writes while the loop works from it,
  and `LabelIsSaved` that a resolved label is in the row.
* `NoApprovalWaitsUnseen`: `ApprovalsAreSeen` speaks of the waiting loop only;
  `NudgesFollow` carries it through the return from a drain.
* `MarkersMatchNotices`: `NoticesMatchMarkers` with the places between a marker
  and its notice (`StallNotices`, `AuthNotices`) and with the counter, which is
  never behind the cycles nobody heard of (`StallCount`).

`IntakeProofs` proves for any finite set of messages, any documents and refusals,
and any budgets, bounds and faults (`IntakeAssumption`, `QueueAssumption`):

* `CursorIsSafe`: `CursorPassesNothing`, with any set of messages outside of any
  fallback's query. It says nothing of a cycle in progress,
  so `IInv` adds what makes the cursor safe to advance: everything listed is on
  the list still, or outside of the fallback's query, slipped, resolved or parked
  (`Underway`); a message that L1
  may skip is accounted for or torn, or its extraction is under way with the
  documents before `at` done (`Recorded`).
* `ParksStand`: the action property `ParkedUntilResolved`. Only `Finish` deletes
  a failure row, and each of its callers knows that the message is resolved;
  `ParkKept` says that `RecordMessageFailure` cannot write over a park with the
  row it read before.
* `RetriesBounded`: `RetriesAreBounded` is not inductive. `Covered` adds that a row
  that is waiting or due has an attempt left, and `Admission` that the retries
  still to be admitted are due, each at one place of the list.
* `IntakeTypeCorrect`: `ITypeOK`.
* `SpoolIsKept`: `SpoolHoldsNewBytes`, with what is known before a document is
  staged (`SpoolInv`): between spooling and staging its file is there, and while a
  cleanup may still come no item has bytes that were spooled once.
* `IntakeKeepsQueue`, `IntakeImplementsLedger`: every behaviour of the poll is one
  of `Queue`, so the theorems about the queue hold under it.
* `IntakeAmongOthers`: all of this of `OpenISpec`, where between any two steps of the
  poll `Others` moves items along any edge of the lifecycle. `ISpec` lets the human
  reject the first items only, which keeps TLC's instance small; the reviewer and the
  uploader do much more. What the poll relies on is that rows and rejections stay
  (`RowsLeft`, `Aside`) and that no edge makes an item pending again whose file is
  gone (`OthersKeepSpool`).

The proof has one lemma per kind of step - the world, the beginning of a cycle,
an admission, a message done, a message failed, an extraction that goes on, a
cycle cut off, the end of a cycle. `Forward` says what all but the last have in
common: nothing achieved is taken back. Of the queue it uses only that rows stay
(`RowsStay`) and what `StageItem` inserts.

Only model-checked is the liveness, which TLAPS does not handle: `ApprovalIsDurable`,
`LabelsCatchUp`, `PollMovesOn`, `StoppedCallsReturn`, `TurnsCome` and `DaemonsComeUp`.
Every safety property that a passing run checks is a theorem. Three things near
them are not: that the digits of an amount add up (`Joined` is a fold, and the
provers have no induction over data); that the texts TLC reads mean what their
authors meant (`ReadAsMeant`, about given files); and that `Daemon` implements
`Consent` as a whole, because a fault of the loop spends a fault of `Consent` without
a step of it - its two promises are proved of the composition instead
(`DaemonNewestConsentWins`, `DaemonCredentialsAgree`).

## 6. Findings

Each is the counterexample of a run.

1. `MCStrandedClaim`: claims are released only when the daemon starts and only if
   an hour old; a daemon restarted sooner strands the item its predecessor held.
2. `MCTornExtraction`: an extraction that ends between `RecordMessageIfNew` and the
   last `StageItem`, under the budget, is skipped by L1 when listed again.
3. `MCFallbackRace`: mail arriving during a fallback is behind the baseline the
   cycle stores, and is never listed.
4. `MCSharedSpool`: files are named by digest and shared between items; refusing
   or failing a copy removes the file of a pending item.
5. `MCSilentStall`: a time-out of package `net` passes for a shutdown, so the
   cycle it ends is not counted and a stall made of such cycles is never
   announced.
6. `MCCutAnswer`: a connection that breaks while the body of an answer is read is
   a terminal error, whatever the status, although network errors and 5xx are to
   be retried.

Also met, without a run:

* Two daemons can send one document twice without any fault. `handleUploadError`
  re-reads the item after its attempt and gives it up if 24 hours have passed,
  whoever has claimed it since (`uploader.go:231-250`); a copy may then be staged,
  approved and uploaded while the other daemon's request is under way. The
  properties of `Uploader` excuse it (`stolen`).
* Two daemons can label a message twice, or label it although a document of it was
  staged after the decision (`uploader.go:273-309`): `crossed`.
* One message with the same bytes twice, one copy refused by the rules and the other
  staged, loses the file of the staged one; this is finding 4 within one
  extraction, and `recurred` covers it.
* `lifecycle.go:13-15` lists `suppressed_peppol` among the statuses without an
  outgoing edge, a few lines above the edge the map gives it.
* Nothing calls `RecordTokenIssued`, so `token_issued_at` stays empty and the
  token's age (F-17) is never reported.
* A label that is absent is announced on every iteration until it is there, the
  15-second upload tick included.
* A crash, or a notifier that fails, between the stall marker and the notice loses
  the announcement for the whole episode, although `poll.go:285-287` reads the
  marker as "the human has actually been told". `Daemon` excuses it (`lost`).
* `uploader.go:188-193` leaves a label call that failed to "the next successful
  upload for this message (or a future reconciliation pass)". When it was the last
  document there is no such upload, and no such pass: `LabelsCatchUp` excuses it
  (`unlabeled`).
* A keychain that cannot be read, or that takes longer than the context allows, is
  an error without a Decision: terminal on the first attempt, like finding 6.
* With more than one slot (`WithMaxConcurrent`) two callers may compute one wait from
  one `last` and start in the same instant, against "a minimum interval between the
  start of successive requests" (`ratelimit.go:9-12`, F-54). The program asks for one
  slot. Even then the interval separates the returns of `acquire`, and between a
  return and its request lies the call of `security(1)`.
* `identity.go:132-136` calls `VendorDomain` the canonical domain of L4 teaching, but
  the mark is keyed by the review UI's own `vendorDomain` (`webui/view.go:225-237`).
  They differ for a From header that `mail.ParseAddress` refuses, such as
  `Billing, Dept <billing@ovh.com>`: items are staged under "ovh.com>", a mark
  teaches "ovh.com", and later mail with the same header is never badged. They
  differ the other way for a comment behind a bare address. Such a
  header also escapes the known-Peppol globs, and gives its vendor a second domain,
  so that L3 does not see its copies of what came under the first.
* `LoadOrCreateToken` promises a new token "only when there is nothing usable there"
  (`token.go:78-79`), but replaces a usable one on any error of reading the file:
  after a second daemon could not read it for a moment, `postbode review` hands out a
  token that the daemon with the port does not accept (`apart`).
* `token.go:34-36` has `WriteTokenFile` called once per start to end a stale token;
  `LoadOrCreateToken` calls it only when it mints.
* An invoice keyword takes the next token for the number, also a date ("Factuur
  13-08-2024"): two invoices of one vendor, day and total then share a key of high
  confidence, against `identity.go:55-58`.
* `normalizeAmount` reads one decimal digit as thousands ("12,5" is 125.00), and
  `validYMD` accepts 31 February, "a real calendar date" by its comment.
* A key given twice in `config.yaml` keeps the last value: of two `rules:` lists
  the first is dropped without an error, against `config.go:10-14`.
* `processMessage` passes the rules engine neither body nor List-Unsubscribe
  header, so `list_unsubscribe: true` never matches and the keywords of the
  default are looked for in the subject only (F-26, F-27). `from` patterns are
  matched against the raw header, with display name and in its case, while
  `peppol.go:8-19` matches the lower-cased address and calls the semantics
  identical.
* `watchscope.go:32-36` and `peppol.go:14-18` rely on `config.Load` to reject a bad
  `watch` and a bad `known_peppol` pattern; it validates neither.
* `upload.max_concurrent`, `upload.min_interval` and `ui.port` are parsed and
  never used: `cmd/postbode/daemon.go:202` makes the client with its defaults.
* `cmd/postbode/daemon.go:169-171` counts on launchd not restarting after exit 0;
  with `KeepAlive` true it does.
* `server.go:158-181` speaks of a token that changes at each restart;
  `LoadOrCreateToken` keeps it.
* Of two processes that start on an old schema at once, the loser of the lock meets
  "already exists" and exits; launchd's daemon is started again and comes up.
  A daemon that found the port taken stays without a UI when it becomes free.

## 7. Not modelled, and the plan

In order of importance:

1. Liveness of `Daemon`: a reconnected client ends the re-auth episode, approvals
   are looked at, under fairness of the loop and of the tickers.
2. Pruning: no module has both the spool and the uploads. That it takes no file
   of an item still to be uploaded follows from `OneActivePerSha`: an uploaded
   item is the only active one with its bytes.
3. The text order of stored timestamps, sniffing, and the rest of `Review`: the
   handlers' checks read before the act.

Left out for good: rendering, logging, OAuth and GraphQL encodings, launchd and
`security(1)` plumbing, which have no protocol of their own; `cmd/spike`; and
`ClaimApproved` and `ReleaseClaim`, which nothing calls.
