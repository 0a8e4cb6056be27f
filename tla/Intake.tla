------------------------------- MODULE Intake -------------------------------
(***************************************************************************)
(* How mail becomes queue items: the poll of internal/gmailwatch (poll.go, *)
(* history.go, fallback.go), internal/extract (extract.go, spool.go), the  *)
(* message and message_failure tables of internal/queue and `postbode      *)
(* retry', composed with Queue.                                            *)
(*                                                                         *)
(* One daemon polls, in one goroutine; the human reviews and retries from  *)
(* other processes and threads; mail arrives and is deleted at any time.   *)
(* The history id of a message is its place in `mailbox'.  A message that  *)
(* left the watch scope (inScope) is treated as one that is gone: the poll *)
(* does the same for both.  FailedIDs is read once per cycle, but nobody   *)
(* else adds or deletes failure rows, so `failures' itself stands for it.  *)
(***************************************************************************)
EXTENDS Queue, SequencesExt

CONSTANTS
  DocsOf,             \* the documents of each message, in MIME order
  Refused,            \* the documents the rules engine denies or drops
  FailureBudget,      \* consecutive failures before a message is parked
  ParkRetryAttempts,  \* automatic retries of a parked message
  MaxReviewed,        \* bound: the first so many items can be rejected by the human
  MaxAsks,            \* bound: uses of `postbode retry'
  MaxFaults           \* bound: crashes, failed writes, history gaps, re-auths

(* A row of message_failure.  `retry' is next_retry_at: none, in the future *)
(* or reached.                                                              *)
Failure == [count : 1..FailureBudget, parked : BOOLEAN, tries : Nat,
            retry : {"none", "waiting", "due"}]

ASSUME IntakeAssumption ==
  /\ IsFiniteSet(Msgs) /\ NULL \notin Failure
  /\ DocsOf \in [Msgs -> Seq(Candidates)]
  /\ \A m \in Msgs : \A k \in DOMAIN DocsOf[m] : DocsOf[m][k].msg = m
  /\ Refused \subseteq Candidates
  /\ FailureBudget \in Nat \ {0}
  /\ ParkRetryAttempts \in Nat \ {0}
  /\ MaxReviewed \in Nat /\ MaxAsks \in Nat /\ MaxFaults \in Nat

VARIABLES
  mailbox,   \* Gmail: the messages that have arrived, in order
  gone,      \* Gmail: messages deleted, or moved out of the watch scope
  seen,      \* message: ids recorded as processed (L1)
  spool,     \* the file <sha>.pdf of the spool directory
  failures,  \* message_failure: the row of each message, NULL when none
  cursor,    \* sync_state.history_id, NULL before the first baseline
  phase,     \* where the poll is
  todo,      \* the ids it still has to process
  forced,    \* the ids it admitted as retries
  listed,    \* the mailbox when it listed the ids
  upto,      \* newHistoryID: NULL when the list came from the fallback
  at,        \* the next retry to admit or document to stage
  charged,   \* the failure row recordFailure has read
  gateErr,   \* a rules decision of this message could not be recorded
  slipped,   \* history: arrived between a fallback list and its baseline
  beyond,    \* history: outside the query of a fallback, and not passed before
  torn,      \* history: an attempt ended after its record, before its last document
  recurred,  \* history: bytes spooled twice: again for an item, or by one message
  asks,      \* uses of `postbode retry' so far
  faults     \* faults so far

gmailVars == <<mailbox, gone>>
storeVars == <<seen, spool, failures, cursor>>
pollVars == <<phase, todo, forced, listed, upto, at, charged, gateErr>>
histVars == <<slipped, beyond, torn, recurred, asks, faults>>
ivars == <<row, status, teaching, log, mailbox, gone, seen, spool, failures, cursor, phase,
           todo, forced, listed, upto, at, charged, gateErr, slipped, beyond, torn,
           recurred, asks, faults>>

Parked(m) == failures[m] # NULL /\ failures[m].parked

Arrived == Range(mailbox)

Docs(m) == Range(DocsOf[m])

Rest ==
  /\ phase' = "idle"
  /\ todo' = <<>>
  /\ forced' = {}
  /\ listed' = 0
  /\ upto' = NULL
  /\ at' = 0
  /\ charged' = NULL
  /\ gateErr' = FALSE

Goto(step, k) ==
  /\ phase' = step
  /\ at' = k
  /\ UNCHANGED <<todo, forced, listed, upto, charged, gateErr>>

Fault ==
  /\ faults < MaxFaults
  /\ faults' = faults + 1

NoFault == UNCHANGED faults
-----------------------------------------------------------------------------
(* Gmail and the human. *)

Arrive(m) ==
  /\ m \notin Arrived
  /\ mailbox' = Append(mailbox, m)
  /\ UNCHANGED <<vars, gone, storeVars, pollVars, histVars>>

Vanish(m) ==
  /\ m \in Arrived \ gone
  /\ gone' = gone \cup {m}
  /\ UNCHANGED <<vars, mailbox, storeVars, pollVars, histVars>>

(* Of the human's decisions only a rejection makes a difference to what is  *)
(* staged next: L2 and L3 treat staged, approved and already in the portal  *)
(* alike.                                                                   *)
Decide ==
  /\ \E i \in Ids \cap 1..MaxReviewed : Reject(i)
  /\ UNCHANGED <<gmailVars, storeVars, pollVars, histVars>>

CooldownEnds(m) ==
  /\ Parked(m)
  /\ failures[m].retry = "waiting"
  /\ failures' = [failures EXCEPT ![m].retry = "due"]
  /\ UNCHANGED <<vars, gmailVars, seen, spool, cursor, pollVars, histVars>>

(* Slip: a retry forgets the park.                                          *)
RetryForgets(S) ==
  /\ S # {} /\ \A m \in S : Parked(m)
  /\ asks < MaxAsks
  /\ asks' = asks + 1
  /\ failures' = [m \in Msgs |-> IF m \in S THEN NULL ELSE failures[m]]
  /\ UNCHANGED <<vars, gmailVars, seen, spool, cursor, pollVars, slipped, beyond, torn, recurred, faults>>

(* `postbode retry': Unpark or UnparkAll, from another process.             *)
Retry(S) ==
  /\ S # {} /\ \A m \in S : Parked(m)
  /\ asks < MaxAsks
  /\ asks' = asks + 1
  /\ failures' = [m \in Msgs |-> IF m \in S THEN [failures[m] EXCEPT !.retry = "due"]
                                            ELSE failures[m]]
  /\ UNCHANGED <<vars, gmailVars, seen, spool, cursor, pollVars, slipped, beyond, torn, recurred, faults>>
-----------------------------------------------------------------------------
(* Poll: listing and retry admission. *)

DueRetries == {m \in Msgs : Parked(m) /\ failures[m].retry = "due"}

(* The ids outside S, each once, in the order of ids.                       *)
Without(ids, S) ==
  {t \in SetToSeqs(Range(ids) \ S) :
     \A i, j \in DOMAIN t : i < j =>
       \E k, l \in DOMAIN ids : k < l /\ t[i] = ids[k] /\ t[j] = ids[l]}

Admit(due, rest) ==
  /\ todo' = due \o rest
  /\ forced' = DueRetries
  /\ listed' = Len(mailbox)
  /\ phase' = IF DueRetries = {} THEN "next" ELSE "admitting"
  /\ at' = IF DueRetries = {} THEN 0 ELSE 1
  /\ UNCHANGED <<charged, gateErr>>
  /\ UNCHANGED <<vars, gmailVars, storeVars, slipped, torn, recurred, asks>>

(* Slip: the due retries are not taken out of the listing.                  *)
BeginTwice(ids, unlisted) ==
  /\ phase = "idle"
  /\ \E due \in SetToSeqs(DueRetries), rest \in Without(ids, unlisted) : Admit(due, rest)

(* The due retries go first, in some order; a message that is both due and  *)
(* listed is processed once, as a retry.                                    *)
Begin(ids, unlisted) ==
  /\ phase = "idle"
  /\ \E due \in SetToSeqs(DueRetries), rest \in Without(ids, unlisted \cup DueRetries) :
       Admit(due, rest)

(* users.history.list from the cursor: deleted messages are listed too.     *)
HistorySync ==
  /\ cursor # NULL
  /\ Begin(SubSeq(mailbox, cursor + 1, Len(mailbox)), {})
  /\ upto' = Len(mailbox)
  /\ UNCHANGED beyond
  /\ NoFault

Passed == {mailbox[k] : k \in 1..(IF cursor = NULL THEN 0 ELSE cursor)}

(* The windowed messages.list, newest first: on the first poll, and when    *)
(* Gmail no longer knows the cursor.  It finds no message outside of        *)
(* FallbackQuery: older than the window, or with neither an attachment nor  *)
(* one of its words.  A message never comes back into the window.           *)
FallbackSync ==
  /\ \E outside \in SUBSET (Arrived \ gone) :
       /\ beyond \subseteq outside \cup gone
       /\ Begin(Reverse(mailbox), gone \cup outside)
       /\ beyond' = beyond \cup (outside \ Passed)
  /\ upto' = NULL
  /\ IF cursor = NULL THEN NoFault ELSE Fault

(* RecordRetryAttempt: the attempt is spent before it is made.  It reads    *)
(* the row and writes it back; a `postbode retry' in between has the same   *)
(* effect as one just before, because next_retry_at is overwritten.         *)
RecordRetryAttempt ==
  LET m == todo[at]
      tries == failures[m].tries + 1
  IN
  /\ phase = "admitting"
  /\ failures' = [failures EXCEPT ![m].tries = tries,
       ![m].retry = IF tries >= ParkRetryAttempts THEN "none" ELSE "waiting"]
  /\ IF at = Cardinality(forced) THEN Goto("next", 0) ELSE Goto("admitting", at + 1)
  /\ UNCHANGED <<vars, gmailVars, seen, spool, cursor, histVars>>
-----------------------------------------------------------------------------
(* Poll: one message. *)

Current == Head(todo)

(* processMessage returned nil, or the message is gone: its failure row, if *)
(* any, is deleted and the loop goes on.                                    *)
Finish ==
  /\ failures' = [failures EXCEPT ![Current] = NULL]
  /\ todo' = Tail(todo)
  /\ phase' = "next"
  /\ at' = 0
  /\ UNCHANGED <<forced, listed, upto, charged, gateErr>>

(* processMessage returned an error: recordFailure reads the failure row.   *)
Fails ==
  /\ phase' = "charging"
  /\ charged' = failures[Current]
  /\ at' = 0
  /\ gateErr' = FALSE
  /\ UNCHANGED <<failures, todo, forced, listed, upto>>

(* Slip: every error of messages.get is taken for a 404.                    *)
MessageGoneOnAnyError ==
  /\ phase = "next" /\ todo # <<>>
  /\ Finish
  /\ UNCHANGED <<vars, gmailVars, seen, spool, cursor, histVars>>

(* A 404: the message was deleted after it was listed.                      *)
MessageGone ==
  /\ phase = "next" /\ todo # <<>>
  /\ Current \in gone
  /\ Finish
  /\ UNCHANGED <<vars, gmailVars, seen, spool, cursor, histVars>>

(* messages.get fails (5xx, 429, 403), or what it returns does not decode.  *)
FetchFails ==
  /\ phase = "next" /\ todo # <<>>
  /\ Fails
  /\ UNCHANGED <<vars, gmailVars, seen, spool, cursor, histVars>>

(* L1, unless the message was admitted as a retry.                          *)
SkipSeen ==
  /\ phase = "next" /\ todo # <<>>
  /\ Current \notin gone
  /\ Current \in seen \ forced
  /\ Finish
  /\ UNCHANGED <<vars, gmailVars, seen, spool, cursor, histVars>>

Extracting ==
  /\ phase = "next" /\ todo # <<>>
  /\ Current \notin gone
  /\ Current \notin seen \/ Current \in forced

Files(m) == {d.sha : d \in Docs(m)}

(* Bytes that more than one document of m has. *)
Twice(m) == {s \in Files(m) : \E j, k \in DOMAIN DocsOf[m] :
                                j # k /\ DocsOf[m][j].sha = s /\ DocsOf[m][k].sha = s}

(* The queue has an item with these bytes. *)
Queued(s) == \E i \in Ids : row[i].sha = s

Recurring(m) == recurred \cup {s \in Files(m) : s \in Twice(m) \/ Queued(s)}

(* Every document is spooled before the message is recorded.                *)
Spool ==
  /\ Extracting
  /\ spool' = [s \in Shas |-> IF s \in Files(Current) THEN "whole" ELSE spool[s]]
  /\ recurred' = Recurring(Current)
  /\ Goto("spooled", 0)
  /\ UNCHANGED <<vars, gmailVars, seen, failures, cursor, slipped, beyond, torn, asks, faults>>

(* Writing the k-th document fails and leaves what was written of it; the   *)
(* files before it are removed, whosever they are: the name is the digest.  *)
SpoolFails(k) ==
  LET before == {DocsOf[Current][j].sha : j \in 1..(k - 1)}
  IN
  /\ Extracting
  /\ spool' = [s \in Shas |-> IF s \in before THEN "none"
                              ELSE IF s = DocsOf[Current][k].sha THEN "torn"
                              ELSE spool[s]]
  /\ recurred' = Recurring(Current)
  /\ Fails
  /\ UNCHANGED <<vars, gmailVars, seen, cursor, slipped, beyond, torn, asks, faults>>

RecordMessageIfNew ==
  /\ phase = "spooled"
  /\ seen' = seen \cup {Current}
  /\ Goto("staging", 1)
  /\ UNCHANGED <<vars, gmailVars, spool, failures, cursor, histVars>>

RecordMessageFails ==
  /\ phase = "spooled"
  /\ Fault
  /\ spool' = [s \in Shas |-> IF s \in Files(Current) THEN "none" ELSE spool[s]]
  /\ Fails
  /\ UNCHANGED <<vars, gmailVars, seen, cursor, slipped, beyond, torn, recurred, asks>>

Staging == phase = "staging" /\ at <= Len(DocsOf[Current])

Document == DocsOf[Current][at]

(* The Gate: a refused document leaves no row, and its file is removed.     *)
GateRefuses ==
  /\ Staging
  /\ Document \in Refused
  /\ spool' = [spool EXCEPT ![Document.sha] = "none"]
  /\ Goto("staging", at + 1)
  /\ UNCHANGED <<vars, gmailVars, seen, failures, cursor, histVars>>

(* StageItem, which leaves the queue alone if the human rejected the pair.  *)
Stage(in) == StageItem(in) \/ (Rejected(in) /\ UNCHANGED vars)

StageDocument ==
  /\ Staging
  /\ Document \notin Refused
  /\ Stage(Document)
  /\ Goto("staging", at + 1)
  /\ UNCHANGED <<gmailVars, storeVars, histVars>>

(* The Gate's decision cannot be recorded: the document is staged whatever  *)
(* the rules say, and the message will fail when all are staged.            *)
DecisionNotRecorded ==
  /\ Staging
  /\ Fault
  /\ Stage(Document)
  /\ phase' = "staging"
  /\ at' = at + 1
  /\ gateErr' = TRUE
  /\ UNCHANGED <<todo, forced, listed, upto, charged>>
  /\ UNCHANGED <<gmailVars, storeVars, slipped, beyond, torn, recurred, asks>>

(* Slip: the files are cleaned up here as on the other error paths.         *)
StageFailsCleansUp ==
  /\ Staging
  /\ Document \notin Refused
  /\ Fault
  /\ spool' = [s \in Shas |-> IF s \in Files(Current) THEN "none" ELSE spool[s]]
  /\ torn' = torn \cup {Current}
  /\ Fails
  /\ UNCHANGED <<vars, gmailVars, seen, cursor, slipped, beyond, recurred, asks>>

(* StageItem's transaction fails: the message stays recorded as seen.       *)
StageFails ==
  /\ Staging
  /\ Document \notin Refused
  /\ Fault
  /\ torn' = torn \cup {Current}
  /\ Fails
  /\ UNCHANGED <<vars, gmailVars, seen, spool, cursor, slipped, beyond, recurred, asks>>

ExtractDone ==
  /\ phase = "staging"
  /\ at > Len(DocsOf[Current])
  /\ ~gateErr
  /\ Finish
  /\ UNCHANGED <<vars, gmailVars, seen, spool, cursor, histVars>>

GateErrFails ==
  /\ phase = "staging"
  /\ at > Len(DocsOf[Current])
  /\ gateErr
  /\ Fails
  /\ UNCHANGED <<vars, gmailVars, seen, spool, cursor, histVars>>

(* Slip: the count starts over at every failure.                            *)
NewFailureForgetful(f) ==
  IF f # NULL /\ f.parked THEN f
  ELSE IF FailureBudget = 1
       THEN [count |-> 1, parked |-> TRUE, tries |-> 0, retry |-> "waiting"]
  ELSE [count |-> 1, parked |-> FALSE, tries |-> 0, retry |-> "none"]

(* Slip: a park that fails again re-arms its own schedule.                  *)
NewFailureRearmed(f) ==
  LET count == IF f = NULL THEN 1 ELSE f.count + 1
  IN IF f # NULL /\ f.parked THEN [f EXCEPT !.retry = "waiting"]
     ELSE IF count >= FailureBudget
          THEN [count |-> FailureBudget, parked |-> TRUE, tries |-> 0, retry |-> "waiting"]
     ELSE [count |-> count, parked |-> FALSE, tries |-> 0, retry |-> "none"]

(* The failure row one more failure makes of f.  A parked message stays as  *)
(* it is: its schedule belongs to RecordRetryAttempt.                       *)
NewFailure(f) ==
  LET count == IF f = NULL THEN 1 ELSE f.count + 1
  IN IF f # NULL /\ f.parked THEN f
     ELSE IF count >= FailureBudget
          THEN [count |-> FailureBudget, parked |-> TRUE, tries |-> 0, retry |-> "waiting"]
     ELSE [count |-> count, parked |-> FALSE, tries |-> 0, retry |-> "none"]

(* RecordMessageFailure writes what it makes of the row it has read; if the *)
(* message is parked the loop goes on, otherwise the cycle is abandoned.    *)
RecordMessageFailure ==
  /\ phase = "charging"
  /\ failures' = [failures EXCEPT ![Current] = NewFailure(charged)]
  /\ IF NewFailure(charged).parked
     THEN /\ todo' = Tail(todo)
          /\ phase' = "next"
          /\ charged' = NULL
          /\ UNCHANGED <<forced, listed, upto, at, gateErr>>
     ELSE Rest
  /\ UNCHANGED <<vars, gmailVars, seen, spool, cursor, histVars>>
-----------------------------------------------------------------------------
(* Poll: the end of the cycle. *)

(* SaveSyncState.  After a fallback the baseline is the history id Gmail    *)
(* reports now, not the one of the listing.                                 *)
SaveSyncState ==
  /\ phase = "next"
  /\ todo = <<>>
  /\ cursor' = IF upto = NULL THEN Len(mailbox) ELSE upto
  /\ slipped' = IF upto = NULL
                THEN slipped \cup {mailbox[k] : k \in (listed + 1)..Len(mailbox)}
                ELSE slipped
  /\ Rest
  /\ UNCHANGED <<vars, gmailVars, seen, spool, failures, beyond, torn, recurred, asks, faults>>

(* The cycle ends without progress: re-authentication needed, getProfile or *)
(* a write of the bookkeeping failed, the daemon is stopping.               *)
PollAborts ==
  /\ phase \in {"admitting", "next", "charging"}
  /\ Fault
  /\ Rest
  /\ UNCHANGED <<vars, gmailVars, storeVars, slipped, beyond, torn, recurred, asks>>

(* The process dies; while it spools, with the k-th file half written.      *)
Crash ==
  /\ phase # "idle"
  /\ Fault
  /\ torn' = IF Staging THEN torn \cup {Current} ELSE torn
  /\ Rest
  /\ UNCHANGED <<vars, gmailVars, storeVars, slipped, beyond, recurred, asks>>

CrashSpooling(k) ==
  /\ Extracting
  /\ Fault
  /\ spool' = [s \in Shas |-> IF s = DocsOf[Current][k].sha THEN "torn"
                              ELSE IF \E j \in 1..(k - 1) : s = DocsOf[Current][j].sha
                              THEN "whole" ELSE spool[s]]
  /\ recurred' = Recurring(Current)
  /\ Rest
  /\ UNCHANGED <<vars, gmailVars, seen, failures, cursor, slipped, beyond, torn, asks>>

IInit ==
  /\ Init
  /\ mailbox = <<>>
  /\ gone = {}
  /\ seen = {}
  /\ spool = [s \in Shas |-> "none"]
  /\ failures = [m \in Msgs |-> NULL]
  /\ cursor = NULL
  /\ phase = "idle"
  /\ todo = <<>>
  /\ forced = {}
  /\ listed = 0
  /\ upto = NULL
  /\ at = 0
  /\ charged = NULL
  /\ gateErr = FALSE
  /\ slipped = {}
  /\ beyond = {}
  /\ torn = {}
  /\ recurred = {}
  /\ asks = 0
  /\ faults = 0

(* The steps of a running poll, whatever Gmail and the disk answer.         *)
PollStep ==
  \/ HistorySync
  \/ FallbackSync
  \/ RecordRetryAttempt
  \/ MessageGone
  \/ FetchFails
  \/ SkipSeen
  \/ Spool
  \/ phase = "next" /\ todo # <<>> /\ \E k \in DOMAIN DocsOf[Current] : SpoolFails(k)
  \/ RecordMessageIfNew
  \/ GateRefuses
  \/ StageDocument
  \/ ExtractDone
  \/ GateErrFails
  \/ RecordMessageFailure
  \/ SaveSyncState

FaultStep ==
  \/ RecordMessageFails
  \/ StageFails
  \/ DecisionNotRecorded
  \/ PollAborts
  \/ Crash
  \/ phase = "next" /\ todo # <<>> /\ \E k \in DOMAIN DocsOf[Current] : CrashSpooling(k)

World ==
  \/ \E m \in Msgs : Arrive(m) \/ Vanish(m) \/ CooldownEnds(m) \/ Retry({m})
  \/ Retry({m \in Msgs : Parked(m)})
  \/ Decide

INext == PollStep \/ FaultStep \/ World

ISpec == IInit /\ [][INext]_ivars

(* The daemon keeps polling: its ticker fires again after every cycle.      *)
FairISpec == ISpec /\ WF_ivars(PollStep)
-----------------------------------------------------------------------------
(* Properties. *)

ITypeOK ==
  /\ TypeOK
  /\ Arrived \subseteq Msgs /\ gone \subseteq Arrived
  /\ seen \subseteq Arrived
  /\ spool \in [Shas -> {"none", "whole", "torn"}]
  /\ failures \in [Msgs -> Failure \cup {NULL}]
  /\ cursor \in 0..Len(mailbox) \cup {NULL}
  /\ phase \in {"idle", "admitting", "next", "spooled", "staging", "charging"}
  /\ Range(todo) \subseteq Arrived
  /\ Len(todo) = Cardinality(Range(todo))
  /\ forced \subseteq {m \in Msgs : m \in Range(todo) => Parked(m)}
  /\ charged \in Failure \cup {NULL}
  /\ gateErr \in BOOLEAN

(* A document of m is in the queue, or the rules refused it.                *)
Accounted(m) ==
  \A d \in Docs(m) : d \in Refused \/ \E i \in Ids : row[i].msg = m /\ row[i].sha = d.sha

(* G-1, as the code keeps it: a message the stored history id has passed    *)
(* will not be listed again, so its documents are in the queue or refused   *)
(* by a rule, or it is parked, or it no longer exists - in spite of         *)
(* failures, parks, retries, restarts and history gaps, with three          *)
(* exceptions: mail that had not been passed when a fallback ran and was    *)
(* outside of its query, which is what the window is for (fallback.go:10),  *)
(* mail that arrives while a fallback runs, and messages whose extraction   *)
(* ended between their record and their last document.                      *)
CursorPassesNothing ==
  \A m \in Passed \ (gone \cup beyond \cup slipped \cup torn) : Accounted(m) \/ Parked(m)

(* F-79: a parked message leaves the parked report only when all its        *)
(* documents are in the queue or it no longer exists, with the third of     *)
(* the exceptions above.                                                    *)
ParkedUntilResolved ==
  [][\A m \in Msgs : Parked(m) /\ failures'[m] = NULL
       => m \in gone \cup torn \/ Accounted(m)]_ivars

(* F-75/F-76: the automatic schedule never grows past its bound, whatever   *)
(* fails during the attempts and however parks and retries interleave.      *)
RetriesAreBounded ==
  \A m \in Msgs : failures[m] # NULL => failures[m].tries <= ParkRetryAttempts + asks

(* F-24/spec 8: the file of an item that may still be uploaded is in the    *)
(* spool, whole, unless the same bytes were spooled a second time, later or *)
(* by the same message: whoever wrote them last may have removed them.      *)
Pending(i) == status[i] \in {"staged", "approved", "suppressed_peppol"}

SpoolHoldsNewBytes ==
  \A i \in Ids : Pending(i) /\ row[i].sha \notin recurred => spool[row[i].sha] = "whole"

(* F-72: no message, however it fails, keeps the history id from passing    *)
(* the messages behind it: again and again the history id has reached the   *)
(* last message, so each one is passed in the end.                          *)
PollMovesOn == []<>(cursor = Len(mailbox))

(* G-1 without the exception for interrupted extractions.                   *)
NoInvoiceTorn == \A m \in Passed \ (gone \cup beyond \cup slipped) : Accounted(m) \/ Parked(m)

(* G-1 without the exception for mail that arrives while a fallback runs.   *)
NoInvoiceSlips == \A m \in Passed \ (gone \cup beyond \cup torn) : Accounted(m) \/ Parked(m)

(* The spool's promise without its exception.                               *)
SpoolHoldsPending == \A i \in Ids : Pending(i) => spool[row[i].sha] = "whole"
=============================================================================
