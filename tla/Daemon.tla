-------------------------------- MODULE Daemon --------------------------------
(***************************************************************************)
(* The loop of the daemon (internal/daemon), what it keeps in sync_state   *)
(* (internal/queue, gmailwatch: poll failures, re-auth, the submitted      *)
(* label), the approvals that nudge it (internal/webui) and the consents   *)
(* that repair its Gmail client (Consent).                                 *)
(*                                                                         *)
(* One goroutine polls and uploads; handlers run beside it.  `loop' is the *)
(* place of that goroutine.  What a poll reads and stages is Intake, what  *)
(* an upload does is Uploader: here a poll is a run of requests that ends  *)
(* in one of four ways, and a drain looks at the approved items.           *)
(***************************************************************************)
EXTENDS Consent, FiniteSets

CONSTANTS
  Items,         \* the staged items a human may approve
  StallBudget    \* gmail.poll_failure_budget

ASSUME DaemonAssumption == StallBudget \in Nat \ {0}

VARIABLES
  sync,           \* the sync_state row, but for the history id
  snap,           \* the row as the poll read it
  loop,           \* where the loop is
  used,           \* the token of the request on the wire
  labelResolved,  \* Daemon.labelResolved
  nudge,          \* a nudge waits in the channel
  approval,       \* per item: staged, fresh (approved, not looked at), settled
  owing,          \* items whose approve handler has not nudged yet
  batch,          \* the approve-all handler: what is left of its list
  refused,        \* tokens Google no longer accepts
  labelExists,    \* the mailbox has the submitted label
  told,           \* history: notices the human got in this episode
  lost,           \* history: notices that never reached the human, or
                  \* "uncounted": a failure that was not counted
  barren,         \* history: cycles in a row without progress or any notice
  blind           \* history: a drain ended before it looked at everything

daemonvars == <<sync, snap, loop, used, labelResolved>>
reviewvars == <<nudge, approval, owing, batch>>
worldvars == <<refused, labelExists>>
histvars == <<told, lost, barren, blind>>

dvars == <<cvars, daemonvars, reviewvars, worldvars, histvars>>

SyncState == [label : BOOLEAN, auth : BOOLEAN, fails : 0..StallBudget, notified : BOOLEAN]

NoBatch == [open |-> FALSE, todo |-> {}, got |-> FALSE]

AtMost(n, bound) == IF n > bound THEN bound ELSE n
-----------------------------------------------------------------------------
(* Approvals.  The handlers re-read the status in Approve's transaction;    *)
(* see Queue.                                                               *)

(* Slip: the channel has no buffer, so only a loop that waits hears it.     *)
NudgeUnbuffered == nudge' = (nudge \/ loop = "ready")

(* Nudge: a channel of depth one; a send to a full one is dropped.          *)
Nudge == nudge' = TRUE

Approve(i) ==
  /\ Up
  /\ approval[i] = "staged"
  /\ approval' = [approval EXCEPT ![i] = "fresh"]
  /\ owing' = owing \cup {i}
  /\ UNCHANGED <<cvars, daemonvars, worldvars, histvars, nudge, batch>>

NotifyApproved(i) ==
  /\ i \in owing
  /\ owing' = owing \ {i}
  /\ Nudge
  /\ UNCHANGED <<cvars, daemonvars, worldvars, histvars, approval, batch>>

Reject(i) ==
  /\ Up
  /\ approval[i] = "staged"
  /\ approval' = [approval EXCEPT ![i] = "settled"]
  /\ UNCHANGED <<cvars, daemonvars, worldvars, histvars, nudge, owing, batch>>

(* handleApproveAll lists the staged items ...                              *)
ListStaged ==
  /\ Up
  /\ ~batch.open
  /\ batch' = [open |-> TRUE, todo |-> {i \in Items : approval[i] = "staged"}, got |-> FALSE]
  /\ UNCHANGED <<cvars, daemonvars, worldvars, histvars, nudge, approval, owing>>

(* ... and approves one after the other.  One that has left staged since,   *)
(* or whose update fails because the browser went away, is passed over.     *)
ApproveNext(i) ==
  /\ i \in batch.todo
  /\ \/ /\ approval[i] = "staged"
        /\ approval' = [approval EXCEPT ![i] = "fresh"]
        /\ batch' = [batch EXCEPT !.todo = @ \ {i}, !.got = TRUE]
     \/ /\ approval' = approval
        /\ batch' = [batch EXCEPT !.todo = @ \ {i}]
  /\ UNCHANGED <<cvars, daemonvars, worldvars, histvars, nudge, owing>>

EndApproveAll ==
  /\ batch.open
  /\ batch.todo = {}
  /\ batch' = NoBatch
  /\ IF batch.got THEN Nudge ELSE nudge' = nudge
  /\ UNCHANGED <<cvars, daemonvars, worldvars, histvars, approval, owing>>

Review ==
  \/ ListStaged
  \/ EndApproveAll
  \/ \E i \in Items : Approve(i) \/ NotifyApproved(i) \/ Reject(i) \/ ApproveNext(i)
-----------------------------------------------------------------------------
(* The poll. *)

(* GetSyncState and the first request.                                      *)
BeginPoll ==
  /\ loop \in {"begin", "ready"}
  /\ loop' = "asking"
  /\ snap' = sync
  /\ used' = live
  /\ UNCHANGED <<cvars, sync, labelResolved, reviewvars, worldvars, histvars>>

(* ReplaceableTokenSource: every request reads the source of the moment.    *)
NextRequest ==
  /\ loop = "polling"
  /\ loop' = "asking"
  /\ used' = live
  /\ UNCHANGED <<cvars, sync, snap, labelResolved, reviewvars, worldvars, histvars>>

Answered ==
  /\ loop = "asking"
  /\ used \notin refused
  /\ loop' = "polling"
  /\ used' = None
  /\ UNCHANGED <<cvars, sync, snap, labelResolved, reviewvars, worldvars, histvars>>

(* RunIteration goes on with the uploads however the poll ended.            *)
PollEnds ==
  /\ loop' = "resolving"
  /\ used' = None
  /\ snap' = sync'

(* The end of Poll: the row read at its start, with the flags cleared.      *)
PollProgress ==
  /\ loop = "polling"
  /\ sync' = [snap EXCEPT !.auth = FALSE, !.fails = 0, !.notified = FALSE]
  /\ PollEnds
  /\ told' = [stall |-> 0, auth |-> 0]
  /\ lost' = {}
  /\ barren' = 0
  /\ UNCHANGED <<cvars, labelResolved, reviewvars, worldvars, blind>>

(* failPoll, RecordPollFailure: count, and mark the episode announced when  *)
(* the budget is used up for the first time.  The announcement comes after. *)
(* A cycle that parked a message has told the human so.                     *)
PollFails ==
  LET fails == AtMost(sync.fails + 1, StallBudget)
      escalate == fails = StallBudget /\ ~sync.notified
  IN /\ loop \in {"asking", "polling"}
     /\ sync' = [sync EXCEPT !.fails = fails, !.notified = @ \/ escalate]
     /\ \E parked \in BOOLEAN :
          /\ loop' = IF ~escalate THEN "resolving" ELSE IF parked THEN "hushing" ELSE "stalled"
          /\ barren' = IF parked THEN 0 ELSE AtMost(barren + 1, StallBudget)
     /\ used' = None
     /\ snap' = sync'
     /\ UNCHANGED <<cvars, labelResolved, reviewvars, worldvars, told, lost, blind>>

(* The cycle ends and sync_state does not know of it.                       *)
Unrecorded(reason) ==
  /\ Fault
  /\ sync' = sync
  /\ PollEnds
  /\ barren' = AtMost(barren + 1, StallBudget)
  /\ lost' = lost \cup {reason}
  /\ UNCHANGED <<started, generation, attempt, genOf, stage, lock, keychain, live, unsure>>
  /\ UNCHANGED <<labelResolved, reviewvars, worldvars, told, blind>>

(* An error that is context.DeadlineExceeded to errors.Is, as the time-outs *)
(* of net are, passes for a shutdown and is not counted.                    *)
PollTimesOut ==
  /\ loop = "asking"
  /\ Unrecorded("uncounted")

(* The cycle fails, and recording that fails too.                           *)
PollFailureUnrecorded ==
  /\ loop \in {"asking", "polling"}
  /\ Unrecorded("stall")

(* A notice is given, or lost without a trace: its error is ignored.        *)
Notify(kind) ==
  \/ /\ told' = [told EXCEPT ![kind] = AtMost(@ + 1, 2)]
     /\ UNCHANGED <<cvars, lost>>
  \/ /\ Fault
     /\ lost' = lost \cup {kind}
     /\ told' = told
     /\ UNCHANGED <<started, generation, attempt, genOf, stage, lock, keychain, live, unsure>>

AnnounceStall ==
  /\ loop = "stalled"
  /\ loop' = "resolving"
  /\ Notify("stall")
  /\ UNCHANGED <<sync, snap, used, labelResolved, reviewvars, worldvars, barren, blind>>

(* Slip: the marker stays set although nothing was announced.               *)
HushKeepsMarker ==
  /\ loop = "hushing"
  /\ loop' = "resolving"
  /\ UNCHANGED <<cvars, sync, snap, used, labelResolved, reviewvars, worldvars, histvars>>

(* F-83: the marker is rolled back when the cycle has announced a park;     *)
(* the second write may fail.                                               *)
Hush ==
  /\ loop = "hushing"
  /\ loop' = "resolving"
  /\ \/ /\ sync' = [sync EXCEPT !.notified = FALSE]
        /\ UNCHANGED <<cvars, lost>>
     \/ /\ Fault
        /\ lost' = lost \cup {"stall"}
        /\ sync' = sync
        /\ UNCHANGED <<started, generation, attempt, genOf, stage, lock, keychain, live, unsure>>
  /\ snap' = sync'
  /\ UNCHANGED <<used, labelResolved, reviewvars, worldvars, told, barren, blind>>

(* handleReauth: the condition is saved, and announced when it is new.      *)
Reauth ==
  /\ loop = "asking"
  /\ used \in refused
  /\ sync' = [snap EXCEPT !.auth = TRUE]
  /\ loop' = IF snap.auth THEN "resolving" ELSE "reauth"
  /\ used' = None
  /\ snap' = sync'
  /\ barren' = 0
  /\ UNCHANGED <<cvars, labelResolved, reviewvars, worldvars, told, lost, blind>>

AnnounceReauth ==
  /\ loop = "reauth"
  /\ loop' = "resolving"
  /\ Notify("auth")
  /\ UNCHANGED <<sync, snap, used, labelResolved, reviewvars, worldvars, barren, blind>>

PollStep ==
  \/ BeginPoll
  \/ NextRequest
  \/ Answered
  \/ PollProgress
  \/ PollFails
  \/ PollTimesOut
  \/ PollFailureUnrecorded
  \/ AnnounceStall
  \/ Hush
  \/ Reauth
  \/ AnnounceReauth
-----------------------------------------------------------------------------
(* Uploads. *)

(* The upload ticker, or a nudge.                                           *)
UploadTick ==
  /\ loop = "ready"
  /\ loop' = "resolving"
  /\ UNCHANGED <<cvars, sync, snap, used, labelResolved, reviewvars, worldvars, histvars>>

TakeNudge ==
  /\ loop = "ready"
  /\ nudge
  /\ nudge' = FALSE
  /\ loop' = "resolving"
  /\ UNCHANGED <<cvars, sync, snap, used, labelResolved, approval, owing, batch, worldvars, histvars>>

AlreadyResolved ==
  /\ loop = "resolving"
  /\ labelResolved
  /\ loop' = "draining"
  /\ UNCHANGED <<cvars, sync, snap, used, labelResolved, reviewvars, worldvars, histvars>>

(* Slip: the label counts as resolved although its id was not saved.        *)
ResolveLabelUnsaved ==
  /\ loop = "resolving"
  /\ ~labelResolved
  /\ labelExists
  /\ live \notin refused
  /\ labelResolved' = TRUE
  /\ loop' = "draining"
  /\ UNCHANGED <<cvars, sync, snap, used, reviewvars, worldvars, histvars>>

(* ResolveAndPersistSubmittedLabel: a fresh read and a whole write.         *)
ResolveLabel ==
  /\ loop = "resolving"
  /\ ~labelResolved
  /\ labelExists
  /\ live \notin refused
  /\ sync' = [sync EXCEPT !.label = TRUE]
  /\ snap' = sync'
  /\ labelResolved' = TRUE
  /\ loop' = "draining"
  /\ UNCHANGED <<cvars, used, reviewvars, worldvars, histvars>>

(* Slip: an absent label ends Run.                                          *)
ResolveFailsForGood ==
  /\ loop = "resolving"
  /\ ~labelResolved
  /\ loop' = IF labelExists THEN "ready" ELSE "ended"
  /\ UNCHANGED <<cvars, sync, snap, used, labelResolved, reviewvars, worldvars, histvars>>

(* The label is not there, or the lookup or the write fails: the next       *)
(* iteration tries again.                                                   *)
ResolveFails ==
  /\ loop = "resolving"
  /\ ~labelResolved
  /\ loop' = "ready"
  /\ UNCHANGED <<cvars, sync, snap, used, labelResolved, reviewvars, worldvars, histvars>>

(* RunBatch claims one approved item after another (see Uploader) ...       *)
LookAt(i) ==
  /\ loop = "draining"
  /\ approval[i] = "fresh"
  /\ approval' = [approval EXCEPT ![i] = "settled"]
  /\ UNCHANGED <<cvars, daemonvars, nudge, owing, batch, worldvars, histvars>>

(* ... until nothing is left to claim; approvals may come before the loop   *)
(* waits again ...                                                          *)
DrainEnds ==
  /\ loop = "draining"
  /\ \A i \in Items : approval[i] # "fresh"
  /\ loop' = "returning"
  /\ blind' = FALSE
  /\ UNCHANGED <<cvars, sync, snap, used, labelResolved, reviewvars, worldvars, told, lost, barren>>

WaitAgain ==
  /\ loop = "returning"
  /\ loop' = "ready"
  /\ UNCHANGED <<cvars, sync, snap, used, labelResolved, reviewvars, worldvars, histvars>>

(* ... or a claim fails, which ends the batch.                              *)
DrainFails ==
  /\ loop = "draining"
  /\ Fault
  /\ loop' = "ready"
  /\ blind' = TRUE
  /\ UNCHANGED <<started, generation, attempt, genOf, stage, lock, keychain, live, unsure>>
  /\ UNCHANGED <<sync, snap, used, labelResolved, reviewvars, worldvars, told, lost, barren>>

DrainStep ==
  \/ UploadTick
  \/ TakeNudge
  \/ AlreadyResolved
  \/ ResolveLabel
  \/ ResolveFails
  \/ \E i \in Items : LookAt(i)
  \/ DrainEnds
  \/ WaitAgain
  \/ DrainFails
-----------------------------------------------------------------------------
(* The process and the world. *)

StartDaemon ==
  /\ Boot \/ BootFromDisk
  /\ loop' = "begin"
  /\ UNCHANGED <<sync, snap, used, labelResolved, reviewvars, worldvars, histvars>>

DieDaemon ==
  /\ Die
  /\ loop' = "down"
  /\ snap' = sync
  /\ used' = None
  /\ labelResolved' = FALSE
  /\ nudge' = FALSE
  /\ owing' = {}
  /\ batch' = NoBatch
  /\ blind' = FALSE
  /\ lost' = lost \cup (IF loop \in {"stalled", "hushing"} THEN {"stall"} ELSE {})
                  \cup (IF loop = "reauth" THEN {"auth"} ELSE {})
  /\ UNCHANGED <<sync, approval, worldvars, told, barren>>

Reconnecting ==
  /\ Reconnect
  /\ UNCHANGED <<daemonvars, reviewvars, worldvars, histvars>>

(* Google revokes a token, or it expires, and its access token with it.     *)
Refuse ==
  /\ Up
  /\ live \notin refused
  /\ refused' = refused \cup {live}
  /\ UNCHANGED <<cvars, daemonvars, reviewvars, labelExists, histvars>>

CreateLabel ==
  /\ ~labelExists
  /\ labelExists' = TRUE
  /\ UNCHANGED <<cvars, daemonvars, reviewvars, refused, histvars>>

DInit ==
  /\ CInit
  /\ sync = [label |-> FALSE, auth |-> FALSE, fails |-> 0, notified |-> FALSE]
  /\ snap = sync
  /\ loop = "down"
  /\ used = None
  /\ labelResolved = FALSE
  /\ nudge = FALSE
  /\ approval = [i \in Items |-> "staged"]
  /\ owing = {}
  /\ batch = NoBatch
  /\ refused = {}
  /\ labelExists \in BOOLEAN
  /\ told = [stall |-> 0, auth |-> 0]
  /\ lost = {}
  /\ barren = 0
  /\ blind = FALSE

LoopStep == PollStep \/ DrainStep

DNext ==
  \/ LoopStep
  \/ Review
  \/ StartDaemon
  \/ DieDaemon
  \/ Reconnecting
  \/ Refuse
  \/ CreateLabel

DSpec == DInit /\ [][DNext]_dvars
-----------------------------------------------------------------------------
(* Properties. *)

(* Type invariant.                                                          *)
DTypeOK ==
  /\ CTypeOK
  /\ sync \in SyncState
  /\ snap \in SyncState
  /\ loop \in {"down", "begin", "ready", "asking", "polling", "stalled", "hushing", "reauth",
               "resolving", "draining", "returning"}
  /\ used \in Tokens \cup {None}
  /\ labelResolved \in BOOLEAN
  /\ nudge \in BOOLEAN
  /\ approval \in [Items -> {"staged", "fresh", "settled"}]
  /\ owing \subseteq Items
  /\ batch \in [open : BOOLEAN, todo : SUBSET Items, got : BOOLEAN]
  /\ refused \subseteq Tokens
  /\ labelExists \in BOOLEAN
  /\ told \in [stall : 0..2, auth : 0..2]
  /\ lost \subseteq {"stall", "auth", "uncounted"}
  /\ barren \in 0..StallBudget
  /\ blind \in BOOLEAN

(* daemon.go:117-121, "coalescing is the correct behaviour rather than a    *)
(* lost signal": while the loop waits, every approval it has not looked at  *)
(* has a nudge in the channel or a handler about to send one; the ticker is *)
(* needed only after a batch that failed.                                   *)
ApprovalsAreSeen ==
  \A i \in Items :
    approval[i] = "fresh" /\ loop = "ready" /\ labelResolved =>
      nudge \/ i \in owing \/ batch.got \/ blind

(* The markers in sync_state tell what the human was told, across restarts  *)
(* and cycles that fail in different ways: no episode is announced twice, a *)
(* marker stands for an announcement, and a stall as long as the budget has *)
(* one.  Excused: an announcement that was lost, and uncounted failures.    *)
NoticesMatchMarkers ==
  /\ told.stall <= 1 /\ told.auth <= 1
  /\ loop = "ready" /\ "stall" \notin lost =>
       /\ sync.notified <=> told.stall = 1
       /\ barren = StallBudget => sync.notified \/ "uncounted" \in lost
  /\ loop = "ready" /\ "auth" \notin lost => (sync.auth <=> told.auth = 1)

(* F-15: an upload never runs without the label id its success is labeled   *)
(* with (Uploader assumes it), whatever polls rewrite the row in between.   *)
LabelIsKnown == loop = "draining" => sync.label

(* F-81 and F-82: a stall as long as the budget is announced, unless a      *)
(* write or a notice was lost.                                              *)
StallIsAnnounced ==
  loop = "ready" /\ barren = StallBudget /\ "stall" \notin lost => told.stall = 1
=============================================================================
