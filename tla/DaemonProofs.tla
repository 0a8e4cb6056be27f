----------------------------- MODULE DaemonProofs -----------------------------
(***************************************************************************)
(* Theorems about Daemon, for any consents, faults, items and stall budget:*)
(* an upload knows its label, no approval waits unseen, and the markers of *)
(* sync_state match the notices the human got.                             *)
(***************************************************************************)
EXTENDS Daemon, ConsentProofs

(* Nothing but the loop writes sync_state while the loop works from a copy  *)
(* of it, and a process that is gone has no loop.                           *)
RowIsOwned == snap = sync /\ (~Up => loop = "down")

(* A resolved label is a saved one, and only a resolved one opens a drain.  *)
LabelIsSaved ==
  /\ labelResolved => sync.label
  /\ loop = "draining" => labelResolved

(* From the end of a drain until the loop leaves the wait, an approval has  *)
(* its nudge, or somebody who will send it.                                 *)
NudgesFollow ==
  /\ ~batch.open => batch.todo = {} /\ ~batch.got
  /\ \A i \in Items :
       approval[i] = "fresh" /\ loop \in {"returning", "ready"} /\ labelResolved =>
         nudge \/ i \in owing \/ batch.got \/ blind

(* Between the marker of a stall and its notice the loop is on the way to   *)
(* give it, or to take the marker back.                                     *)
StallNotices ==
  /\ told.stall <= 1
  /\ told.stall = 1 => sync.notified
  /\ loop \in {"stalled", "hushing"} => sync.notified /\ told.stall = 0
  /\ "stall" \notin lost /\ sync.notified => loop \in {"stalled", "hushing"} \/ told.stall = 1

(* The counter of the row keeps up with the cycles nobody heard of.         *)
StallCount ==
  /\ loop = "hushing" => barren = 0
  /\ lost \cap {"stall", "uncounted"} = {} =>
       barren <= sync.fails /\ (barren = StallBudget => sync.notified)

AuthNotices ==
  /\ told.auth <= 1
  /\ told.auth = 1 => sync.auth
  /\ loop = "reauth" => sync.auth /\ told.auth = 0
  /\ "auth" \notin lost /\ sync.auth => loop = "reauth" \/ told.auth = 1

DInv ==
  /\ CInv
  /\ DTypeOK
  /\ RowIsOwned
  /\ LabelIsSaved
  /\ NudgesFollow
  /\ StallNotices
  /\ StallCount
  /\ AuthNotices
-----------------------------------------------------------------------------
(* The daemon's steps. *)

(* What the handlers and the world do while the loop stands still.          *)
Quiet == UNCHANGED <<daemonvars, histvars>>

(* The review handlers, a consent, Google and the mailbox are quiet.        *)
LEMMA QuietSteps ==
  ASSUME Review \/ Reconnecting \/ Refuse \/ CreateLabel \/ UNCHANGED dvars
  PROVE  Quiet
<1>1. CASE Review
  BY <1>1 DEF Review, Quiet, ListStaged, EndApproveAll, Approve, NotifyApproved, Reject,
              ApproveNext, daemonvars, histvars
<1>2. CASE Reconnecting \/ Refuse \/ CreateLabel \/ UNCHANGED dvars
  BY <1>2 DEF Reconnecting, Refuse, CreateLabel, dvars, Quiet, daemonvars, histvars
<1> QED
  BY <1>1, <1>2

(* A fault of the daemon, not of the consents.                              *)
FaultElsewhere ==
  /\ Fault
  /\ UNCHANGED <<started, generation, attempt, genOf, stage, lock, keychain, live, unsure>>

(* Consent sees of the daemon its own steps, and faults elsewhere.          *)
LEMMA ConsentView ==
  ASSUME [DNext]_dvars
  PROVE  [CNext]_cvars \/ FaultElsewhere
<1>1. CASE PollStep
  <2>1. CASE PollTimesOut \/ PollFailureUnrecorded
    BY <2>1 DEF PollTimesOut, PollFailureUnrecorded, Unrecorded, FaultElsewhere
  <2>2. CASE AnnounceStall \/ AnnounceReauth \/ Hush
    BY <2>2 DEF AnnounceStall, AnnounceReauth, Notify, Hush, FaultElsewhere
  <2>3. CASE BeginPoll \/ NextRequest \/ Answered \/ PollProgress \/ PollFails \/ Reauth
    BY <2>3 DEF BeginPoll, NextRequest, Answered, PollProgress, PollFails, Reauth
  <2> QED
    BY <1>1, <2>1, <2>2, <2>3 DEF PollStep
<1>2. CASE DrainStep
  BY <1>2 DEF DrainStep, DrainFails, FaultElsewhere, UploadTick, TakeNudge, AlreadyResolved,
              ResolveLabel, ResolveFails, DrainEnds, WaitAgain, LookAt
<1>3. CASE Review
  BY <1>3 DEF Review, ListStaged, EndApproveAll, Approve, NotifyApproved, Reject, ApproveNext
<1>4. CASE StartDaemon \/ DieDaemon \/ Reconnecting
  BY <1>4 DEF StartDaemon, DieDaemon, Reconnecting, CNext
<1>5. CASE Refuse \/ CreateLabel \/ UNCHANGED dvars
  BY <1>5 DEF Refuse, CreateLabel, dvars
<1> QED
  BY <1>1, <1>2, <1>3, <1>4, <1>5 DEF DNext, LoopStep

(* The types of Consent survive every step of the daemon ...                *)
LEMMA ConsentTypes ==
  ASSUME CTypeOK, [DNext]_dvars
  PROVE  CTypeOK'
<1>1. CASE FaultElsewhere
  BY <1>1, ConsentAssumption DEF FaultElsewhere, Fault, CTypeOK
<1> QED
  BY <1>1, ConsentView, CTypeStep

(* ... and so does its invariant.                                           *)
LEMMA ConsentStep ==
  ASSUME CInv, [DNext]_dvars
  PROVE  CInv'
<1>1. CASE FaultElsewhere
  <2>1. CTypeOK'
    BY ConsentTypes DEF CInv
  <2>2. LockDiscipline' /\ TokensInStep'
    BY <1>1 DEF FaultElsewhere, CInv, LockDiscipline, TokensInStep, Up
  <2> QED
    BY <2>1, <2>2 DEF CInv
<1>2. CASE [CNext]_cvars
  BY <1>2, CTypeStep, LockStep, TokensStep DEF CInv
<1> QED
  BY <1>1, <1>2, ConsentView
-----------------------------------------------------------------------------
(* Types. *)

Places == {"down", "begin", "ready", "asking", "polling", "stalled", "hushing", "reauth",
           "resolving", "draining", "returning"}

LoopTypes ==
  /\ sync \in SyncState
  /\ snap \in SyncState
  /\ loop \in Places
  /\ used \in Tokens \cup {None}
  /\ labelResolved \in BOOLEAN

ReviewTypes ==
  /\ nudge \in BOOLEAN
  /\ approval \in [Items -> {"staged", "fresh", "settled"}]
  /\ owing \subseteq Items
  /\ batch \in [open : BOOLEAN, todo : SUBSET Items, got : BOOLEAN]

WorldTypes ==
  /\ refused \subseteq Tokens
  /\ labelExists \in BOOLEAN

HistoryTypes ==
  /\ told \in [stall : 0..2, auth : 0..2]
  /\ lost \subseteq {"stall", "auth", "uncounted"}
  /\ barren \in 0..StallBudget
  /\ blind \in BOOLEAN

(* The type invariant by the parts that actions change together.            *)
LEMMA TypeParts == DTypeOK <=> CTypeOK /\ LoopTypes /\ ReviewTypes /\ WorldTypes /\ HistoryTypes
  BY DEF DTypeOK, LoopTypes, ReviewTypes, WorldTypes, HistoryTypes, Places

(* A capped counter stays in its range.                                     *)
LEMMA Capped ==
  ASSUME NEW bound \in Nat, NEW n \in 0..bound
  PROVE  AtMost(n + 1, bound) \in 0..bound
  BY DEF AtMost

(* The poll keeps the types of the loop and of the history.                 *)
LEMMA PollTypes ==
  ASSUME CTypeOK, LoopTypes, HistoryTypes, PollStep
  PROVE  LoopTypes' /\ HistoryTypes'
<1> USE DaemonAssumption
<1>0. /\ live \in Tokens \cup {None}
      /\ None \in Tokens \cup {None}
  BY DEF CTypeOK
<1>1. CASE BeginPoll \/ NextRequest \/ Answered
  BY <1>0, <1>1 DEF BeginPoll, NextRequest, Answered, histvars, LoopTypes, HistoryTypes, Places
<1>2. CASE PollProgress
  <2>1. /\ sync' = [snap EXCEPT !.auth = FALSE, !.fails = 0, !.notified = FALSE]
        /\ snap' = sync' /\ loop' = "resolving" /\ used' = None
        /\ UNCHANGED labelResolved
    BY <1>2 DEF PollProgress, PollEnds
  <2>2. sync' \in SyncState
    <3>1. 0 \in 0..StallBudget
      BY DEF DaemonAssumption
    <3> QED
      BY <2>1, <3>1 DEF LoopTypes, SyncState
  <2>3. LoopTypes'
    BY <1>0, <2>1, <2>2 DEF LoopTypes, Places
  <2>4. HistoryTypes'
    BY <1>2 DEF PollProgress, HistoryTypes
  <2> QED
    BY <2>3, <2>4
<1>3. CASE PollFails
  <2> DEFINE fails == AtMost(sync.fails + 1, StallBudget)
             marked == sync.notified \/ (fails = StallBudget /\ ~sync.notified)
  <2>1. fails \in 0..StallBudget
    BY Capped DEF LoopTypes, SyncState
  <2>2. AtMost(barren + 1, StallBudget) \in 0..StallBudget
    BY Capped DEF HistoryTypes
  <2>3. sync' = [sync EXCEPT !.fails = fails, !.notified = marked] /\ snap' = sync'
    BY <1>3 DEF PollFails
  <2>4. sync' \in SyncState
    <3> HIDE DEF fails
    <3> QED BY <2>1, <2>3 DEF SyncState, LoopTypes
  <2>5. /\ loop' \in Places
        /\ barren' \in 0..StallBudget
        /\ used' = None
        /\ UNCHANGED <<labelResolved, told, lost, blind>>
    BY <1>3, <2>2 DEF PollFails, Places
  <2> QED
    BY <1>0, <2>3, <2>4, <2>5 DEF LoopTypes, HistoryTypes
<1>4. ASSUME NEW reason \in {"stall", "uncounted"}, Unrecorded(reason)
      PROVE  LoopTypes' /\ HistoryTypes'
  <2>1. AtMost(barren + 1, StallBudget) \in 0..StallBudget
    BY Capped DEF HistoryTypes
  <2> QED
    BY <1>0, <1>4, <2>1 DEF Unrecorded, PollEnds, LoopTypes, HistoryTypes, Places
<1>5. ASSUME NEW kind \in {"stall", "auth"}, Notify(kind), UNCHANGED <<barren, blind>>
      PROVE  HistoryTypes'
  <2>1. /\ told' = told \/ told' = [told EXCEPT ![kind] = AtMost(@ + 1, 2)]
        /\ lost' = lost \/ lost' = lost \cup {kind}
    BY <1>5 DEF Notify
  <2>2. told[kind] \in 0..2 /\ AtMost(told[kind] + 1, 2) \in 0..2
    BY <1>5 DEF HistoryTypes, AtMost
  <2>3. told' \in [stall : 0..2, auth : 0..2]
    BY <2>1, <2>2 DEF HistoryTypes
  <2>4. lost' \subseteq {"stall", "auth", "uncounted"}
    BY <2>1 DEF HistoryTypes
  <2> QED
    BY <1>5, <2>3, <2>4 DEF HistoryTypes
<1>6. CASE AnnounceStall \/ AnnounceReauth
  BY <1>5, <1>6 DEF AnnounceStall, AnnounceReauth, LoopTypes, Places
<1>7. CASE Hush
  BY <1>7 DEF Hush, LoopTypes, HistoryTypes, SyncState, Places
<1>8. CASE Reauth
  <2>1. /\ sync' = [snap EXCEPT !.auth = TRUE]
        /\ snap' = sync' /\ loop' \in {"resolving", "reauth"} /\ used' = None /\ barren' = 0
        /\ UNCHANGED <<labelResolved, told, lost, blind>>
    BY <1>8 DEF Reauth
  <2>2. sync' \in SyncState
    BY <2>1 DEF LoopTypes, SyncState
  <2> QED
    BY <1>0, <2>1, <2>2 DEF LoopTypes, HistoryTypes, Places
<1> QED
  BY <1>1, <1>2, <1>3, <1>4, <1>6, <1>7, <1>8
     DEF PollStep, PollTimesOut, PollFailureUnrecorded

(* The drain keeps all of them.                                             *)
LEMMA DrainTypes ==
  ASSUME LoopTypes, ReviewTypes, WorldTypes, HistoryTypes, DrainStep
  PROVE  LoopTypes' /\ ReviewTypes' /\ WorldTypes' /\ HistoryTypes'
<1> USE DEF reviewvars, worldvars, histvars, daemonvars
<1>1. CASE UploadTick \/ AlreadyResolved \/ ResolveFails \/ WaitAgain \/ DrainEnds \/ DrainFails
  BY <1>1 DEF UploadTick, AlreadyResolved, ResolveFails, WaitAgain, DrainEnds, DrainFails,
              LoopTypes, ReviewTypes, WorldTypes, HistoryTypes, Places
<1>2. CASE TakeNudge
  BY <1>2 DEF TakeNudge, LoopTypes, ReviewTypes, WorldTypes, HistoryTypes, Places
<1>3. CASE ResolveLabel
  BY <1>3 DEF ResolveLabel, LoopTypes, ReviewTypes, WorldTypes, HistoryTypes, SyncState, Places
<1>4. ASSUME NEW i \in Items, LookAt(i)
      PROVE  LoopTypes' /\ ReviewTypes' /\ WorldTypes' /\ HistoryTypes'
  BY <1>4 DEF LookAt, LoopTypes, ReviewTypes, WorldTypes, HistoryTypes
<1> QED
  BY <1>1, <1>2, <1>3, <1>4 DEF DrainStep

(* The review handlers keep theirs.                                         *)
LEMMA ReviewKeepsTypes ==
  ASSUME ReviewTypes, Review
  PROVE  ReviewTypes' /\ UNCHANGED <<cvars, daemonvars, worldvars, histvars>>
<1> USE DEF ReviewTypes
<1>1. CASE ListStaged
  BY <1>1 DEF ListStaged
<1>2. CASE EndApproveAll
  BY <1>2 DEF EndApproveAll, NoBatch, Nudge
<1>3. ASSUME NEW i \in Items, Approve(i) \/ NotifyApproved(i) \/ Reject(i)
      PROVE  ReviewTypes' /\ UNCHANGED <<cvars, daemonvars, worldvars, histvars>>
  BY <1>3 DEF Approve, NotifyApproved, Reject, Nudge
<1>4. ASSUME NEW i \in Items, ApproveNext(i)
      PROVE  ReviewTypes' /\ UNCHANGED <<cvars, daemonvars, worldvars, histvars>>
  BY <1>4 DEF ApproveNext
<1> QED
  BY <1>1, <1>2, <1>3, <1>4 DEF Review

(* Every step keeps the types.                                              *)
LEMMA DTypeStep ==
  ASSUME DTypeOK, [DNext]_dvars
  PROVE  DTypeOK'
<1>0. CTypeOK /\ LoopTypes /\ ReviewTypes /\ WorldTypes /\ HistoryTypes /\ CTypeOK'
  BY TypeParts, ConsentTypes DEF DTypeOK
<1> SUFFICES LoopTypes' /\ ReviewTypes' /\ WorldTypes' /\ HistoryTypes'
  BY <1>0, TypeParts DEF DTypeOK, LoopTypes, ReviewTypes, WorldTypes, HistoryTypes, Places
<1>1. UNCHANGED reviewvars => ReviewTypes'
  BY <1>0 DEF reviewvars, ReviewTypes
<1>2. UNCHANGED worldvars => WorldTypes'
  BY <1>0 DEF worldvars, WorldTypes
<1>3. UNCHANGED histvars => HistoryTypes'
  BY <1>0 DEF histvars, HistoryTypes
<1>4. UNCHANGED daemonvars => LoopTypes'
  BY <1>0 DEF daemonvars, LoopTypes
<1>5. CASE PollStep
  <2>1. UNCHANGED <<reviewvars, worldvars>>
    BY <1>5 DEF PollStep, BeginPoll, NextRequest, Answered, PollProgress, PollFails, PollTimesOut,
                PollFailureUnrecorded, Unrecorded, AnnounceStall, Hush, Reauth, AnnounceReauth
  <2> QED
    BY <1>0, <1>1, <1>2, <1>5, <2>1, PollTypes
<1>6. CASE DrainStep
  BY <1>0, <1>6, DrainTypes
<1>7. CASE Review
  BY <1>0, <1>2, <1>3, <1>4, <1>7, ReviewKeepsTypes
<1>8. CASE StartDaemon
  <2>1. LoopTypes'
    BY <1>0, <1>8 DEF StartDaemon, LoopTypes, Places
  <2> QED
    BY <1>1, <1>2, <1>3, <1>8, <2>1 DEF StartDaemon
<1>9. CASE DieDaemon
  <2>1. LoopTypes'
    BY <1>0, <1>9 DEF DieDaemon, LoopTypes, Places
  <2>2. ReviewTypes'
    BY <1>0, <1>9 DEF DieDaemon, ReviewTypes, NoBatch
  <2>3. HistoryTypes'
    BY <1>0, <1>9 DEF DieDaemon, HistoryTypes
  <2> QED
    BY <1>2, <1>9, <2>1, <2>2, <2>3 DEF DieDaemon
<1>10. CASE Reconnecting \/ UNCHANGED dvars
  BY <1>1, <1>2, <1>3, <1>4, <1>10 DEF Reconnecting, dvars
<1>11. CASE Refuse
  <2>1. live \in Tokens
    BY <1>0, <1>11 DEF Refuse, Up, CTypeOK
  <2>2. WorldTypes'
    BY <1>0, <1>11, <2>1 DEF Refuse, WorldTypes
  <2> QED
    BY <1>1, <1>3, <1>4, <1>11, <2>2 DEF Refuse
<1>12. CASE CreateLabel
  BY <1>0, <1>1, <1>3, <1>4, <1>12 DEF CreateLabel, WorldTypes
<1> QED
  BY <1>5, <1>6, <1>7, <1>8, <1>9, <1>10, <1>11, <1>12 DEF DNext, LoopStep
-----------------------------------------------------------------------------
(* The parts of the invariant. *)

(* The initial states satisfy the invariant.                                *)
LEMMA DInitInv == DInit => DInv
<1> SUFFICES ASSUME DInit PROVE DInv
  OBVIOUS
<1>1. CInv /\ CTypeOK
  BY CInitInv DEF DInit, CInv
<1>2. LoopTypes /\ ReviewTypes /\ WorldTypes /\ HistoryTypes
  <2>1. 0 \in 0..StallBudget
    BY DaemonAssumption
  <2>2. LoopTypes
    BY <2>1 DEF DInit, LoopTypes, SyncState, Places
  <2>3. ReviewTypes /\ WorldTypes
    BY DEF DInit, ReviewTypes, WorldTypes, NoBatch
  <2>4. HistoryTypes
    <3>1. told = [stall |-> 0, auth |-> 0] /\ lost = {} /\ barren = 0 /\ blind = FALSE
      BY DEF DInit
    <3>2. told \in [stall : 0..2, auth : 0..2]
      BY <3>1
    <3>3. lost \subseteq {"stall", "auth", "uncounted"}
      BY <3>1
    <3>4. barren \in 0..StallBudget
      BY <2>1, <3>1
    <3> QED
      BY <3>1, <3>2, <3>3, <3>4 DEF HistoryTypes
  <2> QED
    BY <2>2, <2>3, <2>4
<1>3. RowIsOwned /\ LabelIsSaved /\ NudgesFollow
  BY DEF DInit, RowIsOwned, LabelIsSaved, NudgesFollow, NoBatch
<1>4. StallNotices /\ StallCount /\ AuthNotices
  BY DaemonAssumption DEF DInit, StallNotices, StallCount, AuthNotices
<1> QED
  BY <1>1, <1>2, <1>3, <1>4, TypeParts DEF DInv

(* The row stays owned.                                                     *)
LEMMA OwnedStep ==
  ASSUME CTypeOK, RowIsOwned, [DNext]_dvars
  PROVE  RowIsOwned'
<1> USE DEF RowIsOwned
<1>1. CASE PollStep
  <2>1. snap' = sync'
    BY <1>1 DEF PollStep, BeginPoll, NextRequest, Answered, PollProgress, PollEnds, PollFails,
                PollTimesOut, PollFailureUnrecorded, Unrecorded, AnnounceStall, Hush, Reauth,
                AnnounceReauth
  <2>2. live' = live /\ loop # "down"
    BY <1>1 DEF PollStep, BeginPoll, NextRequest, Answered, PollProgress, PollFails, PollTimesOut,
                PollFailureUnrecorded, Unrecorded, AnnounceStall, Notify, Hush, Reauth,
                AnnounceReauth, cvars
  <2> QED
    BY <2>1, <2>2 DEF Up
<1>2. CASE DrainStep
  <2>1. snap' = sync'
    BY <1>2 DEF DrainStep, UploadTick, TakeNudge, AlreadyResolved, ResolveLabel, ResolveFails,
                LookAt, DrainEnds, WaitAgain, DrainFails, daemonvars
  <2>2. live' = live /\ loop # "down"
    BY <1>2 DEF DrainStep, UploadTick, TakeNudge, AlreadyResolved, ResolveLabel, ResolveFails,
                LookAt, DrainEnds, WaitAgain, DrainFails, cvars
  <2> QED
    BY <2>1, <2>2 DEF Up
<1>3. CASE StartDaemon
  BY <1>3 DEF StartDaemon, Boot, BootFromDisk, Up, CTypeOK, Tokens, Consents, Original, None
<1>4. CASE DieDaemon
  BY <1>4 DEF DieDaemon
<1>5. CASE Reconnecting
  <2>1. ASSUME NEW c \in Consents, Handler(c) PROVE live' \in {live, c}
    BY <2>1 DEF Handler, Callback, ExchangeFails, Superseded, BeginInstall, SaveGmailToken,
                SaveFails, Replace
  <2>2. live' = None => live = None
    BY <1>5, <2>1, ConsentAssumption DEF Reconnecting, Reconnect, StartConsent, Expire, Consents, None
  <2> QED
    BY <1>5, <2>2, QuietSteps DEF Quiet, daemonvars, Up
<1>6. CASE Review \/ Refuse \/ CreateLabel \/ UNCHANGED dvars
  <2>1. live' = live
    BY <1>6 DEF Review, ListStaged, EndApproveAll, Approve, NotifyApproved, Reject, ApproveNext,
                Refuse, CreateLabel, dvars, cvars
  <2> QED
    BY <1>6, <2>1, QuietSteps DEF Quiet, daemonvars, Up
<1> QED
  BY <1>1, <1>2, <1>3, <1>4, <1>5, <1>6 DEF DNext, LoopStep

(* Only ResolveLabel resolves the label, and no other write of the row      *)
(* loses it.                                                                *)
LEMMA LabelStep ==
  ASSUME DTypeOK, RowIsOwned, LabelIsSaved, [DNext]_dvars
  PROVE  LabelIsSaved'
<1> USE DEF RowIsOwned, LabelIsSaved
<1>0. sync \in SyncState /\ snap = sync
  BY DEF DTypeOK
<1>1. CASE PollStep
  <2>1. labelResolved' = labelResolved /\ loop' # "draining"
    BY <1>1 DEF PollStep, BeginPoll, NextRequest, Answered, PollProgress, PollEnds, PollFails,
                PollTimesOut, PollFailureUnrecorded, Unrecorded, AnnounceStall, Hush, Reauth,
                AnnounceReauth
  <2>2. sync'.label = sync.label
    BY <1>0, <1>1 DEF PollStep, BeginPoll, NextRequest, Answered, PollProgress, PollFails,
                      PollTimesOut, PollFailureUnrecorded, Unrecorded, AnnounceStall, Hush, Reauth,
                      AnnounceReauth, SyncState
  <2> QED
    BY <2>1, <2>2
<1>2. CASE DrainStep
  <2>1. CASE ResolveLabel
    BY <1>0, <2>1 DEF ResolveLabel, SyncState
  <2>2. CASE UploadTick \/ TakeNudge \/ AlreadyResolved \/ ResolveFails \/ DrainEnds
               \/ WaitAgain \/ DrainFails \/ \E i \in Items : LookAt(i)
    BY <2>2 DEF UploadTick, TakeNudge, AlreadyResolved, ResolveFails, DrainEnds, WaitAgain,
                DrainFails, LookAt, daemonvars
  <2> QED
    BY <1>2, <2>1, <2>2 DEF DrainStep
<1>3. CASE StartDaemon \/ DieDaemon
  BY <1>3 DEF StartDaemon, DieDaemon
<1>4. CASE Review \/ Reconnecting \/ Refuse \/ CreateLabel \/ UNCHANGED dvars
  BY <1>4, QuietSteps DEF Quiet, daemonvars
<1> QED
  BY <1>1, <1>2, <1>3, <1>4 DEF DNext, LoopStep

(* No step leaves an approval without its nudge.                            *)
LEMMA NudgesStep ==
  ASSUME DTypeOK, NudgesFollow, [DNext]_dvars
  PROVE  NudgesFollow'
<1> USE DEF NudgesFollow
<1>0. ReviewTypes
  BY TypeParts
<1>1. CASE PollStep
  BY <1>1 DEF PollStep, BeginPoll, NextRequest, Answered, PollProgress, PollEnds, PollFails,
              PollTimesOut, PollFailureUnrecorded, Unrecorded, AnnounceStall, Hush, Reauth,
              AnnounceReauth, reviewvars
<1>2. CASE DrainStep
  <2>1. CASE UploadTick \/ TakeNudge \/ AlreadyResolved \/ ResolveLabel \/ ResolveFails
    BY <2>1 DEF UploadTick, TakeNudge, AlreadyResolved, ResolveLabel, ResolveFails, reviewvars
  <2>2. CASE DrainEnds \/ WaitAgain \/ DrainFails
    BY <2>2 DEF DrainEnds, WaitAgain, DrainFails, reviewvars, histvars
  <2>3. ASSUME NEW i \in Items, LookAt(i) PROVE NudgesFollow'
    BY <2>3 DEF LookAt, daemonvars
  <2> QED
    BY <1>2, <2>1, <2>2, <2>3 DEF DrainStep
<1>3. CASE Review
  <2>1. CASE ListStaged
    BY <1>0, <2>1 DEF ListStaged, ReviewTypes, daemonvars, histvars
  <2>2. CASE EndApproveAll
    BY <1>0, <2>2 DEF EndApproveAll, NoBatch, Nudge, ReviewTypes, daemonvars, histvars
  <2>3. ASSUME NEW i \in Items, Approve(i) \/ NotifyApproved(i) \/ Reject(i) PROVE NudgesFollow'
    BY <1>0, <2>3 DEF Approve, NotifyApproved, Reject, Nudge, ReviewTypes, daemonvars, histvars
  <2>4. ASSUME NEW i \in Items, ApproveNext(i) PROVE NudgesFollow'
    BY <1>0, <2>4 DEF ApproveNext, ReviewTypes, daemonvars, histvars
  <2> QED
    BY <1>3, <2>1, <2>2, <2>3, <2>4 DEF Review
<1>4. CASE StartDaemon
  BY <1>4 DEF StartDaemon, reviewvars
<1>5. CASE DieDaemon
  BY <1>5 DEF DieDaemon, NoBatch
<1>6. CASE Reconnecting \/ Refuse \/ CreateLabel \/ UNCHANGED dvars
  BY <1>6 DEF Reconnecting, Refuse, CreateLabel, dvars, daemonvars, reviewvars, histvars
<1> QED
  BY <1>1, <1>2, <1>3, <1>4, <1>5, <1>6 DEF DNext, LoopStep
-----------------------------------------------------------------------------
(* The notices. *)

(* What a step that gives up on a cycle, or on a notice, may have lost.     *)
LEMMA NoticeEffect ==
  ASSUME DTypeOK, NEW kind \in {"stall", "auth"}, Notify(kind), told[kind] = 0
  PROVE  /\ \/ told' = [told EXCEPT ![kind] = 1] /\ lost' = lost
            \/ told' = told /\ lost' = lost \cup {kind}
  BY DEF Notify, AtMost, DTypeOK

(* A failed cycle sets the marker of a stall exactly when the loop goes on  *)
(* to give the notice or to take the marker back.                           *)
LEMMA FailureEffect ==
  ASSUME DTypeOK, PollFails
  PROVE  \E fails \in 0..StallBudget, parked \in BOOLEAN :
           /\ fails = AtMost(sync.fails + 1, StallBudget)
           /\ sync'.fails = fails /\ sync'.auth = sync.auth
           /\ sync'.notified <=> sync.notified \/ fails = StallBudget
           /\ loop' = IF fails = StallBudget /\ ~sync.notified
                        THEN IF parked THEN "hushing" ELSE "stalled" ELSE "resolving"
           /\ barren' = IF parked THEN 0 ELSE AtMost(barren + 1, StallBudget)
           /\ UNCHANGED <<told, lost>>
<1>0. sync \in SyncState /\ StallBudget \in Nat
  BY DaemonAssumption DEF DTypeOK
<1> DEFINE fails == AtMost(sync.fails + 1, StallBudget)
           escalate == fails = StallBudget /\ ~sync.notified
<1>1. fails \in 0..StallBudget
  BY <1>0, Capped DEF SyncState
<1>2. PICK parked \in BOOLEAN :
        /\ loop' = IF ~escalate THEN "resolving" ELSE IF parked THEN "hushing" ELSE "stalled"
        /\ barren' = IF parked THEN 0 ELSE AtMost(barren + 1, StallBudget)
  BY DEF PollFails
<1>3. sync' = [sync EXCEPT !.fails = fails, !.notified = sync.notified \/ escalate]
  BY DEF PollFails
<1>4. UNCHANGED <<told, lost>>
  BY DEF PollFails
<1> HIDE DEF fails
<1>5. sync'.fails = fails /\ sync'.auth = sync.auth /\ sync'.notified = (sync.notified \/ escalate)
  BY <1>0, <1>3 DEF SyncState
<1> QED
  BY <1>1, <1>2, <1>4, <1>5 DEF fails

(* A stall is announced once, by the marker's leave.                        *)
LEMMA StallStep ==
  ASSUME DTypeOK, RowIsOwned, StallNotices, StallCount, [DNext]_dvars
  PROVE  StallNotices' /\ StallCount'
<1> USE DaemonAssumption DEF DaemonAssumption, StallNotices, StallCount
<1>0. /\ sync \in SyncState /\ snap = sync
      /\ told \in [stall : 0..2, auth : 0..2] /\ barren \in 0..StallBudget
  BY DEF DTypeOK, RowIsOwned
<1>1. CASE BeginPoll \/ NextRequest \/ Answered
  BY <1>1 DEF BeginPoll, NextRequest, Answered, histvars
<1>2. CASE PollProgress
  BY <1>0, <1>2 DEF PollProgress, PollEnds, SyncState
<1>3. CASE PollFails
  <2>1. PICK fails \in 0..StallBudget, parked \in BOOLEAN :
           /\ fails = AtMost(sync.fails + 1, StallBudget)
           /\ sync'.fails = fails
           /\ sync'.notified <=> sync.notified \/ fails = StallBudget
           /\ loop' = IF fails = StallBudget /\ ~sync.notified
                        THEN IF parked THEN "hushing" ELSE "stalled" ELSE "resolving"
           /\ barren' = IF parked THEN 0 ELSE AtMost(barren + 1, StallBudget)
           /\ UNCHANGED <<told, lost>>
    BY <1>3, FailureEffect
  <2>2. loop \notin {"stalled", "hushing"}
    BY <1>3 DEF PollFails
  <2>3. StallNotices'
    BY <1>0, <2>1, <2>2
  <2>4. StallCount'
    BY <1>0, <2>1, <2>2 DEF AtMost, SyncState
  <2> QED
    BY <2>3, <2>4
<1>4. ASSUME NEW reason \in {"stall", "uncounted"}, Unrecorded(reason),
             loop \in {"asking", "polling"}
      PROVE  StallNotices' /\ StallCount'
  BY <1>4 DEF Unrecorded, PollEnds
<1>5. CASE PollTimesOut \/ PollFailureUnrecorded
  BY <1>4, <1>5 DEF PollTimesOut, PollFailureUnrecorded
<1>6. CASE AnnounceStall
  <2>1. \/ told' = [told EXCEPT !["stall"] = 1] /\ lost' = lost
        \/ told' = told /\ lost' = lost \cup {"stall"}
    BY <1>6, NoticeEffect DEF AnnounceStall
  <2> QED
    BY <1>0, <1>6, <2>1 DEF AnnounceStall
<1>7. CASE AnnounceReauth
  <2>1. /\ told'.stall = told.stall
        /\ lost \subseteq lost' /\ lost' \subseteq lost \cup {"auth"}
    BY <1>0, <1>7 DEF AnnounceReauth, Notify
  <2> QED
    BY <1>7, <2>1 DEF AnnounceReauth
<1>8. CASE Hush
  BY <1>0, <1>8 DEF Hush, SyncState
<1>9. CASE Reauth
  BY <1>0, <1>9 DEF Reauth, SyncState
<1>10. CASE DrainStep
  <2>1. UNCHANGED <<told, lost, barren>> /\ loop \notin {"stalled", "hushing"}
        /\ loop' \notin {"stalled", "hushing"}
    BY <1>10 DEF DrainStep, UploadTick, TakeNudge, AlreadyResolved, ResolveLabel, ResolveFails,
                 DrainEnds, WaitAgain, DrainFails, LookAt, histvars, daemonvars
  <2>2. sync'.notified = sync.notified /\ sync'.fails = sync.fails
    BY <1>0, <1>10 DEF DrainStep, UploadTick, TakeNudge, AlreadyResolved, ResolveLabel,
                       ResolveFails, DrainEnds, WaitAgain, DrainFails, LookAt, daemonvars, SyncState
  <2> QED
    BY <2>1, <2>2
<1>11. CASE StartDaemon
  <2>1. loop = "down"
    BY <1>11 DEF StartDaemon, Boot, BootFromDisk, RowIsOwned
  <2> QED
    BY <1>11, <2>1 DEF StartDaemon, histvars
<1>12. CASE DieDaemon
  BY <1>12 DEF DieDaemon
<1>13. CASE Review \/ Reconnecting \/ Refuse \/ CreateLabel \/ UNCHANGED dvars
  BY <1>13, QuietSteps DEF Quiet, daemonvars, histvars
<1> QED
  BY <1>1, <1>2, <1>3, <1>5, <1>6, <1>7, <1>8, <1>9, <1>10, <1>11, <1>12, <1>13
     DEF DNext, LoopStep, PollStep

(* So is a refused token.                                                   *)
LEMMA AuthStep ==
  ASSUME DTypeOK, RowIsOwned, AuthNotices, [DNext]_dvars
  PROVE  AuthNotices'
<1> USE DEF AuthNotices
<1>0. /\ sync \in SyncState /\ snap = sync
      /\ told \in [stall : 0..2, auth : 0..2]
  BY DEF DTypeOK, RowIsOwned
<1>1. CASE BeginPoll \/ NextRequest \/ Answered
  BY <1>1 DEF BeginPoll, NextRequest, Answered, histvars
<1>2. CASE PollProgress
  BY <1>0, <1>2 DEF PollProgress, PollEnds, SyncState
<1>3. CASE PollFails
  <2>1. sync'.auth = sync.auth /\ loop' # "reauth" /\ UNCHANGED <<told, lost>>
    BY <1>3, FailureEffect
  <2>2. loop # "reauth"
    BY <1>3 DEF PollFails
  <2> QED
    BY <2>1, <2>2
<1>4. CASE PollTimesOut \/ PollFailureUnrecorded
  BY <1>4 DEF PollTimesOut, PollFailureUnrecorded, Unrecorded, PollEnds
<1>5. CASE AnnounceStall
  <2>1. /\ told'.auth = told.auth
        /\ lost \subseteq lost'
    BY <1>0, <1>5 DEF AnnounceStall, Notify
  <2> QED
    BY <1>5, <2>1 DEF AnnounceStall
<1>6. CASE AnnounceReauth
  <2>1. \/ told' = [told EXCEPT !["auth"] = 1] /\ lost' = lost
        \/ told' = told /\ lost' = lost \cup {"auth"}
    BY <1>6, NoticeEffect DEF AnnounceReauth
  <2> QED
    BY <1>0, <1>6, <2>1 DEF AnnounceReauth
<1>7. CASE Hush
  BY <1>0, <1>7 DEF Hush, SyncState
<1>8. CASE Reauth
  BY <1>0, <1>8 DEF Reauth, SyncState
<1>9. CASE DrainStep
  <2>1. UNCHANGED <<told, lost>> /\ loop # "reauth" /\ loop' # "reauth"
    BY <1>9 DEF DrainStep, UploadTick, TakeNudge, AlreadyResolved, ResolveLabel, ResolveFails,
                DrainEnds, WaitAgain, DrainFails, LookAt, histvars, daemonvars
  <2>2. sync'.auth = sync.auth
    BY <1>0, <1>9 DEF DrainStep, UploadTick, TakeNudge, AlreadyResolved, ResolveLabel,
                      ResolveFails, DrainEnds, WaitAgain, DrainFails, LookAt, daemonvars, SyncState
  <2> QED
    BY <2>1, <2>2
<1>10. CASE StartDaemon
  <2>1. loop = "down"
    BY <1>10 DEF StartDaemon, Boot, BootFromDisk, RowIsOwned
  <2> QED
    BY <1>10, <2>1 DEF StartDaemon, histvars
<1>11. CASE DieDaemon
  BY <1>11 DEF DieDaemon
<1>12. CASE Review \/ Reconnecting \/ Refuse \/ CreateLabel \/ UNCHANGED dvars
  BY <1>12, QuietSteps DEF Quiet, daemonvars, histvars
<1> QED
  BY <1>1, <1>2, <1>3, <1>4, <1>5, <1>6, <1>7, <1>8, <1>9, <1>10, <1>11, <1>12
     DEF DNext, LoopStep, PollStep
-----------------------------------------------------------------------------
(* The invariant holds in every state.                                      *)
LEMMA DInvariant == DSpec => []DInv
<1>1. DInit => DInv
  BY DInitInv
<1>2. DInv /\ [DNext]_dvars => DInv'
  BY ConsentStep, DTypeStep, OwnedStep, LabelStep, NudgesStep, StallStep, AuthStep
     DEF DInv, DTypeOK
<1> QED
  BY <1>1, <1>2, PTL DEF DSpec

(* The variables keep their types.                                          *)
THEOREM DaemonTypeCorrect == DSpec => []DTypeOK
<1>1. DInv => DTypeOK
  BY DEF DInv
<1> QED
  BY <1>1, DInvariant, PTL

(* F-15: whatever polls, failures and restarts rewrite the row, a drain     *)
(* runs only when the label id is in it (daemon.go, drainUploads).          *)
THEOREM UploadsKnowTheLabel == DSpec => []LabelIsKnown
<1>1. DInv => LabelIsKnown
  BY DEF DInv, LabelIsSaved, LabelIsKnown
<1> QED
  BY <1>1, DInvariant, PTL

(* daemon.go:117-121: a nudge that is dropped is not lost.                  *)
THEOREM NoApprovalWaitsUnseen == DSpec => []ApprovalsAreSeen
<1>1. DInv => ApprovalsAreSeen
  BY DEF DInv, NudgesFollow, ApprovalsAreSeen
<1> QED
  BY <1>1, DInvariant, PTL

(* poll.go (failPoll) and auth.go (handleReauth): the markers of sync_state *)
(* and the notices the human got tell the same story.                       *)
THEOREM MarkersMatchNotices == DSpec => []NoticesMatchMarkers
<1>1. DInv => NoticesMatchMarkers
  BY DEF DInv, DTypeOK, StallNotices, StallCount, AuthNotices, NoticesMatchMarkers
<1> QED
  BY <1>1, DInvariant, PTL

(* gmail_auth.go:115-116, in the whole daemon: client and keychain agree.   *)
THEOREM DaemonCredentialsAgree == DSpec => []CredentialsAgree
<1>1. DInv => CredentialsAgree
  BY DEF DInv, CInv, TokensInStep, CredentialsAgree
<1> QED
  BY <1>1, DInvariant, PTL

(* gmail_auth.go:114-122, in the whole daemon: the newest consent wins.     *)
THEOREM DaemonNewestConsentWins == DSpec => NewestConsentWins
<1>1. DInv /\ [DNext]_dvars =>
        [\A c \in Consents :
           /\ keychain # c /\ keychain' = c => c = started'
           /\ live # c /\ live' = c /\ Up => c = started']_cvars
  BY ConsentView, NewestStep DEF DInv, FaultElsewhere
<1> QED
  BY <1>1, DInvariant, PTL DEF DSpec, NewestConsentWins
=============================================================================
