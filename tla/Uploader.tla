------------------------------ MODULE Uploader ------------------------------
(***************************************************************************)
(* internal/uploader with the claim operations of internal/queue           *)
(* (claim.go), the retry policy of internal/clearfacts (classify.go) and   *)
(* the part of internal/daemon that drives them, composed with Queue.      *)
(*                                                                         *)
(* Each process is one Postbode daemon: daemon.Run is a single goroutine,  *)
(* so it polls only between uploads.  A process may die at any step and be *)
(* started again; a second one may run beside it.  The ClearFacts portal   *)
(* and Gmail are outside: the portal may accept a document whatever answer *)
(* comes back, or none.                                                    *)
(*                                                                         *)
(* Timestamps are modelled by ages, which Tick advances and which stop     *)
(* where the code's comparisons stop distinguishing them.                  *)
(***************************************************************************)
EXTENDS Queue

CONSTANTS
  Procs,        \* daemon processes
  StaleAge,     \* ReleaseStaleClaims' olderThan (1h), in ticks
  BackoffBase,  \* first retry delay (1m), in ticks
  BackoffCap,   \* longest retry delay (2h), in ticks
  GiveUpAfter,  \* age of the first failure at which an item fails (24h), in ticks
  MaxFaults,    \* bound: crashes, failed writes and answers without a uuid
  CopyCap       \* bound: copies of one document the model tells apart

ASSUME UploaderAssumption ==
  /\ StaleAge \in Nat \ {0}
  /\ BackoffBase \in Nat \ {0}
  /\ BackoffCap \in Nat /\ BackoffCap >= BackoffBase
  /\ GiveUpAfter \in Nat \ {0}
  /\ MaxFaults \in Nat
  /\ CopyCap \in Nat \ {0, 1}
  /\ NULL \notin Nat

Slots == 1..MaxItems   \* every id an item can get

VARIABLES
  claim,      \* age of item.claimed_at, NULL when unclaimed
  due,        \* ticks until item.next_retry_at, 0 when reached or never set
  retries,    \* item.retry_count
  failing,    \* age of item.first_failed_at, NULL when never failed
  verified,   \* items with verified_at
  labeledAt,  \* messages with labeled_at and all_docs_uploaded_at
  pc,         \* where each process is in processItem
  held,       \* the item each process works on
  attempt,    \* its retry_count as read when it was claimed
  portal,     \* how many times ClearFacts has accepted each document
  gmail,      \* messages that carry the submitted label in Gmail
  doubt,      \* history: documents the portal accepted without our recording it
  stolen,     \* history: items taken from the live process that held them
  crossed,    \* history: messages two processes were labelling, or one while
              \* another staged a document of them
  unlabeled,  \* history: messages whose label call has failed
  faults      \* crashes, failed writes and answers without a uuid so far

dbVars == <<claim, due, retries, failing, verified, labeledAt>>
procVars == <<pc, held, attempt>>
worldVars == <<portal, gmail, doubt, stolen, crossed, unlabeled, faults>>
uvars == <<row, status, teaching, log, claim, due, retries, failing, verified,
           labeledAt, pc, held, attempt, portal, gmail, doubt, stolen,
           crossed, unlabeled, faults>>

Min2(a, b) == IF a <= b THEN a ELSE b

(* clearfacts.Backoff: base, doubled per attempt, capped; a total function. *)
Doubled[n \in Nat] == IF n = 0 THEN BackoffBase ELSE 2 * Doubled[n - 1]

Backoff(n) == Min2(Doubled[Min2(n, 30) - 1], BackoffCap)

Sha(p) == row[held[p]].sha
Msg(p) == row[held[p]].msg

(* The outcome of the upload p has under way is never going to be recorded. *)
Lost(p) == IF pc[p] \in {"accepted", "delivered"} THEN doubt \cup {Sha(p)} ELSE doubt

(* A process leaves processItem and goes back to its loop. *)
Done(p) ==
  /\ pc' = [pc EXCEPT ![p] = "idle"]
  /\ held' = [held EXCEPT ![p] = NoLink]
  /\ attempt' = [attempt EXCEPT ![p] = 0]

Goto(p, step) ==
  /\ pc' = [pc EXCEPT ![p] = step]
  /\ UNCHANGED <<held, attempt>>

(* The places where the process has a claimed item and no outcome for it.   *)
Uploading == {"claimed", "waiting", "accepted", "delivered", "retryable", "refused"}

UnderWay(S) == {held[q] : q \in {r \in S : pc[r] \in Uploading}}

(* The messages that are about to be labelled, or to be recorded as such.   *)
BeingLabeled == {Msg(q) : q \in {r \in Procs : pc[r] \in {"labeling", "labeled"}}}
-----------------------------------------------------------------------------
(* Claims. *)

(* ReleaseStaleClaims: only approved items, only claims old enough.         *)
StaleClaims == {i \in Ids : status[i] = "approved" /\ claim[i] = StaleAge}

(* A process starts: daemon.Run releases stale claims, once.                *)
Start(p) ==
  /\ pc[p] = "down"
  /\ claim' = [i \in Slots |-> IF i \in StaleClaims THEN NULL ELSE claim[i]]
  /\ stolen' = stolen \cup (StaleClaims \cap UnderWay(Procs))
  /\ Done(p)
  /\ UNCHANGED <<vars, due, retries, failing, verified, labeledAt>>
  /\ UNCHANGED <<portal, gmail, doubt, crossed, unlabeled, faults>>

(* Slip: claimed_at IS NULL is dropped from the claim's WHERE.              *)
ClaimableTwice == {i \in Ids : status[i] = "approved" /\ due[i] = 0}

(* Slip: the claim no longer waits for next_retry_at.                       *)
ClaimableEarly == {i \in Ids : status[i] = "approved" /\ claim[i] = NULL}

Claimable == {i \in Ids : status[i] = "approved" /\ claim[i] = NULL /\ due[i] = 0}

ClaimApprovedDue(p) ==
  /\ pc[p] = "idle"
  /\ Claimable # {}
  /\ held' = [held EXCEPT ![p] = Oldest(Claimable)]
  /\ attempt' = [attempt EXCEPT ![p] = retries[Oldest(Claimable)]]
  /\ claim' = [claim EXCEPT ![Oldest(Claimable)] = 0]
  /\ pc' = [pc EXCEPT ![p] = "claimed"]
  /\ UNCHANGED <<vars, due, retries, failing, verified, labeledAt, worldVars>>
-----------------------------------------------------------------------------
(* processItem. *)

(* os.Open fails, or the request cannot be built or authorized: terminal.  *)
OpenFails(p) ==
  /\ pc[p] = "claimed"
  /\ Goto(p, "refused")
  /\ UNCHANGED <<vars, dbVars, worldVars>>

(* UploadFile puts the request on the wire.                                 *)
Send(p) ==
  /\ pc[p] = "claimed"
  /\ Goto(p, "waiting")
  /\ UNCHANGED <<vars, dbVars, worldVars>>

(* ClearFacts files the document; the answer is still to come.              *)
PortalAccepts(p) ==
  /\ pc[p] = "waiting"
  /\ portal' = [portal EXCEPT ![Sha(p)] = Min2(@ + 1, CopyCap)]
  /\ Goto(p, "accepted")
  /\ UNCHANGED <<vars, dbVars, gmail, doubt, stolen, crossed, unlabeled, faults>>

(* The answer arrives: a uuid for an accepted document.                     *)
AnswerDelivered(p) ==
  /\ pc[p] = "accepted"
  /\ Goto(p, "delivered")
  /\ UNCHANGED <<vars, dbVars, worldVars>>

(* Slip: an error of the client is taken for success.                       *)
AnswerErrorIgnored(p, kind) ==
  /\ pc[p] \in {"waiting", "accepted"}
  /\ Goto(p, "delivered")
  /\ UNCHANGED <<vars, dbVars, worldVars>>

(* Any other answer, or none: a transport error, 429 or 5xx is retryable, a *)
(* 4xx, a GraphQL error or an undecodable body is not.  It says nothing     *)
(* about whether the portal has the document.                               *)
AnswerError(p, kind) ==
  /\ pc[p] \in {"waiting", "accepted"}
  /\ doubt' = Lost(p)
  /\ Goto(p, kind)
  /\ UNCHANGED <<vars, dbVars, portal, gmail, stolen, crossed, unlabeled, faults>>

(* A uuid: MarkUploaded, refused by the lifecycle if the item has left      *)
(* approved meanwhile.                                                      *)
RecordUploaded(p) ==
  /\ pc[p] = "delivered"
  /\ MarkUploaded(held[p])
  /\ Goto(p, "uploaded")
  /\ UNCHANGED <<dbVars, worldVars>>

(* A success without a document: 200, no errors, uploadFile null.           *)
(* MarkUploaded refuses the empty uuid before it opens a transaction;       *)
(* RunBatch logs the error and goes on, and the claim stays.                *)
AnswerWithoutUuid(p) ==
  /\ faults < MaxFaults
  /\ pc[p] \in {"waiting", "accepted"}
  /\ faults' = faults + 1
  /\ doubt' = Lost(p)
  /\ Done(p)
  /\ UNCHANGED <<vars, dbVars, portal, gmail, stolen, crossed, unlabeled>>

(* Terminal error: MarkFailed.                                              *)
RecordFailed(p) ==
  /\ pc[p] = "refused"
  /\ MarkFailed(held[p])
  /\ Done(p)
  /\ UNCHANGED <<dbVars, worldVars>>

(* Another process settled the item: the transition is invalid, RunBatch    *)
(* logs the error and continues; the uuid, if there was one, is lost.       *)
RecordTooLate(p) ==
  /\ pc[p] \in {"delivered", "refused"}
  /\ status[held[p]] # "approved"
  /\ doubt' = Lost(p)
  /\ Done(p)
  /\ UNCHANGED <<vars, dbVars, portal, gmail, stolen, crossed, unlabeled, faults>>

(* Slip: the retry is scheduled and the claim kept.                         *)
RecordUploadRetryKeepsClaim(p) ==
  LET i == held[p] IN
  /\ pc[p] = "retryable"
  /\ retries' = [retries EXCEPT ![i] = @ + 1]
  /\ due' = [due EXCEPT ![i] = Backoff(attempt[p] + 1)]
  /\ failing' = [failing EXCEPT ![i] = IF @ = NULL THEN 0 ELSE @]
  /\ Goto(p, "rescheduled")
  /\ UNCHANGED <<vars, claim, verified, labeledAt, worldVars>>

(* RecordUploadRetry: an UPDATE by id alone, whatever the item's status and *)
(* whoever holds its claim.  The delay is computed from the retry count     *)
(* read at the claim.                                                       *)
RecordUploadRetry(p) ==
  LET i == held[p] IN
  /\ pc[p] = "retryable"
  /\ retries' = [retries EXCEPT ![i] = @ + 1]
  /\ due' = [due EXCEPT ![i] = Backoff(attempt[p] + 1)]
  /\ failing' = [failing EXCEPT ![i] = IF @ = NULL THEN 0 ELSE @]
  /\ claim' = [claim EXCEPT ![i] = NULL]
  /\ Goto(p, "rescheduled")
  /\ UNCHANGED <<vars, verified, labeledAt, worldVars>>

(* handleUploadError re-reads the item: past the window it fails it, with   *)
(* the same invalid-transition case as above; otherwise it is done.  The    *)
(* claim is free by then, and another process may have the next attempt     *)
(* under way.                                                               *)
GiveUp(p) ==
  /\ pc[p] = "rescheduled"
  /\ failing[held[p]] = GiveUpAfter
  /\ MarkFailed(held[p])
  /\ stolen' = stolen \cup ({held[p]} \cap UnderWay(Procs \ {p}))
  /\ Done(p)
  /\ UNCHANGED <<dbVars, portal, gmail, doubt, crossed, unlabeled, faults>>

KeepTrying(p) ==
  /\ pc[p] = "rescheduled"
  /\ failing[held[p]] # GiveUpAfter \/ status[held[p]] # "approved"
  /\ Done(p)
  /\ UNCHANGED <<vars, dbVars, worldVars>>

(* verify: document(uuid) once; verified_at only if it resolves.            *)
Verify(p) ==
  /\ pc[p] = "uploaded"
  /\ verified' \in {verified, verified \cup {held[p]}}
  /\ Goto(p, "verified")
  /\ UNCHANGED <<vars, claim, due, retries, failing, labeledAt, worldVars>>

AllUploaded(m) == \A i \in Ids : row[i].msg = m => status[i] = "uploaded"

(* Slip: the first uploaded document labels the message.                    *)
LabelDueAtFirst(p) ==
  /\ pc[p] = "verified"
  /\ Msg(p) \notin labeledAt
  /\ Goto(p, "labeling")
  /\ crossed' = crossed \cup ({Msg(p)} \cap BeingLabeled)
  /\ UNCHANGED <<vars, dbVars, portal, gmail, doubt, stolen, unlabeled, faults>>

(* maybeApplyLabel decides, applies the label in Gmail, then records it.    *)
LabelDue(p) ==
  /\ pc[p] = "verified"
  /\ Msg(p) \notin labeledAt
  /\ AllUploaded(Msg(p))
  /\ Goto(p, "labeling")
  /\ crossed' = crossed \cup ({Msg(p)} \cap BeingLabeled)
  /\ UNCHANGED <<vars, dbVars, portal, gmail, doubt, stolen, unlabeled, faults>>

(* Slip: an item whose delivery is not proven does not label its message.   *)
LabelNotDueUnproven(p) ==
  /\ pc[p] = "verified"
  /\ Msg(p) \in labeledAt \/ ~AllUploaded(Msg(p)) \/ held[p] \notin verified
  /\ Done(p)
  /\ UNCHANGED <<vars, dbVars, worldVars>>

LabelNotDue(p) ==
  /\ pc[p] = "verified"
  /\ Msg(p) \in labeledAt \/ ~AllUploaded(Msg(p))
  /\ Done(p)
  /\ UNCHANGED <<vars, dbVars, worldVars>>

ApplyLabel(p) ==
  /\ pc[p] = "labeling"
  /\ gmail' = gmail \cup {Msg(p)}
  /\ Goto(p, "labeled")
  /\ UNCHANGED <<vars, dbVars, portal, doubt, stolen, crossed, unlabeled, faults>>

(* Slip: the label's record does not wait for the call.                     *)
ApplyLabelFailsRecorded(p) ==
  /\ pc[p] = "labeling"
  /\ labeledAt' = labeledAt \cup {Msg(p)}
  /\ Done(p)
  /\ UNCHANGED <<vars, claim, due, retries, failing, verified, worldVars>>

(* The call fails: logged, and the item is done.                            *)
ApplyLabelFails(p) ==
  /\ pc[p] = "labeling"
  /\ unlabeled' = unlabeled \cup {Msg(p)}
  /\ Done(p)
  /\ UNCHANGED <<vars, dbVars, portal, gmail, doubt, stolen, crossed, faults>>

MarkMessageSubmitted(p) ==
  /\ pc[p] = "labeled"
  /\ labeledAt' = labeledAt \cup {Msg(p)}
  /\ Done(p)
  /\ UNCHANGED <<vars, claim, due, retries, failing, verified, worldVars>>
-----------------------------------------------------------------------------
(* Faults. *)

(* A write that records an outcome fails (disk full, busy timeout, context  *)
(* cancelled by a graceful stop): processItem returns the error, RunBatch   *)
(* logs it and goes on; the claim stays.                                    *)
WriteFails(p) ==
  /\ faults < MaxFaults
  /\ pc[p] \in {"delivered", "refused", "retryable", "rescheduled", "labeled"}
  /\ faults' = faults + 1
  /\ doubt' = Lost(p)
  /\ Done(p)
  /\ UNCHANGED <<vars, dbVars, portal, gmail, stolen, crossed, unlabeled>>

(* kill -9, a panic, power loss.                                            *)
Crash(p) ==
  /\ faults < MaxFaults
  /\ pc[p] # "down"
  /\ faults' = faults + 1
  /\ doubt' = Lost(p)
  /\ pc' = [pc EXCEPT ![p] = "down"]
  /\ held' = [held EXCEPT ![p] = NoLink]
  /\ attempt' = [attempt EXCEPT ![p] = 0]
  /\ UNCHANGED <<vars, dbVars, portal, gmail, stolen, crossed, unlabeled>>
-----------------------------------------------------------------------------
(* The rest of the system. *)

(* The poll stages documents, between uploads.                              *)
Poll(p) ==
  /\ pc[p] = "idle"
  /\ \E in \in Candidates :
       StageItem(in) /\ crossed' = crossed \cup ({in.msg} \cap BeingLabeled)
  /\ UNCHANGED <<dbVars, procVars, portal, gmail, doubt, stolen, unlabeled, faults>>

(* The human decides, in the web handlers, at any time.                     *)
Decide ==
  /\ \E i \in Ids : Review(i)
  /\ UNCHANGED <<dbVars, procVars, worldVars>>

Older(age, limit) == IF age = NULL THEN NULL ELSE Min2(age + 1, limit)

Tick ==
  /\ claim' = [i \in Slots |-> Older(claim[i], StaleAge)]
  /\ failing' = [i \in Slots |-> Older(failing[i], GiveUpAfter)]
  /\ due' = [i \in Slots |-> IF due[i] = 0 THEN 0 ELSE due[i] - 1]
  /\ UNCHANGED <<vars, retries, verified, labeledAt, procVars, worldVars>>

UInit ==
  /\ Init
  /\ claim = [i \in Slots |-> NULL]
  /\ due = [i \in Slots |-> 0]
  /\ retries = [i \in Slots |-> 0]
  /\ failing = [i \in Slots |-> NULL]
  /\ verified = {}
  /\ labeledAt = {}
  /\ pc = [p \in Procs |-> "down"]
  /\ held = [p \in Procs |-> NoLink]
  /\ attempt = [p \in Procs |-> 0]
  /\ portal = [s \in Shas |-> 0]
  /\ gmail = {}
  /\ doubt = {}
  /\ stolen = {}
  /\ crossed = {}
  /\ unlabeled = {}
  /\ faults = 0

(* The steps a running daemon takes by itself. *)
Step(p) ==
  \/ ClaimApprovedDue(p)
  \/ OpenFails(p)
  \/ Send(p)
  \/ AnswerDelivered(p)
  \/ \E kind \in {"retryable", "refused"} : AnswerError(p, kind)
  \/ RecordUploaded(p)
  \/ RecordFailed(p)
  \/ RecordTooLate(p)
  \/ RecordUploadRetry(p)
  \/ GiveUp(p)
  \/ KeepTrying(p)
  \/ Verify(p)
  \/ LabelDue(p)
  \/ LabelNotDue(p)
  \/ ApplyLabel(p)
  \/ ApplyLabelFails(p)
  \/ MarkMessageSubmitted(p)

UNext ==
  \/ \E p \in Procs : Step(p) \/ Start(p) \/ PortalAccepts(p) \/ Poll(p)
                      \/ AnswerWithoutUuid(p) \/ WriteFails(p) \/ Crash(p)
  \/ Decide
  \/ Tick

USpec == UInit /\ [][UNext]_uvars

(* A running daemon keeps running its loop, launchd (KeepAlive) starts it   *)
(* again when it is down, and time passes.  Step(p) includes AnswerError: a *)
(* request on the wire is answered or broken off in the end, which is the   *)
(* network's doing - the HTTP client has no timeout.                        *)
Fairness ==
  /\ \A p \in Procs : WF_uvars(Step(p)) /\ WF_uvars(Start(p))
  /\ WF_uvars(Tick)

FairUSpec == USpec /\ Fairness
-----------------------------------------------------------------------------
(* Properties. *)

UTypeOK ==
  /\ TypeOK
  /\ claim \in [Slots -> 0..StaleAge \cup {NULL}]
  /\ due \in [Slots -> 0..BackoffCap]
  /\ retries \in [Slots -> Nat]
  /\ failing \in [Slots -> 0..GiveUpAfter \cup {NULL}]
  /\ verified \subseteq {i \in Ids : status[i] = "uploaded"}
  /\ labeledAt \subseteq gmail
  /\ pc \in [Procs -> Uploading \cup {"down", "idle", "rescheduled", "uploaded", "verified",
                                     "labeling", "labeled"}]
  /\ held \in [Procs -> Ids \cup {NoLink}]
  /\ attempt \in [Procs -> Nat]
  /\ portal \in [Shas -> 0..CopyCap]
  /\ gmail \subseteq Msgs
  /\ doubt \subseteq Shas
  /\ stolen \subseteq Ids
  /\ crossed \subseteq Msgs
  /\ unlabeled \subseteq Msgs
  /\ faults \in 0..MaxFaults

Stolen(s) == \E i \in stolen : row[i].sha = s

(* F-53: while a process works on a claimed item, its claim stands, no      *)
(* other process works on it and its status stays approved - after any      *)
(* crashes, restarts and failed writes - unless the item was taken from it: *)
(* the claim outlived StaleAge and a starting daemon took it for an         *)
(* abandoned one, or a second daemon gave the item up late, on the re-read  *)
(* that follows its own attempt.                                            *)
HeldIsClaimed ==
  \A p \in Procs : pc[p] \in Uploading /\ held[p] \notin stolen =>
    /\ claim[held[p]] # NULL
    /\ \A q \in Procs \ {p} : pc[q] \in Uploading => held[q] # held[p]
    /\ status[held[p]] = "approved"

(* G-2: the portal never gets a second copy of a document unless an earlier *)
(* upload of it was accepted without Postbode ever recording it (a crash, a *)
(* failed write, an answer that was lost or wrong) or an item of it was     *)
(* taken from the process that was uploading it.  Retries, restarts, copies *)
(* in other messages and two daemons do not do it alone.                    *)
NoDuplicateWithoutDoubt ==
  \A s \in Shas : portal[s] > 1 => s \in doubt \/ Stolen(s)

(* G-2/G-3 at the portal: what is recorded as uploaded is there; what is    *)
(* there was approved by a human; and what is there is recorded, or being   *)
(* recorded, unless its outcome was lost.                                   *)
PortalMatchesQueue ==
  /\ \A i \in Ids : status[i] = "uploaded" => portal[row[i].sha] > 0
  /\ \A s \in Shas : portal[s] > 0 =>
       /\ \E i \in Ids : row[i].sha = s /\ Entries(i, "staged", "approved", "human")
       /\ \/ s \in doubt \/ Stolen(s)
          \/ \E i \in Ids : row[i].sha = s /\ status[i] = "uploaded"
          \/ \E p \in Procs : pc[p] \in {"accepted", "delivered"} /\ Sha(p) = s

(* What the first n delays add up to.                                       *)
Schedule[n \in Nat] == IF n = 0 THEN 0 ELSE Schedule[n - 1] + Backoff(n)

(* F-51: the n-th retryable failure comes no sooner after the first than    *)
(* the n - 1 delays of the schedule add up to, through crashes and released *)
(* claims: next_retry_at holds a retry back whatever happens to the claim,  *)
(* unless the item was taken from a live process.                           *)
BackoffIsServed ==
  \A i \in Ids \ stolen : failing[i] # NULL =>
    failing[i] >= Min2(Schedule[retries[i] - 1], GiveUpAfter)

(* F-14/AC-19: Gmail is told a message was submitted only when every item   *)
(* staged from it is uploaded at that very moment, although the decision    *)
(* and the call are separate steps; and a message is modified only once     *)
(* unless a fault came between the call and its record.  A second daemon    *)
(* can break both, by staging a document of the message, or labelling it    *)
(* too, between the two.                                                    *)
LabelsAreTrue ==
  [][\A m \in Msgs \ crossed :
       /\ m \in gmail' \ gmail => AllUploaded(m)
       /\ (\E p \in Procs : pc[p] = "labeling" /\ pc'[p] = "labeled" /\ Msg(p) = m)
            => m \notin gmail \/ faults > 0]_uvars

Approved(i) == i \in Ids /\ status[i] = "approved"

(* F-52: an approval leads to an upload or a terminal failure without       *)
(* another human action, through retries and the give-up window, while no   *)
(* fault intervenes (a stranded claim needs one, see below).  Items are     *)
(* finitely many and none is approved twice, so this is to say that the     *)
(* list of approved items is empty again and again.                         *)
ApprovalIsDurable == []<>(faults > 0 \/ \A i \in Ids : status[i] # "approved")

(* claim.go:125-128: "a claim abandoned by a killed process does not strand *)
(* the item forever".                                                       *)
Abandoned(i) == Approved(i) /\ claim[i] # NULL /\ \A p \in Procs : held[p] # i

ClaimsAreNotStranded ==
  \A i \in Slots : Abandoned(i) ~> ~Abandoned(i)

LabelOwed(m) ==
  /\ \E i \in Ids : row[i].msg = m
  /\ AllUploaded(m)
  /\ m \notin gmail

(* AC-19: a message all of whose documents are uploaded gets its label,     *)
(* whichever of them was uploaded last and whether or not its delivery was  *)
(* proven - but for a label call that failed, which nothing makes again     *)
(* (uploader.go:188-193 trusts a later upload of the message, and there is  *)
(* none), and for faults.                                                   *)
LabelsCatchUp ==
  []<>(faults > 0 \/ \A m \in Msgs : LabelOwed(m) => m \in unlabeled)
=============================================================================
