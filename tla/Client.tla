------------------------------- MODULE Client -------------------------------
(***************************************************************************)
(* The ClearFacts client, internal/clearfacts: every call goes through the *)
(* rate limiter (ratelimit.go), takes the token from the keychain, puts    *)
(* one request on the wire (client.go) and turns the answer into a verdict *)
(* (classify.go, upload.go, document.go).                                  *)
(*                                                                         *)
(* Callers share one Client.  A read is Document, Administrations or       *)
(* CompanyStatistics: they differ only in the query.  Encoding a request   *)
(* from values of our own cannot fail and is left out.  All calls carry    *)
(* the daemon's context, which is done when it stops; nothing else ends a  *)
(* request that hangs, because http.DefaultClient has no timeout.          *)
(*                                                                         *)
(* Time is kept as ages in ticks, capped where nothing depends on more.    *)
(***************************************************************************)
EXTENDS Integers, FiniteSets

CONSTANTS
  NULL,
  Callers,        \* goroutines that use the client
  MaxConcurrent,  \* WithMaxConcurrent
  MinInterval,    \* WithMinInterval, in ticks
  Statuses        \* the HTTP statuses an answer may carry

ASSUME ClientAssumption ==
  /\ IsFiniteSet(Callers)
  /\ MaxConcurrent \in Int
  /\ MinInterval \in Nat
  /\ Statuses \subseteq 200..599
  /\ NULL \notin Nat

VARIABLES
  pc,         \* where each caller is
  wait,       \* what is left of the wait it computed
  sem,        \* rateLimiter.sem: slots taken
  sinceLast,  \* age of rateLimiter.last, NULL while it is zero
  filed,      \* ClearFacts has filed the document of its request on the wire
  stopping,   \* the context is done
  startAge,   \* history: age of the last start its acquire returned
  returned    \* history: what a call has just returned, NULL after other steps

limiterVars == <<wait, sem, sinceLast, startAge>>
cvars == <<pc, wait, sem, sinceLast, filed, stopping, startAge, returned>>

(* newRateLimiter: at least one slot.                                       *)
Slots == IF MaxConcurrent < 1 THEN 1 ELSE MaxConcurrent

(* uploaded: a File with its uuid; unnamed: success without one; the other  *)
(* three are errors as IsRetryable and IsNotifyWorthy tell them apart.      *)
Verdicts == {"uploaded", "unnamed", "read", "retryable", "terminal", "notify"}

(* On the wire: an upload or a read.                                        *)
Sent == {"uploading", "reading"}

Holding == {"admitted", "spacing", "started"} \cup Sent

Holders == {c \in Callers : pc[c] \in Holding}
-----------------------------------------------------------------------------
(* Answers: a status, the payload's errors array, how much of the body      *)
(* arrives and decodes, and the operation's field in `data'.                *)

Answer == [status : Statuses, errors : {"none", "auth", "other"},
           body : {"whole", "cut", "garbled"}, data : {"file", "null", "missing"}]

(* classify.go: "" is a success, the others are as in Verdicts.             *)
Classify(status, errors) ==
  CASE status \in {401, 403}  -> "notify"
    [] status = 429           -> "retryable"
    [] status >= 500          -> "retryable"
    [] status \in 400..499 \ {401, 403, 429} -> "terminal"
    [] status < 400 /\ errors = "auth"  -> "notify"
    [] status < 400 /\ errors = "other" -> "terminal"
    [] OTHER -> ""

(* Errors without a Decision are not retryable.                             *)
Unclassified == "terminal"

(* UploadFile or a read decodes the data: JSON null leaves a zero value.    *)
DecodeData(sent, data) ==
  CASE data = "missing" -> Unclassified
    [] data # "missing" /\ sent = "reading" -> "read"
    [] data = "file" /\ sent = "uploading"  -> "uploaded"
    [] data = "null" /\ sent = "uploading"  -> "unnamed"

(* Slip: data that decodes is taken for success, whatever errors say.       *)
DecodeResponseDataFirst(sent, a) ==
  IF a.body = "cut" THEN Unclassified
  ELSE IF a.status \in 200..299 /\ a.body = "whole" THEN DecodeData(sent, a.data)
  ELSE IF Classify(a.status, "none") = "" THEN Unclassified
  ELSE Classify(a.status, "none")

(* decodeResponse: the body is read before the status is looked at; errors  *)
(* are seen in what decodes only; a status under 200 or from 300 up is an   *)
(* error, if Classify has no reason for it (3xx) one that is not retryable. *)
DecodeResponse(sent, a) ==
  LET errors == IF a.body = "whole" THEN a.errors ELSE "none"
      class == Classify(a.status, errors)
  IN
  IF a.body = "cut" THEN Unclassified
  ELSE IF a.status \notin 200..299 THEN (IF class = "" THEN Unclassified ELSE class)
  ELSE IF a.body = "garbled" THEN Unclassified
  ELSE IF class # "" THEN class
  ELSE DecodeData(sent, a.data)

(* What a caller may get back for a request, and whether it is an upload    *)
(* whose connection broke.  ClearFacts answers an upload with a file and no *)
(* errors only when it has filed it.                                        *)
Replies == [sent \in Sent |-> [filed_ \in BOOLEAN |->
  {<<DecodeResponse(sent, a), sent = "uploading" /\ a.body = "cut">> : a \in
     {b \in Answer : sent = "uploading" /\ b.status \in 200..299 /\ b.errors = "none"
                      /\ b.data = "file" => filed_}}]]
-----------------------------------------------------------------------------
(* A call begins and ends. *)

Goto(c, step) == pc' = [pc EXCEPT ![c] = step]

NoReturn == returned' = NULL

(* doJSON or doMultipart returns v; the deferred release gives the slot     *)
(* back if acquire had returned one.                                        *)
Return(c, v, broke) ==
  /\ Goto(c, "idle")
  /\ wait' = [wait EXCEPT ![c] = 0]
  /\ sem' = IF c \in Holders THEN sem - 1 ELSE sem
  /\ filed' = [filed EXCEPT ![c] = FALSE]
  /\ returned' = [verdict |-> v, filed |-> filed[c], broke |-> broke]
  /\ UNCHANGED <<sinceLast, stopping, startAge>>

Call(c) ==
  /\ pc[c] = "idle"
  /\ Goto(c, "queued")
  /\ NoReturn
  /\ UNCHANGED <<limiterVars, filed, stopping>>

(* A graceful stop: the context of every call is done.                      *)
Stop ==
  /\ ~stopping
  /\ stopping' = TRUE
  /\ NoReturn
  /\ UNCHANGED <<pc, limiterVars, filed>>
-----------------------------------------------------------------------------
(* acquire. *)

(* The select picks either case when both are ready.                        *)
Enter(c) ==
  /\ pc[c] = "queued"
  /\ sem < Slots
  /\ sem' = sem + 1
  /\ Goto(c, "admitted")
  /\ NoReturn
  /\ UNCHANGED <<wait, sinceLast, startAge, filed, stopping>>

(* Slip: the release is deferred before the error of acquire is looked at.  *)
LeaveQueueReleases(c) ==
  /\ pc[c] = "queued"
  /\ stopping
  /\ sem' = sem - 1
  /\ Goto(c, "idle")
  /\ NoReturn
  /\ UNCHANGED <<wait, sinceLast, startAge, filed, stopping>>

LeaveQueue(c) ==
  /\ pc[c] = "queued"
  /\ stopping
  /\ Return(c, Unclassified, FALSE)

Spacing(c, w) ==
  /\ pc[c] = "admitted"
  /\ wait' = [wait EXCEPT ![c] = w]
  /\ Goto(c, "spacing")
  /\ NoReturn
  /\ UNCHANGED <<sem, sinceLast, startAge, filed, stopping>>

(* Slip: the wait is rounded down.                                          *)
SpaceRoundedDown(c) == Spacing(c, IF sinceLast = NULL THEN 0 ELSE (MinInterval - sinceLast) \div 2)

(* The wait is computed from `last' under the mutex, and slept without it.  *)
Space(c) == Spacing(c, IF sinceLast = NULL THEN 0 ELSE MinInterval - sinceLast)

(* Slip: the slot is kept when the wait is cut short.                       *)
LeaveSpacingLeaks(c) ==
  /\ pc[c] = "spacing"
  /\ stopping
  /\ Goto(c, "idle")
  /\ wait' = [wait EXCEPT ![c] = 0]
  /\ NoReturn
  /\ UNCHANGED <<sem, sinceLast, startAge, filed, stopping>>

LeaveSpacing(c) ==
  /\ pc[c] = "spacing"
  /\ stopping
  /\ Return(c, Unclassified, FALSE)

(* The timer has fired, or none was needed: last = now, and acquire         *)
(* returns.                                                                 *)
Start(c) ==
  /\ pc[c] = "spacing"
  /\ wait[c] = 0
  /\ sinceLast' = 0
  /\ startAge' = [startAge EXCEPT ![c] = 0]
  /\ Goto(c, "started")
  /\ NoReturn
  /\ UNCHANGED <<wait, sem, filed, stopping>>
-----------------------------------------------------------------------------
(* The request. *)

(* Slip: this early return is left without the release.                     *)
CannotSendLeaks(c) ==
  /\ pc[c] = "started"
  /\ Goto(c, "idle")
  /\ NoReturn
  /\ UNCHANGED <<limiterVars, filed, stopping>>

(* The document cannot be read or the token not obtained: `security' fails, *)
(* or is killed because the context is done.                                *)
CannotSend(c) ==
  /\ pc[c] = "started"
  /\ Return(c, Unclassified, FALSE)

(* Whether the call is an upload or a read matters from here on only.       *)
Send(c) ==
  /\ pc[c] = "started"
  /\ \E sent \in Sent : Goto(c, sent)
  /\ NoReturn
  /\ UNCHANGED <<limiterVars, filed, stopping>>

PortalFiles(c) ==
  /\ pc[c] = "uploading"
  /\ ~filed[c]
  /\ filed' = [filed EXCEPT ![c] = TRUE]
  /\ NoReturn
  /\ UNCHANGED <<pc, limiterVars, stopping>>

(* Slip: the request is built without the context.                          *)
TransportFailsDeaf(c) ==
  /\ pc[c] \in Sent
  /\ ~stopping
  /\ Return(c, "retryable", pc[c] = "uploading")

(* Do returns an error: no connection, or it breaks before the headers, or  *)
(* the context is done.                                                     *)
TransportFails(c) ==
  /\ pc[c] \in Sent
  /\ Return(c, "retryable", pc[c] = "uploading")

(* Headers arrive, and the body as far as it does.                          *)
Answered(c) ==
  /\ pc[c] \in Sent
  /\ \E reply \in Replies[pc[c]][filed[c]] : Return(c, reply[1], reply[2])
-----------------------------------------------------------------------------
Older(age) == IF age < MinInterval THEN age + 1 ELSE age

Tick ==
  /\ wait' = [c \in Callers |-> IF wait[c] > 0 THEN wait[c] - 1 ELSE 0]
  /\ sinceLast' = IF sinceLast = NULL THEN NULL ELSE Older(sinceLast)
  /\ startAge' = [c \in Callers |-> Older(startAge[c])]
  /\ NoReturn
  /\ UNCHANGED <<pc, sem, filed, stopping>>

Init ==
  /\ pc = [c \in Callers |-> "idle"]
  /\ wait = [c \in Callers |-> 0]
  /\ sem = 0
  /\ sinceLast = NULL
  /\ filed = [c \in Callers |-> FALSE]
  /\ stopping = FALSE
  /\ startAge = [c \in Callers |-> MinInterval]
  /\ returned = NULL

(* What a call does by itself, without an answer from anyone.               *)
Proceeds(c) == Space(c) \/ Start(c)

(* What a done context makes it do.                                         *)
GivesUp(c) ==
  \/ LeaveQueue(c)
  \/ LeaveSpacing(c)
  \/ stopping /\ CannotSend(c)
  \/ stopping /\ TransportFails(c)

Next ==
  \/ \E c \in Callers :
       \/ Call(c) \/ Enter(c) \/ LeaveQueue(c) \/ Space(c) \/ LeaveSpacing(c) \/ Start(c)
       \/ CannotSend(c) \/ Send(c) \/ PortalFiles(c) \/ TransportFails(c) \/ Answered(c)
  \/ Stop
  \/ Tick

Spec == Init /\ [][Next]_cvars

(* Goroutines run and timers fire; a done context ends the keychain command *)
(* and the request; a channel serves its blocked senders in order, so none  *)
(* is passed over for ever.  Nothing makes the keychain or ClearFacts       *)
(* answer.                                                                  *)
Fairness ==
  /\ \A c \in Callers : WF_cvars(Proceeds(c)) /\ WF_cvars(GivesUp(c)) /\ SF_cvars(Enter(c))
  /\ WF_cvars(Tick)

FairSpec == Spec /\ Fairness
-----------------------------------------------------------------------------
(* Properties. *)

CTypeOK ==
  /\ pc \in [Callers -> {"idle", "queued"} \cup Holding]
  /\ wait \in [Callers -> 0..MinInterval]
  /\ sem \in Nat
  /\ sinceLast \in 0..MinInterval \cup {NULL}
  /\ filed \in [Callers -> BOOLEAN]
  /\ stopping \in BOOLEAN
  /\ startAge \in [Callers -> 0..MinInterval]
  /\ returned \in [verdict : Verdicts, filed : BOOLEAN, broke : BOOLEAN] \cup {NULL}

(* F-54: the semaphore counts exactly the calls between their acquire and   *)
(* their return, by whichever of the error paths they return, and never     *)
(* more than max_concurrent of them.                                        *)
SlotsInStep == sem = Cardinality(Holders) /\ sem <= Slots

Recent == {c \in Callers : startAge[c] < MinInterval}

(* F-54: "a minimum interval between the start of successive requests"      *)
(* (ratelimit.go:9-12), whichever callers make them and although the rest   *)
(* of it is computed under the mutex and waited for outside.  The one slot  *)
(* that the program asks for makes it so; two callers with a slot each may  *)
(* compute one wait from one `last' and start together.                     *)
StartsAreSpaced ==
  [][\A c \in Callers : pc[c] = "spacing" /\ pc'[c] = "started" => Recent = {}]_cvars

(* What is left of it with more slots: any min_interval sees no more        *)
(* callers start than there are slots ...                                   *)
BurstIsBounded == Cardinality(Recent) <= Slots

(* ... and none of them twice.                                              *)
CallersAreSpaced ==
  [][\A c \in Callers : pc[c] = "spacing" /\ pc'[c] = "started" => c \notin Recent]_cvars

(* F-51: what a call reports as uploaded ClearFacts has filed, in spite of  *)
(* answers of status 200 that carry errors beside their data.               *)
UploadedIsFiled == returned # NULL /\ returned.verdict = "uploaded" => returned.filed

(* A graceful stop is not held up by ClearFacts or the keychain: once the   *)
(* context is done every call returns, wherever it is.                      *)
StoppedCallsReturn == \A c \in Callers : stopping ~> pc[c] = "idle"

(* A call in the queue gets its turn unless one that got its turn hangs for *)
(* good: there is no time-out to end it.                                    *)
TurnsCome ==
  (\A c \in Callers : []<>(pc[c] \notin {"started"} \cup Sent))
    => \A c \in Callers : pc[c] = "queued" ~> pc[c] # "queued"

(* F-51: "Retry network errors and 5xx": a connection that breaks, at       *)
(* whatever point, leads to a retry.                                        *)
NetworkErrorsAreRetried ==
  returned # NULL /\ returned.broke => returned.verdict = "retryable"
=============================================================================
