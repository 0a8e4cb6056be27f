---------------------------- MODULE ClientProofs ----------------------------
(***************************************************************************)
(* What the rate limiter and the decoding of answers promise, for any      *)
(* number of callers, slots and ticks of the interval.                     *)
(*                                                                         *)
(* BurstIsBounded is not inductive: a caller that has computed its wait    *)
(* starts later without looking at `last' again.  Spread counts, for every *)
(* age a, the callers that started within a together with the waiting ones *)
(* whose start will come while those are still recent: at most as many as  *)
(* there are slots.                                                        *)
(***************************************************************************)
EXTENDS Client, FiniteSetTheorems, TLAPS

Ages == 0..(MinInterval - 1)

Busy(a) ==
  {x \in Callers : startAge[x] <= a}
    \cup {x \in Callers : pc[x] = "spacing" /\ wait[x] < MinInterval - a}

Spread == \A a \in Ages : Cardinality(Busy(a)) <= Slots

(* No start is younger than `last', and a wait ends no sooner than the      *)
(* waiting caller's own last start is an interval old.                      *)
Aged ==
  \A x \in Callers :
    /\ sinceLast = NULL => startAge[x] = MinInterval
    /\ sinceLast # NULL => startAge[x] >= sinceLast
    /\ pc[x] = "spacing" => wait[x] + startAge[x] >= MinInterval

IInv == CTypeOK /\ SlotsInStep /\ Aged /\ Spread
-----------------------------------------------------------------------------
(* Sets of callers are finite, and a smaller set has no more members.       *)
LEMMA SetsOfCallers ==
  ASSUME NEW A, A \subseteq Callers
  PROVE  /\ IsFiniteSet(A)
         /\ Cardinality(A) \in Nat
         /\ \A B \in SUBSET A : Cardinality(B) <= Cardinality(A)
<1>1. IsFiniteSet(A)
  BY FS_Subset, ClientAssumption
<1>2. Cardinality(A) \in Nat
  BY <1>1, FS_CardinalityType
<1>3. \A B \in SUBSET A : Cardinality(B) <= Cardinality(A)
  BY <1>1, FS_Subset
<1> QED BY <1>1, <1>2, <1>3

(* newRateLimiter makes at least one slot.                                  *)
LEMMA SlotsType == Slots \in Nat \ {0}
BY ClientAssumption DEF Slots

(* The answer of ClearFacts leads to one of the six verdicts, and to        *)
(* "uploaded" only for a file without errors.                               *)
LEMMA Decoding ==
  ASSUME NEW sent \in Sent, NEW a \in Answer
  PROVE  /\ DecodeResponse(sent, a) \in Verdicts
         /\ DecodeResponse(sent, a) = "uploaded" =>
              sent = "uploading" /\ a.status \in 200..299 /\ a.errors = "none" /\ a.data = "file"
<1>1. a.status \in 200..599 /\ a.errors \in {"none", "auth", "other"}
      /\ a.body \in {"whole", "cut", "garbled"} /\ a.data \in {"file", "null", "missing"}
  BY ClientAssumption DEF Answer
<1>2. ASSUME NEW e \in {"none", "auth", "other"}
      PROVE  /\ Classify(a.status, e) \in {"notify", "retryable", "terminal", ""}
             /\ Classify(a.status, e) = "" => e = "none"
  BY <1>1 DEF Classify
<1>3. /\ DecodeData(sent, a.data) \in Verdicts
      /\ DecodeData(sent, a.data) = "uploaded" => sent = "uploading" /\ a.data = "file"
  BY <1>1 DEF DecodeData, Sent, Unclassified, Verdicts
<1>4. Classify(a.status, a.errors) \in {"notify", "retryable", "terminal", ""}
      /\ (Classify(a.status, a.errors) = "" => a.errors = "none")
      /\ Classify(a.status, "none") \in {"notify", "retryable", "terminal", ""}
  BY <1>1, <1>2
<1>5. CASE a.body # "whole"
  <2> DEFINE class == Classify(a.status, "none")
  <2>1. DecodeResponse(sent, a) =
          IF a.body = "cut" THEN Unclassified
          ELSE IF a.status \notin 200..299 THEN (IF class = "" THEN Unclassified ELSE class)
          ELSE IF a.body = "garbled" THEN Unclassified
          ELSE IF class # "" THEN class ELSE DecodeData(sent, a.data)
    BY <1>5, Zenon DEF DecodeResponse
  <2>2. a.body \in {"cut", "garbled"}
    BY <1>1, <1>5
  <2> HIDE DEF class
  <2>3. class \in {"notify", "retryable", "terminal", ""}
    BY <1>4 DEF class
  <2> QED BY <2>1, <2>2, <2>3 DEF Unclassified, Verdicts
<1>6. CASE a.body = "whole"
  <2> DEFINE class == Classify(a.status, a.errors)
  <2>1. DecodeResponse(sent, a) =
          IF a.status \notin 200..299 THEN (IF class = "" THEN Unclassified ELSE class)
          ELSE IF class # "" THEN class ELSE DecodeData(sent, a.data)
    BY <1>6, Zenon DEF DecodeResponse
  <2>2. class \in {"notify", "retryable", "terminal", ""} /\ (class = "" => a.errors = "none")
    BY <1>4 DEF class
  <2> HIDE DEF class
  <2> QED BY <2>1, <2>2, <1>3 DEF Unclassified, Verdicts
<1> QED BY <1>5, <1>6

(* Every reply is a verdict, and "uploaded" only for what is filed.         *)
LEMMA RepliesAreVerdicts ==
  ASSUME NEW sent \in Sent, NEW f \in BOOLEAN, NEW reply \in Replies[sent][f]
  PROVE  /\ reply[1] \in Verdicts
         /\ reply[2] \in BOOLEAN
         /\ reply[1] = "uploaded" => f
<1>1. PICK a \in Answer :
        /\ sent = "uploading" /\ a.status \in 200..299 /\ a.errors = "none" /\ a.data = "file" => f
        /\ reply = <<DecodeResponse(sent, a), sent = "uploading" /\ a.body = "cut">>
  <2>1. Replies[sent][f] =
          {<<DecodeResponse(sent, a), sent = "uploading" /\ a.body = "cut">> : a \in
             {b \in Answer : sent = "uploading" /\ b.status \in 200..299 /\ b.errors = "none"
                              /\ b.data = "file" => f}}
    BY DEF Replies
  <2> QED BY <2>1
<1>2. DecodeResponse(sent, a) \in Verdicts /\ (DecodeResponse(sent, a) = "uploaded" => f)
  BY <1>1, Decoding
<1> QED BY <1>1, <1>2
-----------------------------------------------------------------------------
LEMMA InitInv == Init => IInv
<1> SUFFICES ASSUME Init PROVE IInv
  OBVIOUS
<1>1. CTypeOK
  <2>1. filed \in [Callers -> BOOLEAN] /\ stopping \in BOOLEAN
    BY Zenon DEF Init
  <2>2. /\ pc \in [Callers -> {"idle", "queued"} \cup Holding]
        /\ wait \in [Callers -> 0..MinInterval]
        /\ startAge \in [Callers -> 0..MinInterval]
    BY ClientAssumption DEF Init
  <2> QED BY <2>1, <2>2 DEF Init, CTypeOK
<1>2. Holders = {} /\ \A a \in Ages : Busy(a) = {}
  BY ClientAssumption DEF Init, Holders, Holding, Sent, Busy, Ages
<1>3. SlotsInStep /\ Spread
  BY <1>2, FS_EmptySet, SlotsType DEF Init, SlotsInStep, Spread
<1>4. Aged
  BY ClientAssumption DEF Init, Aged
<1> QED BY <1>1, <1>3, <1>4 DEF IInv

(* A call returns from wherever it was: its slot goes back if it had one.   *)
LEMMA ReturnKeepsInv ==
  ASSUME IInv, NEW c \in Callers, NEW v \in Verdicts, NEW b \in BOOLEAN, Return(c, v, b)
  PROVE  IInv'
<1> USE DEF IInv
<1>1. CTypeOK'
  <2>1. c \in Holders => sem - 1 \in Nat
    <3> SUFFICES ASSUME c \in Holders PROVE sem - 1 \in Nat
      OBVIOUS
    <3>1. IsFiniteSet(Holders) /\ sem = Cardinality(Holders)
      BY SetsOfCallers DEF Holders, SlotsInStep
    <3>2. sem # 0
      BY <3>1, FS_EmptySet
    <3> QED BY <3>2 DEF CTypeOK
  <2> QED BY <2>1, ClientAssumption DEF CTypeOK, Return, Goto
<1>2. SlotsInStep'
  <2>1. Holders' = Holders \ {c}
    BY DEF CTypeOK, Return, Goto, Holders, Holding, Sent
  <2>2. IsFiniteSet(Holders) /\ Cardinality(Holders) \in Nat
    BY SetsOfCallers DEF Holders
  <2>3. Cardinality(Holders') = IF c \in Holders THEN Cardinality(Holders) - 1 ELSE Cardinality(Holders)
    BY <2>1, <2>2, FS_RemoveElement
  <2> QED BY <2>2, <2>3, SlotsType DEF SlotsInStep, Return, Slots
<1>3. Aged'
  BY DEF CTypeOK, Aged, Return, Goto
<1>4. Spread'
  <2> SUFFICES ASSUME NEW a \in Ages PROVE Cardinality(Busy(a)') <= Slots
    BY DEF Spread, Ages, Slots
  <2>1. Busy(a)' \subseteq Busy(a)
    BY DEF CTypeOK, Return, Goto, Busy
  <2>2. Busy(a) \subseteq Callers
    BY DEF Busy
  <2>3. Cardinality(Busy(a)') <= Cardinality(Busy(a))
    BY <2>1, <2>2, SetsOfCallers
  <2>4. Cardinality(Busy(a)) \in Nat /\ Cardinality(Busy(a)') \in Nat
    BY <2>1, <2>2, SetsOfCallers
  <2> QED BY <2>3, <2>4, SlotsType DEF Spread
<1> QED BY <1>1, <1>2, <1>3, <1>4

(* A step that moves one caller, between two places that hold no slot or    *)
(* two that do, neither of them the wait, and leaves the limiter alone.     *)
LEMMA MoveKeepsInv ==
  ASSUME IInv, NEW c \in Callers,
         NEW step \in ({"idle", "queued"} \cup Holding) \ {"spacing"},
         Goto(c, step), pc[c] # "spacing",
         pc[c] \in Holding <=> step \in Holding,
         filed' \in [Callers -> BOOLEAN], NoReturn,
         UNCHANGED <<limiterVars, stopping>>
  PROVE  IInv'
<1> USE DEF IInv
<1>1. CTypeOK'
  BY DEF CTypeOK, Goto, NoReturn, limiterVars
<1>2. Holders' = Holders /\ \A a \in Ages : Busy(a)' = Busy(a)
  BY DEF CTypeOK, Goto, Holders, Busy, limiterVars
<1>3. SlotsInStep' /\ Spread'
  BY <1>2 DEF SlotsInStep, Spread, Slots, Ages, limiterVars
<1>4. Aged'
  BY DEF CTypeOK, Aged, Goto, limiterVars
<1> QED BY <1>1, <1>3, <1>4

LEMMA EnterKeepsInv ==
  ASSUME IInv, NEW c \in Callers, Enter(c)
  PROVE  IInv'
<1> USE DEF IInv
<1>1. CTypeOK'
  BY DEF CTypeOK, Enter, Goto, NoReturn, Holding
<1>2. Holders' = Holders \cup {c} /\ c \notin Holders
  BY DEF CTypeOK, Enter, Goto, Holders, Holding, Sent
<1>3. IsFiniteSet(Holders) /\ Cardinality(Holders) \in Nat
  BY SetsOfCallers DEF Holders
<1>4. Cardinality(Holders') = Cardinality(Holders) + 1
  BY <1>2, <1>3, FS_AddElement
<1>5. SlotsInStep'
  BY <1>3, <1>4, SlotsType DEF SlotsInStep, Enter, Slots
<1>6. \A a \in Ages : Busy(a)' = Busy(a)
  BY DEF CTypeOK, Enter, Goto, Busy
<1>7. Spread'
  BY <1>6 DEF Spread, Slots, Ages
<1>8. Aged'
  BY DEF CTypeOK, Aged, Enter, Goto
<1> QED BY <1>1, <1>5, <1>7, <1>8

(* The wait is computed: for the ages the caller joins, nobody has started. *)
LEMMA SpaceKeepsInv ==
  ASSUME IInv, NEW c \in Callers, Space(c)
  PROVE  IInv'
<1> USE DEF IInv
<1> DEFINE w == IF sinceLast = NULL THEN 0 ELSE MinInterval - sinceLast
<1>1. w \in 0..MinInterval /\ Spacing(c, w)
  BY ClientAssumption DEF Space, CTypeOK
<1> HIDE DEF w
<1>2. CTypeOK'
  BY <1>1 DEF CTypeOK, Spacing, Goto, NoReturn, Holding
<1>3. Holders' = Holders
  BY <1>1 DEF CTypeOK, Spacing, Goto, Holders, Holding, Sent
<1>4. SlotsInStep'
  BY <1>1, <1>3 DEF SlotsInStep, Spacing, Slots
<1>5. w + startAge[c] >= MinInterval
  BY ClientAssumption DEF w, Aged, CTypeOK
<1>6. Aged'
  BY <1>1, <1>5 DEF CTypeOK, Aged, Spacing, Goto
<1>7. Spread'
  <2> SUFFICES ASSUME NEW a \in Ages PROVE Cardinality(Busy(a)') <= Slots
    BY DEF Spread, Ages, Slots
  <2>1. CASE \E x \in Callers : startAge[x] <= a
    <3>1. sinceLast # NULL /\ sinceLast <= a
      BY <2>1, ClientAssumption DEF Aged, CTypeOK, Ages
    <3>2. ~(w < MinInterval - a)
      BY <3>1, ClientAssumption DEF w, CTypeOK, Ages
    <3>3. Busy(a)' = Busy(a)
      BY <1>1, <3>2 DEF CTypeOK, Spacing, Goto, Busy
    <3> QED BY <3>3 DEF Spread
  <2>2. CASE ~ \E x \in Callers : startAge[x] <= a
    <3>1. Busy(a)' \subseteq Holders'
      BY <1>1, <2>2 DEF CTypeOK, Spacing, Goto, Busy, Holders, Holding
    <3>2. Cardinality(Busy(a)') <= Cardinality(Holders') /\ Cardinality(Busy(a)') \in Nat
          /\ Cardinality(Holders') \in Nat
      BY <3>1, SetsOfCallers DEF Holders
    <3> QED BY <3>2, <1>3, SlotsType DEF SlotsInStep
  <2> QED BY <2>1, <2>2
<1> QED BY <1>2, <1>4, <1>6, <1>7

(* A waiting caller starts: it was counted already.                         *)
LEMMA StartKeepsInv ==
  ASSUME IInv, NEW c \in Callers, Start(c)
  PROVE  IInv'
<1> USE DEF IInv
<1>1. CTypeOK'
  BY ClientAssumption DEF CTypeOK, Start, Goto, NoReturn, Holding
<1>2. Holders' = Holders
  BY DEF CTypeOK, Start, Goto, Holders, Holding, Sent
<1>3. SlotsInStep'
  BY <1>2 DEF SlotsInStep, Start, Slots
<1>4. Aged'
  BY ClientAssumption DEF CTypeOK, Aged, Start, Goto
<1>5. \A a \in Ages : Busy(a)' = Busy(a)
  BY ClientAssumption DEF CTypeOK, Start, Goto, Busy, Ages
<1>6. Spread'
  BY <1>5 DEF Spread, Slots, Ages
<1> QED BY <1>1, <1>3, <1>4, <1>6

(* Time passes: who is counted at an age was counted at the age before, and *)
(* at age 0 only callers with a slot are.                                   *)
LEMMA TickKeepsInv ==
  ASSUME IInv, Tick
  PROVE  IInv'
<1> USE DEF IInv
<1>1. CTypeOK'
  BY ClientAssumption DEF CTypeOK, Tick, Older, NoReturn
<1>2. Holders' = Holders
  BY DEF Tick, Holders
<1>3. SlotsInStep'
  BY <1>2 DEF SlotsInStep, Tick, Slots
<1>4. Aged'
  BY ClientAssumption DEF CTypeOK, Aged, Tick, Older
<1>5. Spread'
  <2> SUFFICES ASSUME NEW a \in Ages PROVE Cardinality(Busy(a)') <= Slots
    BY DEF Spread, Ages, Slots
  <2>1. CASE a = 0
    <3>1. Busy(a)' \subseteq Holders
      BY <2>1, ClientAssumption DEF CTypeOK, Tick, Older, Busy, Holders, Holding, Ages
    <3>2. Cardinality(Busy(a)') <= Cardinality(Holders) /\ Cardinality(Busy(a)') \in Nat
          /\ Cardinality(Holders) \in Nat
      BY <3>1, SetsOfCallers DEF Holders
    <3> QED BY <3>2, SlotsType DEF SlotsInStep
  <2>2. CASE a # 0
    <3>1. a - 1 \in Ages
      BY <2>2, ClientAssumption DEF Ages
    <3>2. Busy(a)' \subseteq Busy(a - 1) /\ Busy(a - 1) \subseteq Callers
      BY <3>1, ClientAssumption DEF CTypeOK, Tick, Older, Busy, Ages
    <3>3. Cardinality(Busy(a)') <= Cardinality(Busy(a - 1)) /\ Cardinality(Busy(a)') \in Nat
          /\ Cardinality(Busy(a - 1)) \in Nat
      BY <3>2, SetsOfCallers
    <3> QED BY <3>1, <3>3, SlotsType DEF Spread
  <2> QED BY <2>1, <2>2
<1> QED BY <1>1, <1>3, <1>4, <1>5

(* Every action keeps the invariant. *)
LEMMA StepInv == IInv /\ [Next]_cvars => IInv'
<1> SUFFICES ASSUME IInv, [Next]_cvars PROVE IInv'
  OBVIOUS
<1>1. ASSUME NEW c \in Callers, Call(c) PROVE IInv'
  <2>1. filed' \in [Callers -> BOOLEAN]
    BY <1>1 DEF Call, IInv, CTypeOK
  <2> QED BY <1>1, <2>1, MoveKeepsInv DEF Call, Holding, Sent
<1>2. ASSUME NEW c \in Callers, Enter(c) PROVE IInv'
  BY <1>2, EnterKeepsInv
<1>3. ASSUME NEW c \in Callers, LeaveQueue(c) \/ LeaveSpacing(c) \/ CannotSend(c) PROVE IInv'
  <2>1. Return(c, Unclassified, FALSE)
    BY <1>3 DEF LeaveQueue, LeaveSpacing, CannotSend
  <2>2. Unclassified \in Verdicts
    BY DEF Unclassified, Verdicts
  <2> QED BY <2>1, <2>2, ReturnKeepsInv
<1>4. ASSUME NEW c \in Callers, Space(c) PROVE IInv'
  BY <1>4, SpaceKeepsInv
<1>5. ASSUME NEW c \in Callers, Start(c) PROVE IInv'
  BY <1>5, StartKeepsInv
<1>6. ASSUME NEW c \in Callers, Send(c) PROVE IInv'
  <2>1. PICK sent \in Sent : Goto(c, sent)
    BY <1>6 DEF Send
  <2>2. filed' \in [Callers -> BOOLEAN]
    BY <1>6 DEF Send, IInv, CTypeOK
  <2>3. sent \in ({"idle", "queued"} \cup Holding) \ {"spacing"} /\ sent \in Holding
    BY DEF Holding, Sent
  <2>4. pc[c] = "started" /\ NoReturn /\ UNCHANGED <<limiterVars, stopping>>
    BY <1>6 DEF Send
  <2>5. pc[c] # "spacing" /\ pc[c] \in Holding
    BY <2>4 DEF Holding
  <2> QED BY <2>1, <2>2, <2>3, <2>4, <2>5, MoveKeepsInv
<1>7. ASSUME NEW c \in Callers, PortalFiles(c) PROVE IInv'
  <2>1. CTypeOK'
    BY <1>7 DEF IInv, CTypeOK, PortalFiles, limiterVars, NoReturn
  <2>2. SlotsInStep' /\ Aged' /\ Spread'
    BY <1>7 DEF IInv, PortalFiles, limiterVars, SlotsInStep, Holders, Slots, Aged, Spread, Busy,
                Ages
  <2> QED BY <2>1, <2>2 DEF IInv
<1>8. ASSUME NEW c \in Callers, TransportFails(c) PROVE IInv'
  <2>1. Return(c, "retryable", pc[c] = "uploading") /\ "retryable" \in Verdicts
    BY <1>8 DEF TransportFails, Verdicts
  <2> QED BY <2>1, ReturnKeepsInv
<1>9. ASSUME NEW c \in Callers, Answered(c) PROVE IInv'
  <2>1. PICK reply \in Replies[pc[c]][filed[c]] : Return(c, reply[1], reply[2])
    BY <1>9 DEF Answered
  <2>2. reply[1] \in Verdicts /\ reply[2] \in BOOLEAN
    BY <1>9, RepliesAreVerdicts DEF Answered, IInv, CTypeOK
  <2> QED BY <2>1, <2>2, ReturnKeepsInv
<1>10. CASE Stop
  <2>1. CTypeOK'
    BY <1>10 DEF IInv, CTypeOK, Stop, limiterVars, NoReturn
  <2>2. SlotsInStep' /\ Aged' /\ Spread'
    BY <1>10 DEF IInv, Stop, limiterVars, SlotsInStep, Holders, Slots, Aged, Spread, Busy, Ages
  <2> QED BY <2>1, <2>2 DEF IInv
<1>11. CASE Tick
  BY <1>11, TickKeepsInv
<1>12. CASE UNCHANGED cvars
  BY <1>12 DEF IInv, cvars, CTypeOK, SlotsInStep, Holders, Slots, Aged, Spread, Busy, Ages
<1> QED BY <1>1, <1>2, <1>3, <1>4, <1>5, <1>6, <1>7, <1>8, <1>9, <1>10, <1>11, <1>12 DEF Next

LEMMA InvHolds == Spec => []IInv
BY InitInv, StepInv, PTL DEF Spec
-----------------------------------------------------------------------------
(* The client's state keeps its shape, and every call ends in one of the    *)
(* verdicts its callers tell apart.                                         *)
THEOREM ClientTypeCorrect == Spec => []CTypeOK
BY InvHolds, PTL DEF IInv

(* ratelimit.go: by whichever path a call returns, the semaphore counts     *)
(* exactly the calls that hold a slot, and never more than max_concurrent.  *)
THEOREM SlotsAreReleased == Spec => []SlotsInStep
BY InvHolds, PTL DEF IInv

(* ratelimit.go: no interval sees more starts than there are slots, for any *)
(* max_concurrent and min_interval, although the wait is slept outside the  *)
(* mutex.                                                                   *)
THEOREM BurstsAreBounded == Spec => []BurstIsBounded
<1>1. IInv => BurstIsBounded
  <2> SUFFICES ASSUME IInv PROVE BurstIsBounded
    OBVIOUS
  <2>1. CASE MinInterval = 0
    <3>1. Recent = {}
      BY <2>1 DEF IInv, CTypeOK, Recent
    <3> QED BY <3>1, FS_EmptySet, SlotsType DEF BurstIsBounded
  <2>2. CASE MinInterval # 0
    <3> DEFINE a == MinInterval - 1
    <3>1. a \in Ages /\ Recent \subseteq Busy(a) /\ Busy(a) \subseteq Callers
      BY <2>2, ClientAssumption DEF IInv, CTypeOK, Ages, Recent, Busy
    <3>2. Cardinality(Recent) <= Cardinality(Busy(a)) /\ Cardinality(Recent) \in Nat
          /\ Cardinality(Busy(a)) \in Nat
      BY <3>1, SetsOfCallers
    <3>3. Cardinality(Busy(a)) <= Slots
      BY <3>1 DEF IInv, Spread
    <3> QED BY <3>2, <3>3, SlotsType DEF BurstIsBounded
  <2> QED BY <2>1, <2>2
<1> QED BY <1>1, InvHolds, PTL

(* ratelimit.go: no caller starts twice within an interval, for any         *)
(* max_concurrent; and with one slot the starts of any two callers are an   *)
(* interval apart, as ratelimit.go:9-12 says.                               *)
THEOREM StartsSpaced ==
  Spec => CallersAreSpaced /\ (Slots = 1 => StartsAreSpaced)
<1>1. ASSUME IInv, [Next]_cvars, NEW c \in Callers, pc[c] = "spacing", pc'[c] = "started"
      PROVE  c \notin Recent /\ (Slots = 1 => Recent = {})
  <2>1. Start(c)
    <3>1. ASSUME NEW d \in Callers, NEW step, Goto(d, step), step # "started" PROVE FALSE
      BY <1>1, <3>1 DEF IInv, CTypeOK, Goto
    <3>2. ASSUME NEW d \in Callers, Send(d) PROVE FALSE
      BY <3>1, <3>2 DEF Send, Sent
    <3>3. ASSUME NEW d \in Callers, Start(d) PROVE d = c
      BY <1>1, <3>3 DEF IInv, CTypeOK, Start, Goto
    <3>4. ASSUME NEW d \in Callers, NEW v, NEW b, Return(d, v, b) PROVE FALSE
      BY <3>1, <3>4 DEF Return
    <3>5. ASSUME NEW d \in Callers, Call(d) \/ Enter(d) \/ Space(d) PROVE FALSE
      BY <3>1, <3>5 DEF Call, Enter, Space, Spacing
    <3>6. ASSUME NEW d \in Callers,
                 LeaveQueue(d) \/ LeaveSpacing(d) \/ CannotSend(d) \/ TransportFails(d)
                   \/ Answered(d)
          PROVE FALSE
      BY <3>4, <3>6 DEF LeaveQueue, LeaveSpacing, CannotSend, TransportFails, Answered
    <3>7. ~(pc' = pc)
      BY <1>1
    <3>8. ASSUME NEW d \in Callers, PortalFiles(d) PROVE FALSE
      BY <3>7, <3>8 DEF PortalFiles
    <3>9. ~Stop /\ ~Tick /\ ~(UNCHANGED cvars)
      BY <3>7 DEF Stop, Tick, cvars
    <3> QED BY <1>1, <3>2, <3>3, <3>5, <3>6, <3>8, <3>9 DEF Next
  <2>2. wait[c] = 0
    BY <2>1 DEF Start
  <2>3. c \notin Recent
    BY <1>1, <2>2, ClientAssumption DEF IInv, CTypeOK, Aged, Recent
  <2>4. ASSUME Slots = 1, NEW x \in Recent PROVE FALSE
    <3> DEFINE a == MinInterval - 1
    <3>1. x \in Callers /\ startAge[x] < MinInterval /\ startAge[x] \in 0..MinInterval
      BY <1>1, <2>4 DEF IInv, CTypeOK, Recent
    <3>2. a \in Ages /\ startAge[x] <= a
      BY <3>1, ClientAssumption DEF Ages
    <3>3. {x, c} \subseteq Busy(a) /\ Busy(a) \subseteq Callers
      BY <1>1, <2>2, <3>1, <3>2, ClientAssumption DEF Busy
    <3>4. Cardinality({x, c}) <= Cardinality(Busy(a)) /\ Cardinality(Busy(a)) \in Nat
          /\ Cardinality({x, c}) \in Nat
      BY <3>3, SetsOfCallers
    <3>5. Cardinality({x, c}) = 2
      <4>1. x # c
        BY <2>3, <2>4
      <4>2. IsFiniteSet({c}) /\ Cardinality({c}) = 1 /\ {x, c} = {c} \cup {x}
        BY FS_Singleton
      <4> QED BY <4>1, <4>2, FS_AddElement
    <3> QED BY <1>1, <2>4, <3>2, <3>4, <3>5 DEF IInv, Spread
  <2> QED BY <2>3, <2>4
<1> DEFINE spaced == \A c \in Callers : pc[c] = "spacing" /\ pc'[c] = "started" => c \notin Recent
           single == \A c \in Callers : pc[c] = "spacing" /\ pc'[c] = "started" => Recent = {}
<1>2. IInv /\ [Next]_cvars => [spaced]_cvars /\ [Slots = 1 => single]_cvars
  BY <1>1
<1>3. CASE Slots = 1
  <2>1. IInv /\ [Next]_cvars => [spaced]_cvars /\ [single]_cvars
    BY <1>2, <1>3
  <2> QED BY <1>3, <2>1, InvHolds, PTL DEF Spec, StartsAreSpaced, CallersAreSpaced
<1>4. CASE Slots # 1
  <2>1. Spec => CallersAreSpaced
    BY <1>2, InvHolds, PTL DEF Spec, CallersAreSpaced
  <2> QED BY <1>4, <2>1
<1> QED BY <1>3, <1>4

(* client.go, upload.go: an upload is reported only when ClearFacts has     *)
(* filed the document, whatever statuses, errors and bodies it answers with.*)
THEOREM UploadsAreFiled == Spec => []UploadedIsFiled
<1>1. Init => UploadedIsFiled
  BY DEF Init, UploadedIsFiled
<1>2. ASSUME UploadedIsFiled, IInv, [Next]_cvars PROVE UploadedIsFiled'
  <2>1. ASSUME NEW c \in Callers, Answered(c) PROVE UploadedIsFiled'
    <3>1. PICK reply \in Replies[pc[c]][filed[c]] : Return(c, reply[1], reply[2])
      BY <2>1 DEF Answered
    <3>2. reply[1] = "uploaded" => filed[c]
      BY <1>2, <2>1, RepliesAreVerdicts DEF Answered, IInv, CTypeOK
    <3>3. returned' = [verdict |-> reply[1], filed |-> filed[c], broke |-> reply[2]]
      BY <3>1 DEF Return
    <3> QED BY <3>2, <3>3 DEF UploadedIsFiled
  <2>2. ASSUME NEW c \in Callers,
               LeaveQueue(c) \/ LeaveSpacing(c) \/ CannotSend(c) \/ TransportFails(c)
        PROVE UploadedIsFiled'
    <3>1. returned' = [verdict |-> "terminal", filed |-> filed[c], broke |-> FALSE]
          \/ returned' = [verdict |-> "retryable", filed |-> filed[c],
                          broke |-> (pc[c] = "uploading")]
      BY <2>2 DEF LeaveQueue, LeaveSpacing, CannotSend, TransportFails, Return, Unclassified
    <3>2. returned'.verdict # "uploaded"
      BY <3>1
    <3> QED BY <3>2 DEF UploadedIsFiled
  <2>3. ASSUME NEW c \in Callers,
               Call(c) \/ Enter(c) \/ Space(c) \/ Start(c) \/ Send(c) \/ PortalFiles(c)
        PROVE UploadedIsFiled'
    BY <2>3 DEF Call, Enter, Space, Spacing, Start, Send, PortalFiles, NoReturn, UploadedIsFiled
  <2>4. CASE Stop \/ Tick
    BY <2>4 DEF Stop, Tick, NoReturn, UploadedIsFiled
  <2>5. CASE UNCHANGED cvars
    BY <1>2, <2>5 DEF cvars, UploadedIsFiled
  <2> QED BY <1>2, <2>1, <2>2, <2>3, <2>4, <2>5 DEF Next
<1> QED BY <1>1, <1>2, InvHolds, PTL DEF Spec
=============================================================================
