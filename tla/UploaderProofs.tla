---------------------------- MODULE UploaderProofs ----------------------------
(***************************************************************************)
(* Theorems about Uploader, for any number of daemons, any documents, any  *)
(* retry schedule and any number of faults: a claim protects an item, the  *)
(* portal gets no second copy unless the record of the first was lost, a   *)
(* retry waits for its turn, and Gmail is told the truth.                  *)
(***************************************************************************)
EXTENDS Uploader, QueueProofs

(* Induction on the natural numbers, for sets.                              *)
LEMMA SetInduction ==
  ASSUME NEW T, 0 \in T, \A n \in T \cap Nat : n + 1 \in T
  PROVE  Nat \subseteq T
<1> SUFFICES ASSUME NEW k \in Nat, k \notin T
             PROVE  FALSE
  OBVIOUS
<1> DEFINE S == Nat \ T
<1>1. \E m \in S : \A j \in S : m <= j
  <2>1. S \in SUBSET Nat /\ S # {}
    OBVIOUS
  <2> HIDE DEF S
  <2> QED  BY <2>1, OldestIsLeast
<1>2. PICK m \in Nat : m \notin T /\ \A j \in Nat : j \in T \/ m <= j
  BY <1>1
<1>3. m - 1 \in Nat /\ (m - 1) + 1 = m /\ ~(m <= m - 1)
  BY <1>2
<1> QED  BY <1>2, <1>3

(* What is defined by its value at 0 and a step from each number to the     *)
(* next exists.                                                             *)
LEMMA RecursionExists ==
  ASSUME NEW V, NEW a \in V, NEW h \in [Nat -> [V -> V]]
  PROVE  \E f \in [Nat -> V] : f[0] = a /\ \A n \in Nat : f[n + 1] = h[n][f[n]]
<1> DEFINE Good(n, g) == /\ g \in [0..n -> V]
                         /\ g[0] = a
                         /\ \A k \in 0..(n - 1) : g[k + 1] = h[k][g[k]]
           Reached == {n \in Nat : \E g : Good(n, g)}
<1>1. 0 \in Reached
  <2>1. Good(0, [k \in 0..0 |-> a])
    OBVIOUS
  <2> QED  BY <2>1
<1>2. ASSUME NEW n \in Reached PROVE n + 1 \in Reached
  <2>1. PICK g : Good(n, g)
    OBVIOUS
  <2> DEFINE e == [k \in 0..(n + 1) |-> IF k = n + 1 THEN h[n][g[n]] ELSE g[k]]
  <2>2. g[n] \in V /\ h[n] \in [V -> V] /\ n \in Nat
    BY <2>1
  <2>3. e \in [0..(n + 1) -> V]
    BY <2>1, <2>2
  <2>4. e[0] = a
    BY <2>1, <2>2
  <2>5. ASSUME NEW k \in 0..n PROVE e[k + 1] = h[k][e[k]]
    <3>1. CASE k = n
      BY <2>2, <3>1
    <3>2. CASE k # n
      BY <2>1, <2>2, <3>2
    <3> QED  BY <3>1, <3>2
  <2>6. Good(n + 1, e)
    <3>1. (n + 1) - 1 = n
      BY <2>2
    <3> HIDE DEF e
    <3> QED  BY <2>3, <2>4, <2>5, <3>1
  <2> HIDE DEF e, Good
  <2> QED  BY <2>2, <2>6
<1>3. Nat \subseteq Reached
  <2> HIDE DEF Reached
  <2> QED  BY <1>1, <1>2, SetInduction
<1>4. ASSUME NEW m \in Nat, NEW n \in Nat, NEW f, NEW g, Good(m, f), Good(n, g),
             NEW k \in Nat, k <= m, k <= n
      PROVE  f[k] = g[k]
  <2> DEFINE Same == {j \in Nat : j <= m /\ j <= n => f[j] = g[j]}
  <2>1. 0 \in Same
    BY <1>4
  <2>2. ASSUME NEW j \in Same \cap Nat PROVE j + 1 \in Same
    <3> SUFFICES ASSUME j + 1 <= m, j + 1 <= n PROVE f[j + 1] = g[j + 1]
      OBVIOUS
    <3>1. f[j] = g[j] /\ j \in 0..(m - 1) /\ j \in 0..(n - 1)
      OBVIOUS
    <3> QED  BY <1>4, <3>1
  <2>3. Nat \subseteq Same
    <3> HIDE DEF Same
    <3> QED  BY <2>1, <2>2, SetInduction
  <2> QED  BY <1>4, <2>3
<1> DEFINE G == [n \in Nat |-> CHOOSE g : Good(n, g)]
           f == [n \in Nat |-> G[n][n]]
<1>5. \A n \in Nat : Good(n, G[n])
  BY <1>3
<1>6. ASSUME NEW n \in Nat PROVE f[n] \in V /\ f[n + 1] = h[n][f[n]]
  <2>1. Good(n, G[n]) /\ Good(n + 1, G[n + 1]) /\ n + 1 \in Nat
    <3> HIDE DEF G, Good
    <3> QED  BY <1>5
  <2>2. G[n + 1][n] = G[n][n]
    <3> HIDE DEF G, Good
    <3> QED  BY <1>4, <2>1
  <2>3. G[n + 1][n + 1] = h[n][G[n + 1][n]]
    <3>1. n \in 0..((n + 1) - 1)
      OBVIOUS
    <3> HIDE DEF G
    <3> QED  BY <2>1, <3>1
  <2>4. G[n][n] \in V
    <3> HIDE DEF G
    <3> QED  BY <2>1
  <2> HIDE DEF G
  <2> QED  BY <2>1, <2>2, <2>3, <2>4
<1>7. f[0] = a
  <2> HIDE DEF G
  <2> QED  BY <1>5
<1>8. f \in [Nat -> V]
  <2> HIDE DEF G
  <2> QED  BY <1>6
<1> HIDE DEF f
<1> QED  BY <1>6, <1>7, <1>8

LEMMA NatRecursion ==
  ASSUME NEW a \in Nat, NEW h \in [Nat -> [Nat -> Nat]]
  PROVE  \E f \in [Nat -> Nat] : f[0] = a /\ \A n \in Nat : f[n + 1] = h[n][f[n]]
<1> DEFINE Exists(V, x, g) == \E f \in [Nat -> V] : f[0] = x /\ \A n \in Nat : f[n + 1] = g[n][f[n]]
<1>1. \A V : \A x \in V, g \in [Nat -> [V -> V]] : Exists(V, x, g)
  BY RecursionExists
<1>2. Exists(Nat, a, h)
  <2> HIDE DEF Exists
  <2> QED  BY <1>1
<1> QED  BY <1>2

(* The delays double.                                                       *)
LEMMA DoubledRecursion ==
  /\ Doubled \in [Nat -> Nat]
  /\ Doubled[0] = BackoffBase
  /\ \A n \in Nat : Doubled[n + 1] = 2 * Doubled[n]
<1> DEFINE h == [n \in Nat |-> [v \in Nat |-> 2 * v]]
           Eqn(f) == f = [n \in Nat |-> IF n = 0 THEN BackoffBase ELSE 2 * f[n - 1]]
<1>1. PICK f \in [Nat -> Nat] : f[0] = BackoffBase /\ \A n \in Nat : f[n + 1] = h[n][f[n]]
  <2>1. BackoffBase \in Nat /\ h \in [Nat -> [Nat -> Nat]]
    BY UploaderAssumption
  <2> HIDE DEF h
  <2> QED  BY <2>1, NatRecursion
<1>2. \A n \in Nat : f[n] = IF n = 0 THEN BackoffBase ELSE 2 * f[n - 1]
  <2> SUFFICES ASSUME NEW n \in Nat, n # 0
               PROVE  f[n] = 2 * f[n - 1]
    BY <1>1
  <2>1. n - 1 \in Nat /\ (n - 1) + 1 = n
    OBVIOUS
  <2>2. f[(n - 1) + 1] = h[n - 1][f[n - 1]] /\ f[n - 1] \in Nat
    BY <1>1, <2>1
  <2> QED  BY <2>1, <2>2
<1>3. Eqn(f)
  BY <1>1, <1>2
<1>4. Doubled = CHOOSE g : Eqn(g)
  BY DEF Doubled
<1>5. Eqn(Doubled)
  <2> HIDE DEF Eqn
  <2> QED  BY <1>3, <1>4
<1>6. \A n \in Nat : Doubled[n] = IF n = 0 THEN BackoffBase ELSE 2 * Doubled[n - 1]
  BY <1>5
<1>7. Doubled = [n \in Nat |-> Doubled[n]]
  BY <1>5
<1>8. \A n \in Nat : Doubled[n + 1] = 2 * Doubled[n]
  <2> SUFFICES ASSUME NEW n \in Nat PROVE Doubled[n + 1] = 2 * Doubled[n]
    OBVIOUS
  <2>1. n + 1 \in Nat /\ n + 1 # 0 /\ (n + 1) - 1 = n
    OBVIOUS
  <2> QED  BY <1>6, <2>1
<1>9. \A n \in Nat : Doubled[n] \in Nat
  <2> DEFINE T == {n \in Nat : Doubled[n] \in Nat}
  <2>1. 0 \in T
    BY <1>6, UploaderAssumption
  <2>2. \A n \in T \cap Nat : n + 1 \in T
    BY <1>8
  <2>3. Nat \subseteq T
    <3> HIDE DEF T
    <3> QED  BY <2>1, <2>2, SetInduction
  <2> QED  BY <2>3
<1> QED  BY <1>6, <1>7, <1>8, <1>9

(* Every delay of the schedule is a number of ticks within the cap.         *)
LEMMA BackoffBounds ==
  ASSUME NEW n \in Nat \ {0}
  PROVE  Backoff(n) \in 0..BackoffCap
<1>1. Min2(n, 30) - 1 \in Nat
  BY DEF Min2
<1>2. Doubled[Min2(n, 30) - 1] \in Nat
  BY <1>1, DoubledRecursion
<1> QED  BY <1>2, UploaderAssumption DEF Backoff, Min2

(* The delays add up.                                                       *)
LEMMA ScheduleRecursion ==
  /\ Schedule \in [Nat -> Nat]
  /\ Schedule[0] = 0
  /\ \A n \in Nat : Schedule[n + 1] = Schedule[n] + Backoff(n + 1)
<1> DEFINE h == [n \in Nat |-> [v \in Nat |-> v + Backoff(n + 1)]]
           Eqn(f) == f = [n \in Nat |-> IF n = 0 THEN 0 ELSE f[n - 1] + Backoff(n)]
<1>0. \A n \in Nat : Backoff(n + 1) \in Nat
  <2> SUFFICES ASSUME NEW n \in Nat PROVE Backoff(n + 1) \in Nat
    OBVIOUS
  <2>1. n + 1 \in Nat \ {0}
    OBVIOUS
  <2>2. Backoff(n + 1) \in 0..BackoffCap
    BY <2>1, BackoffBounds
  <2> QED  BY <2>2, UploaderAssumption
<1>1. PICK f \in [Nat -> Nat] : f[0] = 0 /\ \A n \in Nat : f[n + 1] = h[n][f[n]]
  <2>1. h \in [Nat -> [Nat -> Nat]]
    BY <1>0
  <2> HIDE DEF h
  <2> QED  BY <2>1, NatRecursion
<1>2. \A n \in Nat : f[n] = IF n = 0 THEN 0 ELSE f[n - 1] + Backoff(n)
  <2> SUFFICES ASSUME NEW n \in Nat, n # 0
               PROVE  f[n] = f[n - 1] + Backoff(n)
    BY <1>1
  <2>1. n - 1 \in Nat /\ (n - 1) + 1 = n
    OBVIOUS
  <2>2. f[(n - 1) + 1] = h[n - 1][f[n - 1]] /\ f[n - 1] \in Nat
    BY <1>1, <2>1
  <2>3. h[n - 1][f[n - 1]] = f[n - 1] + Backoff((n - 1) + 1)
    BY <2>1, <2>2
  <2> QED  BY <2>1, <2>2, <2>3
<1>3. Eqn(f)
  BY <1>1, <1>2
<1>4. Schedule = CHOOSE g : Eqn(g)
  BY DEF Schedule
<1>5. Eqn(Schedule)
  <2> HIDE DEF Eqn
  <2> QED  BY <1>3, <1>4
<1>6. \A n \in Nat : Schedule[n] = IF n = 0 THEN 0 ELSE Schedule[n - 1] + Backoff(n)
  BY <1>5
<1>7. Schedule = [n \in Nat |-> Schedule[n]]
  BY <1>5
<1>8. \A n \in Nat : Schedule[n + 1] = Schedule[n] + Backoff(n + 1)
  <2> SUFFICES ASSUME NEW n \in Nat PROVE Schedule[n + 1] = Schedule[n] + Backoff(n + 1)
    OBVIOUS
  <2>1. n + 1 \in Nat /\ n + 1 # 0 /\ (n + 1) - 1 = n
    OBVIOUS
  <2> QED  BY <1>6, <2>1
<1>9. \A n \in Nat : Schedule[n] \in Nat
  <2> DEFINE T == {n \in Nat : Schedule[n] \in Nat}
  <2>1. 0 \in T
    BY <1>6
  <2>2. \A n \in T \cap Nat : n + 1 \in T
    BY <1>0, <1>8
  <2>3. Nat \subseteq T
    <3> HIDE DEF T
    <3> QED  BY <2>1, <2>2, SetInduction
  <2> QED  BY <2>3
<1> QED  BY <1>6, <1>7, <1>8, <1>9
-----------------------------------------------------------------------------
(* What a step does to the queue and to the processes. *)

Acts(p) ==
  Step(p) \/ Start(p) \/ PortalAccepts(p) \/ Poll(p)
    \/ AnswerWithoutUuid(p) \/ WriteFails(p) \/ Crash(p)

(* Every step is one of the queue, or leaves it alone.                      *)
LEMMA QueueStep ==
  ASSUME [UNext]_uvars
  PROVE  [Next]_vars
<1>1. ASSUME NEW p \in Procs, Acts(p), held[p] \in Ids \/ ~(RecordUploaded(p) \/ RecordFailed(p) \/ GiveUp(p))
      PROVE  [Next]_vars
  <2>1. CASE RecordUploaded(p) \/ RecordFailed(p) \/ GiveUp(p)
    BY <1>1, <2>1 DEF RecordUploaded, RecordFailed, GiveUp, Next, Lifecycle, Outcome
  <2>2. CASE Poll(p)
    BY <2>2 DEF Poll, Next
  <2>3. CASE ~(RecordUploaded(p) \/ RecordFailed(p) \/ GiveUp(p) \/ Poll(p))
    BY <1>1, <2>3 DEF Acts, Step, ClaimApprovedDue, OpenFails, Send, AnswerDelivered, AnswerError, RecordTooLate,
       RecordUploadRetry, KeepTrying, Verify, LabelDue, LabelNotDue, ApplyLabel, ApplyLabelFails,
       MarkMessageSubmitted, Start, PortalAccepts, AnswerWithoutUuid, WriteFails, Crash
  <2> QED  BY <2>1, <2>2, <2>3
<1>2. ASSUME NEW p \in Procs, RecordUploaded(p) \/ RecordFailed(p) \/ GiveUp(p)
      PROVE  held[p] \in Ids
  BY <1>2 DEF RecordUploaded, RecordFailed, GiveUp, MarkUploaded, MarkFailed, Move
<1>3. CASE Decide
  BY <1>3 DEF Decide, Next, Lifecycle
<1>4. CASE Tick \/ UNCHANGED uvars
  BY <1>4 DEF Tick, uvars, vars
<1> QED
  BY <1>1, <1>2, <1>3, <1>4 DEF UNext, Acts

(* Past review: the statuses of an item that a process may have held.       *)
Past == {"approved", "uploaded", "failed"}

(* Only a process changes the status of an item past review, and only of    *)
(* the one it holds.                                                        *)
LEMMA OutcomesAreRecorded ==
  ASSUME TypeOK, [UNext]_uvars, NEW i \in Ids
  PROVE  \/ status'[i] = status[i]
         \/ status[i] \notin Past /\ status'[i] # "uploaded"
         \/ /\ status[i] = "approved"
            /\ \E p \in Procs :
                 /\ held[p] = i
                 /\ \/ RecordUploaded(p) /\ status'[i] = "uploaded"
                    \/ (RecordFailed(p) \/ GiveUp(p)) /\ status'[i] = "failed"
<1>1. ASSUME NEW p \in Procs, RecordUploaded(p) \/ RecordFailed(p) \/ GiveUp(p), status'[i] # status[i]
      PROVE  /\ status[i] = "approved" /\ held[p] = i
             /\ \/ RecordUploaded(p) /\ status'[i] = "uploaded"
                \/ (RecordFailed(p) \/ GiveUp(p)) /\ status'[i] = "failed"
  <2>1. CASE RecordUploaded(p)
    <3>1. Move(held[p], "uploaded", "daemon")
      BY <2>1 DEF RecordUploaded, MarkUploaded
    <3> QED  BY <1>1, <2>1, <3>1, MoveEffect DEF Status, Actor, AllowedTransitions
  <2>2. CASE RecordFailed(p) \/ GiveUp(p)
    <3>1. Move(held[p], "failed", "daemon")
      BY <2>2 DEF RecordFailed, GiveUp, MarkFailed
    <3> QED  BY <1>1, <2>2, <3>1, MoveEffect DEF Status, Actor, AllowedTransitions
  <2> QED  BY <1>1, <2>1, <2>2
<1>2. ASSUME NEW p \in Procs, Poll(p)
      PROVE  status'[i] = status[i]
  BY <1>2, StageItemEffect DEF Poll
<1>3. ASSUME Decide, status'[i] # status[i]
      PROVE  status[i] \notin Past /\ status'[i] # "uploaded"
  <2>1. PICK k \in Ids : Review(k)
    BY <1>3 DEF Decide
  <2>2. PICK to \in Status : Move(k, to, "human") /\ to \notin {"uploaded", "failed"}
    BY <2>1 DEF Review, HandleApprove, Approve, Reject, MarkAlreadyInPortalWithTeaching,
                OverridePeppolSuppression, Status
  <2> QED  BY <1>3, <2>2, MoveEffect DEF Actor, AllowedTransitions, Past
<1>4. ASSUME NEW p \in Procs, Acts(p), ~(RecordUploaded(p) \/ RecordFailed(p) \/ GiveUp(p) \/ Poll(p))
      PROVE  status'[i] = status[i]
  BY <1>4 DEF Acts, Step, ClaimApprovedDue, OpenFails, Send, AnswerDelivered, AnswerError, RecordTooLate,
     RecordUploadRetry, KeepTrying, Verify, LabelDue, LabelNotDue, ApplyLabel, ApplyLabelFails,
     MarkMessageSubmitted, Start, PortalAccepts, AnswerWithoutUuid, WriteFails, Crash, vars
<1>5. CASE Tick \/ UNCHANGED uvars
  BY <1>5 DEF Tick, uvars, vars
<1> QED
  BY <1>1, <1>2, <1>3, <1>4, <1>5 DEF UNext, Acts

(* A new item is not past review.                                           *)
LEMMA NewItemsAreFresh ==
  ASSUME TypeOK, [UNext]_uvars, NEW i \in Ids', i \notin Ids
  PROVE  /\ status'[i] \notin Past
         /\ \E p \in Procs, in \in Candidates :
              Poll(p) /\ StageItem(in) /\ row'[i].msg = in.msg
              /\ crossed' = crossed \cup ({in.msg} \cap BeingLabeled)
<1>1. [Next]_vars
  BY QueueStep
<1>2. ASSUME NEW p \in Procs, Poll(p)
      PROVE  /\ status'[i] \notin Past
             /\ \E in \in Candidates :
                  StageItem(in) /\ row'[i].msg = in.msg
                  /\ crossed' = crossed \cup ({in.msg} \cap BeingLabeled)
  <2>1. PICK in \in Candidates :
          StageItem(in) /\ crossed' = crossed \cup ({in.msg} \cap BeingLabeled)
    BY <1>2 DEF Poll
  <2>2. i = Len(row) + 1 /\ status'[i] = InitialStatus(in) /\ row'[i].msg = in.msg
    BY <2>1, StageItemEffect, StagedRowType
  <2> QED  BY <2>1, <2>2 DEF InitialStatus, Past
<1>3. ASSUME NEW p \in Procs, RecordUploaded(p) \/ RecordFailed(p) \/ GiveUp(p)
      PROVE  FALSE
  <2>1. \E to \in Status : Move(held[p], to, "daemon")
    BY <1>3 DEF RecordUploaded, RecordFailed, GiveUp, MarkUploaded, MarkFailed, Status
  <2> QED  BY <2>1, MoveEffect DEF Actor
<1>4. CASE Decide
  <2>1. PICK k \in Ids : Review(k)
    BY <1>4 DEF Decide
  <2>2. \E to \in Status : Move(k, to, "human")
    BY <2>1 DEF Review, HandleApprove, Approve, Reject, MarkAlreadyInPortalWithTeaching,
                OverridePeppolSuppression, Status
  <2> QED  BY <2>2, MoveEffect DEF Actor
<1>5. ASSUME NEW p \in Procs, Acts(p), ~(RecordUploaded(p) \/ RecordFailed(p) \/ GiveUp(p) \/ Poll(p))
      PROVE  FALSE
  BY <1>5 DEF Acts, Step, ClaimApprovedDue, OpenFails, Send, AnswerDelivered, AnswerError, RecordTooLate,
     RecordUploadRetry, KeepTrying, Verify, LabelDue, LabelNotDue, ApplyLabel, ApplyLabelFails,
     MarkMessageSubmitted, Start, PortalAccepts, AnswerWithoutUuid, WriteFails, Crash, vars, Ids
<1>6. CASE Tick \/ UNCHANGED uvars
  BY <1>6 DEF Tick, uvars, vars, Ids
<1> QED
  BY <1>2, <1>3, <1>4, <1>5, <1>6 DEF UNext, Acts
-----------------------------------------------------------------------------
(* The processes. *)

Recording == {"uploaded", "verified", "labeling", "labeled"}

(* A process is at rest or has an item; one it has claimed is past review,  *)
(* and one whose upload it has recorded is uploaded.                        *)
Working ==
  \A p \in Procs :
    /\ held[p] = NoLink <=> pc[p] \in {"down", "idle"}
    /\ pc[p] \in Uploading \cup {"rescheduled"} => status[held[p]] \in Past
    /\ pc[p] \in Recording => status[held[p]] = "uploaded"
    /\ pc[p] = "labeled" => Msg(p) \in gmail

Base ==
  /\ UTypeOK
  /\ OneActivePerSha
  /\ ReviewHistory
  /\ Len(row) <= MaxItems
  /\ Working

Places == Uploading \cup Recording \cup {"down", "idle", "rescheduled"}

(* p alone moves.                                                           *)
LEMMA OneMoves ==
  ASSUME UTypeOK, NEW p \in Procs, Acts(p)
  PROVE  /\ \A q \in Procs \ {p} : pc'[q] = pc[q] /\ held'[q] = held[q] /\ attempt'[q] = attempt[q]
         /\ pc' \in [Procs -> Places]
         /\ DOMAIN held' = Procs /\ held' = [q \in Procs |-> held'[q]]
         /\ DOMAIN attempt' = Procs /\ attempt' = [q \in Procs |-> attempt'[q]]
<1>1. /\ pc \in [Procs -> Places]
      /\ held = [q \in Procs |-> held[q]] /\ attempt = [q \in Procs |-> attempt[q]]
  BY DEF UTypeOK, Places, Recording
<1>2. ASSUME NEW step \in Places, Goto(p, step)
      PROVE  /\ \A q \in Procs \ {p} : pc'[q] = pc[q] /\ held'[q] = held[q] /\ attempt'[q] = attempt[q]
             /\ pc' \in [Procs -> Places]
             /\ DOMAIN held' = Procs /\ held' = [q \in Procs |-> held'[q]]
             /\ DOMAIN attempt' = Procs /\ attempt' = [q \in Procs |-> attempt'[q]]
  BY <1>1, <1>2 DEF Goto
<1>3. ASSUME NEW step \in Places, NEW h, NEW a,
             pc' = [pc EXCEPT ![p] = step], held' = [held EXCEPT ![p] = h],
             attempt' = [attempt EXCEPT ![p] = a]
      PROVE  /\ \A q \in Procs \ {p} : pc'[q] = pc[q] /\ held'[q] = held[q] /\ attempt'[q] = attempt[q]
             /\ pc' \in [Procs -> Places]
             /\ DOMAIN held' = Procs /\ held' = [q \in Procs |-> held'[q]]
             /\ DOMAIN attempt' = Procs /\ attempt' = [q \in Procs |-> attempt'[q]]
  BY <1>1, <1>3
<1>4. CASE \E step \in Places : Goto(p, step)
  BY <1>2, <1>4
<1>5. CASE Done(p) \/ Crash(p)
  <2>1. \E step \in {"idle", "down"} :
          /\ pc' = [pc EXCEPT ![p] = step] /\ held' = [held EXCEPT ![p] = NoLink]
          /\ attempt' = [attempt EXCEPT ![p] = 0]
    BY <1>5 DEF Done, Crash
  <2>2. {"idle", "down"} \subseteq Places
    BY DEF Places
  <2> QED  BY <1>3, <2>1, <2>2
<1>6. CASE ClaimApprovedDue(p)
  <2>1. "claimed" \in Places
    BY DEF Places, Uploading
  <2> QED  BY <1>3, <1>6, <2>1 DEF ClaimApprovedDue
<1>7. CASE Poll(p)
  BY <1>1, <1>7 DEF Poll, procVars
<1>8. \/ \E step \in Places : Goto(p, step)
      \/ Done(p) \/ Crash(p) \/ ClaimApprovedDue(p) \/ Poll(p)
  BY DEF Acts, Step, ClaimApprovedDue, OpenFails, Send, AnswerDelivered, AnswerError, RecordUploaded,
     RecordFailed, RecordTooLate, RecordUploadRetry, GiveUp, KeepTrying, Verify, LabelDue, LabelNotDue,
     ApplyLabel, ApplyLabelFails, MarkMessageSubmitted, Start, PortalAccepts, AnswerWithoutUuid,
     WriteFails, Places, Uploading, Recording
<1> QED
  BY <1>4, <1>5, <1>6, <1>7, <1>8

Stays(q) == pc'[q] = pc[q] /\ held'[q] = held[q] /\ attempt'[q] = attempt[q]

Leaves(q) == pc'[q] \in {"idle", "down"} /\ held'[q] = NoLink /\ attempt'[q] = 0

(* A process goes on with the item it has: which action takes it where.     *)
Continues(q) ==
  /\ held'[q] = held[q] /\ attempt'[q] = attempt[q]
  /\ \/ pc[q] \in {"claimed", "waiting", "accepted"} /\ pc'[q] \in {"waiting", "retryable", "refused"}
     \/ PortalAccepts(q) /\ pc[q] = "waiting" /\ pc'[q] = "accepted"
     \/ pc[q] = "accepted" /\ pc'[q] = "delivered"
     \/ RecordUploaded(q) /\ pc[q] = "delivered" /\ pc'[q] = "uploaded"
     \/ RecordUploadRetry(q) /\ pc[q] = "retryable" /\ pc'[q] = "rescheduled"
     \/ pc[q] = "uploaded" /\ pc'[q] = "verified"
     \/ LabelDue(q) /\ pc[q] = "verified" /\ pc'[q] = "labeling"
     \/ ApplyLabel(q) /\ pc[q] = "labeling" /\ pc'[q] = "labeled"

LEMMA EachProcess ==
  ASSUME UTypeOK, [UNext]_uvars, NEW q \in Procs
  PROVE  Stays(q) \/ Leaves(q) \/ ClaimApprovedDue(q) \/ Continues(q)
<1>1. CASE Decide \/ Tick \/ UNCHANGED uvars
  BY <1>1 DEF Decide, Tick, uvars, procVars, Stays
<1>2. ASSUME NEW p \in Procs, Acts(p), p # q
      PROVE  Stays(q)
  BY <1>2, OneMoves DEF Stays
<1>3. ASSUME Acts(q)
      PROVE  Stays(q) \/ Leaves(q) \/ ClaimApprovedDue(q) \/ Continues(q)
  <2>1. DOMAIN pc = Procs /\ DOMAIN held = Procs /\ DOMAIN attempt = Procs
    BY DEF UTypeOK
  <2>2. Done(q) => Leaves(q)
    BY <2>1 DEF Done, Leaves
  <2>3. Crash(q) => Leaves(q)
    BY <2>1 DEF Crash, Leaves
  <2>4. \A step : Goto(q, step) => pc'[q] = step /\ held'[q] = held[q] /\ attempt'[q] = attempt[q]
    BY <2>1 DEF Goto
  <2>5. CASE OpenFails(q) \/ Send(q) \/ AnswerDelivered(q) \/ \E kind \in {"retryable", "refused"} : AnswerError(q, kind)
    BY <2>4, <2>5 DEF OpenFails, Send, AnswerDelivered, AnswerError, Continues
  <2>6. CASE PortalAccepts(q) \/ RecordUploaded(q)
    BY <2>4, <2>6 DEF PortalAccepts, RecordUploaded, Continues
  <2>7. CASE RecordUploadRetry(q) \/ Verify(q)
    BY <2>4, <2>7 DEF RecordUploadRetry, Verify, Continues
  <2>8. CASE LabelDue(q) \/ ApplyLabel(q)
    BY <2>4, <2>8 DEF LabelDue, ApplyLabel, Continues
  <2>9. CASE Poll(q)
    BY <2>9 DEF Poll, procVars, Stays
  <2> QED
    BY <1>3, <2>2, <2>3, <2>5, <2>6, <2>7, <2>8, <2>9
       DEF Acts, Step, RecordFailed, RecordTooLate, GiveUp, KeepTrying, LabelNotDue, ApplyLabelFails,
           MarkMessageSubmitted, Start, AnswerWithoutUuid, WriteFails
<1> QED
  BY <1>1, <1>2, <1>3 DEF UNext, Acts

(* The item a process has exists.                                           *)
LEMMA HeldItem ==
  ASSUME Base, NEW p \in Procs, pc[p] \notin {"down", "idle"}
  PROVE  held[p] \in Ids /\ held[p] \in Slots /\ Sha(p) \in Shas /\ Msg(p) \in Msgs
<1>1. held[p] \in Ids
  BY DEF Base, Working, UTypeOK
<1>2. held[p] \in Slots
  <2>1. Len(row) \in Nat /\ Len(row) <= MaxItems /\ MaxItems \in Nat
    BY QueueAssumption DEF Base, UTypeOK, TypeOK
  <2> QED  BY <1>1, <2>1 DEF Ids, Slots
<1> QED  BY <1>1, <1>2, RowFields DEF Base, UTypeOK, Sha, Msg

(* What a claim takes: the oldest approved item that is free and due.       *)
LEMMA ClaimTakes ==
  ASSUME Base, NEW p \in Procs, ClaimApprovedDue(p)
  PROVE  /\ pc[p] = "idle" /\ pc'[p] = "claimed"
         /\ held'[p] \in Ids /\ held'[p] \in Slots
         /\ status[held'[p]] = "approved" /\ claim[held'[p]] = NULL /\ due[held'[p]] = 0
         /\ claim' = [claim EXCEPT ![held'[p]] = 0]
         /\ attempt'[p] = retries[held'[p]]
         /\ UNCHANGED <<row, status, due, retries, failing>>
<1> DEFINE i == Oldest(Claimable)
<1>1. i \in Claimable
  <2>1. Claimable \in SUBSET Nat /\ Claimable # {}
    BY DEF ClaimApprovedDue, Claimable, Ids
  <2> QED  BY <2>1, OldestIsLeast
<1>2. DOMAIN pc = Procs /\ DOMAIN held = Procs /\ DOMAIN attempt = Procs
  BY DEF Base, UTypeOK
<1>3. /\ pc[p] = "idle" /\ pc'[p] = "claimed" /\ held'[p] = i
      /\ claim' = [claim EXCEPT ![i] = 0] /\ attempt'[p] = retries[i]
      /\ UNCHANGED <<row, status, due, retries, failing>>
  <2> HIDE DEF i
  <2>1. /\ pc[p] = "idle" /\ pc' = [pc EXCEPT ![p] = "claimed"] /\ held' = [held EXCEPT ![p] = i]
        /\ claim' = [claim EXCEPT ![i] = 0] /\ attempt' = [attempt EXCEPT ![p] = retries[i]]
        /\ UNCHANGED <<row, status, due, retries, failing>>
    BY DEF ClaimApprovedDue, i, vars
  <2> QED  BY <1>2, <2>1
<1>4. i \in Ids /\ status[i] = "approved" /\ claim[i] = NULL /\ due[i] = 0
  BY <1>1 DEF Claimable
<1>5. i \in Slots
  <2>1. Len(row) \in Nat /\ Len(row) <= MaxItems /\ MaxItems \in Nat
    BY QueueAssumption DEF Base, UTypeOK, TypeOK
  <2> HIDE DEF i
  <2> QED  BY <1>4, <2>1 DEF Ids, Slots
<1> HIDE DEF i
<1> QED  BY <1>3, <1>4, <1>5

(* The columns of an item: who writes them.                                 *)
LEMMA ClaimStep ==
  ASSUME Base, [UNext]_uvars, NEW i \in Slots
  PROVE  \/ claim'[i] = claim[i]
         \/ Tick /\ claim[i] # NULL /\ claim'[i] = Min2(claim[i] + 1, StaleAge)
         \/ \E p \in Procs : ClaimApprovedDue(p) /\ held'[p] = i /\ claim'[i] = 0
         \/ \E p \in Procs : /\ Start(p) /\ i \in StaleClaims /\ claim'[i] = NULL
                             /\ stolen' = stolen \cup (StaleClaims \cap UnderWay(Procs))
         \/ \E p \in Procs : RecordUploadRetry(p) /\ held[p] = i /\ claim'[i] = NULL
<1>0. claim \in [Slots -> 0..StaleAge \cup {NULL}]
  BY DEF Base, UTypeOK
<1>1. ASSUME NEW p \in Procs, ClaimApprovedDue(p), claim'[i] # claim[i]
      PROVE  held'[p] = i /\ claim'[i] = 0
  BY <1>0, <1>1, ClaimTakes
<1>2. ASSUME NEW p \in Procs, Start(p), claim'[i] # claim[i]
      PROVE  i \in StaleClaims /\ claim'[i] = NULL /\ stolen' = stolen \cup (StaleClaims \cap UnderWay(Procs))
  <2>1. /\ claim' = [k \in Slots |-> IF k \in StaleClaims THEN NULL ELSE claim[k]]
        /\ stolen' = stolen \cup (StaleClaims \cap UnderWay(Procs))
    BY <1>2 DEF Start
  <2> HIDE DEF StaleClaims
  <2> QED  BY <1>0, <1>2, <2>1
<1>3. ASSUME NEW p \in Procs, RecordUploadRetry(p), claim'[i] # claim[i]
      PROVE  held[p] = i /\ claim'[i] = NULL
  BY <1>0, <1>3 DEF RecordUploadRetry
<1>4. ASSUME Tick, claim'[i] # claim[i]
      PROVE  claim[i] # NULL /\ claim'[i] = Min2(claim[i] + 1, StaleAge)
  BY <1>0, <1>4 DEF Tick, Older
<1>5. ASSUME NEW p \in Procs, Acts(p), ~(ClaimApprovedDue(p) \/ Start(p) \/ RecordUploadRetry(p))
      PROVE  claim' = claim
  BY <1>5 DEF Acts, Step, OpenFails, Send, AnswerDelivered, AnswerError, RecordUploaded, RecordFailed,
     RecordTooLate, GiveUp, KeepTrying, Verify, LabelDue, LabelNotDue, ApplyLabel, ApplyLabelFails,
     MarkMessageSubmitted, PortalAccepts, Poll, AnswerWithoutUuid, WriteFails, Crash, dbVars
<1>6. CASE Decide \/ UNCHANGED uvars
  BY <1>6 DEF Decide, dbVars, uvars
<1> QED
  BY <1>1, <1>2, <1>3, <1>4, <1>5, <1>6 DEF UNext, Acts

LEMMA RetryStep ==
  ASSUME Base, [UNext]_uvars, NEW i \in Slots
  PROVE  \/ due'[i] = due[i] /\ retries'[i] = retries[i] /\ failing'[i] = failing[i]
         \/ /\ Tick /\ retries'[i] = retries[i]
            /\ due'[i] = IF due[i] = 0 THEN 0 ELSE due[i] - 1
            /\ failing'[i] = IF failing[i] = NULL THEN NULL ELSE Min2(failing[i] + 1, GiveUpAfter)
         \/ \E p \in Procs :
              /\ RecordUploadRetry(p) /\ pc[p] = "retryable" /\ held[p] = i
              /\ retries'[i] = retries[i] + 1
              /\ due'[i] = Backoff(attempt[p] + 1)
              /\ failing'[i] = IF failing[i] = NULL THEN 0 ELSE failing[i]
<1>0. /\ due \in [Slots -> 0..BackoffCap] /\ retries \in [Slots -> Nat]
      /\ failing \in [Slots -> 0..GiveUpAfter \cup {NULL}]
  BY DEF Base, UTypeOK
<1>1. ASSUME NEW p \in Procs, RecordUploadRetry(p)
      PROVE  \/ due'[i] = due[i] /\ retries'[i] = retries[i] /\ failing'[i] = failing[i]
             \/ /\ RecordUploadRetry(p) /\ pc[p] = "retryable" /\ held[p] = i
                /\ retries'[i] = retries[i] + 1
                /\ due'[i] = Backoff(attempt[p] + 1)
                /\ failing'[i] = IF failing[i] = NULL THEN 0 ELSE failing[i]
  BY <1>0, <1>1 DEF RecordUploadRetry
<1>2. ASSUME Tick
      PROVE  /\ retries'[i] = retries[i]
             /\ due'[i] = IF due[i] = 0 THEN 0 ELSE due[i] - 1
             /\ failing'[i] = IF failing[i] = NULL THEN NULL ELSE Min2(failing[i] + 1, GiveUpAfter)
  BY <1>2 DEF Tick, Older
<1>3. ASSUME NEW p \in Procs, Acts(p), ~RecordUploadRetry(p)
      PROVE  UNCHANGED <<due, retries, failing>>
  BY <1>3 DEF Acts, Step, ClaimApprovedDue, OpenFails, Send, AnswerDelivered, AnswerError, RecordUploaded,
     RecordFailed, RecordTooLate, GiveUp, KeepTrying, Verify, LabelDue, LabelNotDue, ApplyLabel,
     ApplyLabelFails, MarkMessageSubmitted, Start, PortalAccepts, Poll, AnswerWithoutUuid, WriteFails,
     Crash, dbVars
<1>4. CASE Decide \/ UNCHANGED uvars
  BY <1>4 DEF Decide, dbVars, uvars
<1> QED
  BY <1>1, <1>2, <1>3, <1>4 DEF UNext, Acts

(* What was in Gmail stays there, and ApplyLabel adds its message.          *)
LEMMA GmailStep ==
  ASSUME [UNext]_uvars
  PROVE  \/ gmail' = gmail
         \/ \E p \in Procs : ApplyLabel(p) /\ pc[p] = "labeling" /\ gmail' = gmail \cup {Msg(p)}
<1>1. ASSUME NEW p \in Procs, Acts(p), ~ApplyLabel(p)
      PROVE  gmail' = gmail
  BY <1>1 DEF Acts, Step, ClaimApprovedDue, OpenFails, Send, AnswerDelivered, AnswerError, RecordUploaded,
     RecordFailed, RecordTooLate, RecordUploadRetry, GiveUp, KeepTrying, Verify, LabelDue, LabelNotDue,
     ApplyLabelFails, MarkMessageSubmitted, Start, PortalAccepts, Poll, AnswerWithoutUuid, WriteFails,
     Crash, worldVars
<1>2. CASE Decide \/ Tick \/ UNCHANGED uvars
  BY <1>2 DEF Decide, Tick, worldVars, uvars
<1> QED
  BY <1>1, <1>2 DEF UNext, Acts, ApplyLabel

(* A process that continues has a settled outcome where it had one.         *)
LEMMA NextWorking == Base /\ [UNext]_uvars => Working'
<1> SUFFICES ASSUME Base, [UNext]_uvars, NEW q \in Procs
             PROVE  /\ held'[q] = NoLink <=> pc'[q] \in {"down", "idle"}
                    /\ pc'[q] \in Uploading \cup {"rescheduled"} => status'[held'[q]] \in Past
                    /\ pc'[q] \in Recording => status'[held'[q]] = "uploaded"
                    /\ pc'[q] = "labeled" => row'[held'[q]].msg \in gmail'
  BY DEF Working, Msg
<1>1. UTypeOK /\ TypeOK /\ Working
  BY DEF Base, UTypeOK
<1>2. /\ held[q] = NoLink <=> pc[q] \in {"down", "idle"}
      /\ pc[q] \in Uploading \cup {"rescheduled"} => status[held[q]] \in Past
      /\ pc[q] \in Recording => status[held[q]] = "uploaded"
      /\ pc[q] = "labeled" => row[held[q]].msg \in gmail
  BY <1>1 DEF Working, Msg
<1>3. pc[q] \in Places
  BY <1>1 DEF UTypeOK, Places, Recording
<1>4. \A i \in Ids : row'[i] = row[i]
  BY <1>1, QueueStep, RowsStay
<1>5. \A i \in Ids : /\ status[i] \in Past => status'[i] \in Past
                     /\ status[i] = "uploaded" => status'[i] = "uploaded"
  BY <1>1, OutcomesAreRecorded DEF Past
<1>6. gmail \subseteq gmail'
  BY GmailStep
<1>7. pc[q] \notin {"down", "idle"} => held[q] \in Ids
  BY HeldItem
<1>8. NoLink \notin Ids
  BY DEF NoLink, Ids
<1>9. CASE Stays(q)
  BY <1>2, <1>3, <1>4, <1>5, <1>6, <1>7, <1>9 DEF Stays, Places, Uploading, Recording
<1>10. CASE Leaves(q)
  BY <1>10 DEF Leaves, Uploading, Recording
<1>11. CASE ClaimApprovedDue(q)
  <2>1. /\ pc'[q] = "claimed" /\ held'[q] \in Ids
        /\ status[held'[q]] = "approved" /\ status' = status
    BY <1>11, ClaimTakes
  <2> QED  BY <1>8, <2>1 DEF Uploading, Recording, Past
<1>12. CASE Continues(q)
  <2>1. CASE RecordUploaded(q) /\ pc[q] = "delivered" /\ pc'[q] = "uploaded"
    <3>1. Move(held[q], "uploaded", "daemon")
      BY <2>1 DEF RecordUploaded, MarkUploaded
    <3>2. status'[held[q]] = "uploaded"
      BY <1>1, <3>1, MoveEffect DEF Status, Actor
    <3> QED  BY <1>7, <1>8, <1>12, <2>1, <3>2 DEF Continues, Uploading, Recording
  <2>2. CASE ApplyLabel(q) /\ pc[q] = "labeling" /\ pc'[q] = "labeled"
    <3>1. gmail' = gmail \cup {row[held[q]].msg}
      BY <2>2 DEF ApplyLabel, Msg
    <3> QED  BY <1>2, <1>4, <1>5, <1>7, <1>8, <1>12, <2>2, <3>1 DEF Continues, Uploading, Recording
  <2>3. /\ held'[q] = held[q] /\ pc[q] \notin {"down", "idle"} /\ pc'[q] \notin {"down", "idle"}
        /\ pc'[q] \in Uploading \cup {"rescheduled"} => pc[q] \in Uploading
        /\ pc'[q] \in {"verified", "labeling"} => pc[q] \in Recording
    BY <1>12 DEF Continues, Uploading, Recording
  <2>4. \/ RecordUploaded(q) /\ pc[q] = "delivered" /\ pc'[q] = "uploaded"
        \/ ApplyLabel(q) /\ pc[q] = "labeling" /\ pc'[q] = "labeled"
        \/ pc'[q] \notin {"uploaded", "labeled"}
    BY <1>12 DEF Continues
  <2>5. CASE pc'[q] \notin {"uploaded", "labeled"}
    BY <1>2, <1>5, <1>7, <1>8, <2>3, <2>5 DEF Recording
  <2> QED  BY <2>1, <2>2, <2>4, <2>5
<1> QED
  BY <1>1, <1>9, <1>10, <1>11, <1>12, EachProcess

LEMMA NextTables ==
  ASSUME Base, [UNext]_uvars
  PROVE  /\ claim' \in [Slots -> 0..StaleAge \cup {NULL}]
         /\ due' \in [Slots -> 0..BackoffCap]
         /\ retries' \in [Slots -> Nat]
         /\ failing' \in [Slots -> 0..GiveUpAfter \cup {NULL}]
<1>0. /\ claim \in [Slots -> 0..StaleAge \cup {NULL}]
      /\ due \in [Slots -> 0..BackoffCap] /\ retries \in [Slots -> Nat]
      /\ failing \in [Slots -> 0..GiveUpAfter \cup {NULL}]
      /\ attempt \in [Procs -> Nat]
  BY DEF Base, UTypeOK
<1> DEFINE Columns ==
             /\ claim' = [i \in Slots |-> claim'[i]] /\ due' = [i \in Slots |-> due'[i]]
             /\ retries' = [i \in Slots |-> retries'[i]] /\ failing' = [i \in Slots |-> failing'[i]]
<1>1. Columns
  <2>1. ASSUME NEW p \in Procs, ClaimApprovedDue(p)
        PROVE  Columns
    <3>1. claim' = [claim EXCEPT ![held'[p]] = 0] /\ UNCHANGED <<due, retries, failing>>
      BY <2>1, ClaimTakes
    <3> QED  BY <1>0, <3>1
  <2>2. ASSUME NEW p \in Procs, Start(p)
        PROVE  Columns
    <3>1. /\ claim' = [k \in Slots |-> IF k \in StaleClaims THEN NULL ELSE claim[k]]
          /\ UNCHANGED <<due, retries, failing>>
      BY <2>2 DEF Start
    <3> HIDE DEF StaleClaims
    <3> QED  BY <1>0, <3>1
  <2>3. ASSUME NEW p \in Procs, RecordUploadRetry(p)
        PROVE  Columns
    BY <1>0, <2>3 DEF RecordUploadRetry
  <2>4. CASE Tick
    BY <1>0, <2>4 DEF Tick
  <2>5. ASSUME NEW p \in Procs, Acts(p), ~(ClaimApprovedDue(p) \/ Start(p) \/ RecordUploadRetry(p))
        PROVE  UNCHANGED <<claim, due, retries, failing>>
    BY <2>5 DEF Acts, Step, OpenFails, Send, AnswerDelivered, AnswerError, RecordUploaded, RecordFailed,
       RecordTooLate, GiveUp, KeepTrying, Verify, LabelDue, LabelNotDue, ApplyLabel, ApplyLabelFails,
       MarkMessageSubmitted, PortalAccepts, Poll, AnswerWithoutUuid, WriteFails, Crash, dbVars
  <2>6. CASE Decide \/ UNCHANGED uvars
    BY <1>0, <2>6 DEF Decide, dbVars, uvars
  <2> QED
    BY <1>0, <2>1, <2>2, <2>3, <2>4, <2>5, <2>6 DEF UNext, Acts
<1>2. ASSUME NEW i \in Slots PROVE claim'[i] \in 0..StaleAge \cup {NULL}
  BY <1>0, ClaimStep, UploaderAssumption DEF Min2
<1>3. ASSUME NEW i \in Slots
      PROVE  due'[i] \in 0..BackoffCap /\ retries'[i] \in Nat /\ failing'[i] \in 0..GiveUpAfter \cup {NULL}
  <2>1. CASE due'[i] = due[i] /\ retries'[i] = retries[i] /\ failing'[i] = failing[i]
    BY <1>0, <2>1
  <2>2. CASE /\ retries'[i] = retries[i]
             /\ due'[i] = IF due[i] = 0 THEN 0 ELSE due[i] - 1
             /\ failing'[i] = IF failing[i] = NULL THEN NULL ELSE Min2(failing[i] + 1, GiveUpAfter)
    <3>1. due[i] \in 0..BackoffCap /\ failing[i] \in 0..GiveUpAfter \cup {NULL} /\ retries[i] \in Nat
      BY <1>0
    <3>2. due'[i] \in 0..BackoffCap
      BY <2>2, <3>1, UploaderAssumption
    <3>3. failing'[i] \in 0..GiveUpAfter \cup {NULL}
      BY <2>2, <3>1, UploaderAssumption DEF Min2
    <3> QED  BY <2>2, <3>1, <3>2, <3>3
  <2>3. CASE \E p \in Procs :
               /\ retries'[i] = retries[i] + 1
               /\ due'[i] = Backoff(attempt[p] + 1)
               /\ failing'[i] = IF failing[i] = NULL THEN 0 ELSE failing[i]
    <3>1. PICK p \in Procs :
               /\ retries'[i] = retries[i] + 1
               /\ due'[i] = Backoff(attempt[p] + 1)
               /\ failing'[i] = IF failing[i] = NULL THEN 0 ELSE failing[i]
      BY <2>3
    <3>2. attempt[p] + 1 \in Nat \ {0}
      BY <1>0
    <3>3. due'[i] \in 0..BackoffCap
      BY <3>1, <3>2, BackoffBounds
    <3> QED  BY <1>0, <3>1, <3>3, UploaderAssumption
  <2> QED
    BY <2>1, <2>2, <2>3, RetryStep
<1> QED
  <2>1. /\ [i \in Slots |-> claim'[i]] \in [Slots -> 0..StaleAge \cup {NULL}]
        /\ [i \in Slots |-> due'[i]] \in [Slots -> 0..BackoffCap]
        /\ [i \in Slots |-> retries'[i]] \in [Slots -> Nat]
        /\ [i \in Slots |-> failing'[i]] \in [Slots -> 0..GiveUpAfter \cup {NULL}]
    BY <1>2, <1>3
  <2> QED  BY <1>1, <2>1

LEMMA NextProcesses ==
  ASSUME Base, [UNext]_uvars
  PROVE  /\ pc' \in [Procs -> Places]
         /\ held' \in [Procs -> Ids' \cup {NoLink}]
         /\ attempt' \in [Procs -> Nat]
<1>0. /\ UTypeOK /\ TypeOK /\ pc \in [Procs -> Places]
      /\ held \in [Procs -> Ids \cup {NoLink}] /\ attempt \in [Procs -> Nat]
      /\ retries \in [Slots -> Nat]
  BY DEF Base, UTypeOK, Places, Recording
<1>1. Ids \subseteq Ids'
  BY <1>0, QueueStep, RowsStay
<1> DEFINE Columns ==
             /\ pc' \in [Procs -> Places]
             /\ held' = [q \in Procs |-> held'[q]] /\ attempt' = [q \in Procs |-> attempt'[q]]
<1>2. Columns
  <2>1. CASE Decide \/ Tick \/ UNCHANGED uvars
    BY <1>0, <2>1 DEF Decide, Tick, procVars, uvars
  <2>2. ASSUME NEW p \in Procs, Acts(p)
        PROVE  Columns
    BY <1>0, <2>2, OneMoves
  <2> QED  BY <2>1, <2>2 DEF UNext, Acts
<1>3. ASSUME NEW q \in Procs
      PROVE  held'[q] \in Ids \cup {NoLink} /\ attempt'[q] \in Nat
  <2>1. held[q] \in Ids \cup {NoLink} /\ attempt[q] \in Nat
    BY <1>0
  <2>2. CASE ClaimApprovedDue(q)
    <3>1. held'[q] \in Ids /\ held'[q] \in Slots /\ attempt'[q] = retries[held'[q]]
      BY <2>2, ClaimTakes
    <3> QED  BY <1>0, <3>1
  <2> QED
    BY <1>0, <2>1, <2>2, EachProcess DEF Stays, Leaves, Continues
<1>4. /\ [q \in Procs |-> held'[q]] \in [Procs -> Ids' \cup {NoLink}]
      /\ [q \in Procs |-> attempt'[q]] \in [Procs -> Nat]
  BY <1>1, <1>3
<1> QED  BY <1>2, <1>4

(* The history variables and the world.                                     *)
LEMMA NextWorld ==
  ASSUME Base, [UNext]_uvars
  PROVE  /\ portal' \in [Shas -> 0..CopyCap]
         /\ gmail' \subseteq Msgs
         /\ doubt' \subseteq Shas
         /\ stolen' \subseteq Ids
         /\ crossed' \subseteq Msgs
         /\ unlabeled' \subseteq Msgs
         /\ faults' \in 0..MaxFaults
<1> DEFINE Histories == /\ portal' \in [Shas -> 0..CopyCap]
                        /\ gmail' \subseteq Msgs /\ doubt' \subseteq Shas /\ stolen' \subseteq Ids
                        /\ crossed' \subseteq Msgs /\ unlabeled' \subseteq Msgs /\ faults' \in 0..MaxFaults
<1> USE UploaderAssumption
<1>0. /\ portal \in [Shas -> 0..CopyCap] /\ gmail \subseteq Msgs /\ doubt \subseteq Shas
      /\ stolen \subseteq Ids /\ crossed \subseteq Msgs /\ unlabeled \subseteq Msgs /\ faults \in 0..MaxFaults
  BY DEF Base, UTypeOK
<1>1. ASSUME NEW p \in Procs, PortalAccepts(p)
      PROVE  Histories
  <2>1. /\ portal' = [portal EXCEPT ![Sha(p)] = Min2(@ + 1, CopyCap)]
        /\ UNCHANGED <<gmail, doubt, stolen, crossed, unlabeled, faults>>
    BY <1>1 DEF PortalAccepts
  <2>2. \A n \in 0..CopyCap : Min2(n + 1, CopyCap) \in 0..CopyCap
    BY DEF Min2
  <2>3. portal' \in [Shas -> 0..CopyCap]
    <3> HIDE DEF Min2
    <3> QED  BY <1>0, <2>1, <2>2
  <2> QED  BY <1>0, <2>1, <2>3
<1>2. ASSUME NEW p \in Procs, Start(p) \/ GiveUp(p)
      PROVE  Histories
  <2>1. /\ stolen' \subseteq stolen \cup StaleClaims \cup {held[p]}
        /\ UNCHANGED <<portal, gmail, doubt, crossed, unlabeled, faults>>
        /\ GiveUp(p) => held[p] \in Ids
        /\ stolen' \subseteq Ids
    BY <1>0, <1>2, HeldItem DEF Start, GiveUp, StaleClaims
  <2> QED  BY <1>0, <2>1
<1>3. ASSUME NEW p \in Procs, LabelDue(p) \/ ApplyLabel(p) \/ ApplyLabelFails(p)
      PROVE  Histories
  <2>1. Msg(p) \in Msgs
    BY <1>3, HeldItem DEF LabelDue, ApplyLabel, ApplyLabelFails
  <2> QED  BY <1>0, <1>3, <2>1 DEF LabelDue, ApplyLabel, ApplyLabelFails
<1>4. ASSUME NEW p \in Procs, Poll(p)
      PROVE  Histories
  <2>1. \E in \in Candidates :
          /\ crossed' = crossed \cup ({in.msg} \cap BeingLabeled)
          /\ UNCHANGED <<portal, gmail, doubt, stolen, unlabeled, faults>>
    BY <1>4 DEF Poll
  <2>2. \A in \in Candidates : in.msg \in Msgs
    BY QueueAssumption DEF NewItem
  <2> QED  BY <1>0, <2>1, <2>2
<1>5. ASSUME NEW p \in Procs,
             \/ \E kind \in {"retryable", "refused"} : AnswerError(p, kind)
             \/ RecordTooLate(p) \/ AnswerWithoutUuid(p) \/ WriteFails(p) \/ Crash(p)
      PROVE  Histories
  <2>1. /\ doubt' = Lost(p)
        /\ UNCHANGED <<portal, gmail, stolen, crossed, unlabeled>>
        /\ faults' = faults \/ (faults < MaxFaults /\ faults' = faults + 1)
    BY <1>5 DEF AnswerError, RecordTooLate, AnswerWithoutUuid, WriteFails, Crash
  <2>2. Lost(p) \subseteq Shas
    BY <1>0, HeldItem DEF Lost
  <2> QED  BY <1>0, <2>1, <2>2
<1>6. ASSUME NEW p \in Procs, Acts(p),
             ~(PortalAccepts(p) \/ Start(p) \/ GiveUp(p)),
             ~(LabelDue(p) \/ ApplyLabel(p) \/ ApplyLabelFails(p)),
             ~Poll(p),
             ~(\/ \E kind \in {"retryable", "refused"} : AnswerError(p, kind)
               \/ RecordTooLate(p) \/ AnswerWithoutUuid(p) \/ WriteFails(p) \/ Crash(p))
      PROVE  Histories
  <2>1. UNCHANGED worldVars
    BY <1>6 DEF Acts, Step, ClaimApprovedDue, OpenFails, Send, AnswerDelivered, RecordUploaded, RecordFailed,
       RecordUploadRetry, KeepTrying, Verify, LabelNotDue, MarkMessageSubmitted
  <2> QED  BY <1>0, <2>1 DEF worldVars
<1>7. ASSUME Decide \/ Tick \/ UNCHANGED uvars
      PROVE  Histories
  BY <1>0, <1>7 DEF Decide, Tick, worldVars, uvars
<1> QED
  <2> HIDE DEF Histories
  <2>1. Histories
    BY <1>1, <1>2, <1>3, <1>4, <1>5, <1>6, <1>7 DEF UNext, Acts
  <2> QED  BY <2>1 DEF Histories

LEMMA NextBase == Base /\ [UNext]_uvars => Base'
<1> SUFFICES ASSUME Base, [UNext]_uvars
             PROVE  Base'
  OBVIOUS
<1>1. UTypeOK /\ TypeOK /\ Working /\ [Next]_vars
  BY QueueStep DEF Base, UTypeOK
<1>2. TypeOK' /\ Ids \subseteq Ids' /\ OneActivePerSha' /\ ReviewHistory'
  BY <1>1, RowsStay, NextOneActive, NextReviewHistory DEF Base
<1>3. Working'
  BY NextWorking
<1>4. \A i \in Ids : status[i] = "uploaded" => status'[i] = "uploaded"
  BY <1>1, OutcomesAreRecorded DEF Past
<1>5. verified' \subseteq {i \in Ids' : status'[i] = "uploaded"}
  <2>0. verified \subseteq {i \in Ids : status[i] = "uploaded"}
    BY <1>1 DEF UTypeOK
  <2>1. ASSUME NEW p \in Procs, Verify(p)
        PROVE  verified' \subseteq verified \cup {held[p]} /\ held[p] \in Ids /\ status[held[p]] = "uploaded"
    BY <1>1, <2>1, HeldItem DEF Verify, Working, Recording
  <2>2. ASSUME NEW p \in Procs, Acts(p), ~Verify(p)
        PROVE  verified' = verified
    BY <2>2 DEF Acts, Step, ClaimApprovedDue, OpenFails, Send, AnswerDelivered, AnswerError, RecordUploaded,
       RecordFailed, RecordTooLate, RecordUploadRetry, GiveUp, KeepTrying, LabelDue, LabelNotDue, ApplyLabel,
       ApplyLabelFails, MarkMessageSubmitted, Start, PortalAccepts, Poll, AnswerWithoutUuid, WriteFails,
       Crash, dbVars
  <2>3. CASE Decide \/ Tick \/ UNCHANGED uvars
    BY <2>0, <2>3, <1>2, <1>4 DEF Decide, Tick, dbVars, uvars
  <2>4. verified' \subseteq {i \in Ids : status[i] = "uploaded"}
    BY <2>0, <2>1, <2>2, <2>3 DEF UNext, Acts, Decide, Tick, dbVars, uvars
  <2> QED  BY <1>2, <1>4, <2>4
<1>6. labeledAt' \subseteq gmail'
  <2>0. labeledAt \subseteq gmail /\ gmail \subseteq gmail'
    BY <1>1, GmailStep DEF UTypeOK
  <2>1. ASSUME NEW p \in Procs, MarkMessageSubmitted(p)
        PROVE  labeledAt' = labeledAt \cup {Msg(p)} /\ Msg(p) \in gmail
    BY <1>1, <2>1 DEF MarkMessageSubmitted, Working
  <2>2. ASSUME NEW p \in Procs, Acts(p), ~MarkMessageSubmitted(p)
        PROVE  labeledAt' = labeledAt
    BY <2>2 DEF Acts, Step, ClaimApprovedDue, OpenFails, Send, AnswerDelivered, AnswerError, RecordUploaded,
       RecordFailed, RecordTooLate, RecordUploadRetry, GiveUp, KeepTrying, Verify, LabelDue, LabelNotDue,
       ApplyLabel, ApplyLabelFails, Start, PortalAccepts, Poll, AnswerWithoutUuid, WriteFails, Crash, dbVars
  <2>3. CASE Decide \/ Tick \/ UNCHANGED uvars
    BY <2>0, <2>3 DEF Decide, Tick, dbVars, uvars
  <2> QED
    BY <2>0, <2>1, <2>2, <2>3 DEF UNext, Acts
<1>7. UTypeOK'
  <2>1. pc' \in [Procs -> Uploading \cup {"down", "idle", "rescheduled", "uploaded", "verified",
                                         "labeling", "labeled"}]
    BY NextProcesses DEF Places, Recording
  <2>2. stolen' \subseteq Ids'
    BY <1>2, NextWorld
  <2> QED  BY <1>2, <1>5, <1>6, <2>1, <2>2, NextTables, NextProcesses, NextWorld DEF UTypeOK
<1>8. Len(row') <= MaxItems
  <2>1. row' = row \/ \E in \in Candidates : StageItem(in)
    <3>1. ASSUME NEW i \in Ids, Lifecycle(i) PROVE row' = row
      BY <1>1, <3>1, LifecycleIsMove, MoveEffect
    <3> QED  BY <1>1, <3>1 DEF Next, vars
  <2>2. ASSUME NEW in \in Candidates, StageItem(in)
        PROVE  Len(row') = Len(row) + 1 /\ Len(row) < MaxItems
    BY <1>1, <2>2, StageItemEffect DEF StageItem
  <2>3. Len(row) \in Nat /\ MaxItems \in Nat /\ Len(row) <= MaxItems
    BY <1>1, QueueAssumption DEF TypeOK, Base
  <2> QED  BY <2>1, <2>2, <2>3
<1> QED  BY <1>2, <1>3, <1>7, <1>8 DEF Base

LEMMA InitBase == UInit => Base
<1> SUFFICES ASSUME UInit PROVE Base
  OBVIOUS
<1> USE UploaderAssumption, QueueAssumption
<1>1. Init /\ TypeOK
  BY InitTypeOK DEF UInit
<1>2. Ids = {} /\ Len(row) = 0
  BY <1>1 DEF Init, Ids
<1>3. OneActivePerSha /\ ReviewHistory
  BY <1>1, <1>2 DEF OneActivePerSha, ReviewHistory, Init, Entries
<1>4. Working
  BY DEF UInit, Working, Uploading, Recording
<1>5. UTypeOK
  BY <1>1 DEF UInit, UTypeOK
<1> QED  BY <1>2, <1>3, <1>4, <1>5 DEF Base

LEMMA BaseHolds == USpec => []Base
<1> QED  BY InitBase, NextBase, PTL DEF USpec

(* The tables keep their types, in particular an item whose delivery was    *)
(* verified is an uploaded one, and a message recorded as labelled carries  *)
(* the label in Gmail (uploader.go:188-228).                                *)
THEOREM UploaderTypeCorrect == USpec => []UTypeOK
<1>1. Base => UTypeOK
  BY DEF Base
<1> QED  BY <1>1, BaseHolds, PTL

(* The uploads change the queue in no way the queue does not know of: what  *)
(* is proved of Queue holds with any number of daemons at work.             *)
THEOREM UploaderKeepsQueue == USpec => Spec
<1>1. UInit => Init
  BY DEF UInit
<1>2. [UNext]_uvars => [Next]_vars
  BY QueueStep
<1> QED  BY <1>1, <1>2, PTL DEF USpec, Spec

(* So the ledger of documents is kept: no second consent for bytes that     *)
(* stand approved or are in the portal.                                     *)
THEOREM UploaderImplementsLedger == USpec => ImplementsLedger
<1> QED  BY UploaderKeepsQueue, QueueImplementsLedger, PTL

-----------------------------------------------------------------------------
(* Claims. *)

LEMMA StolenStays ==
  ASSUME [UNext]_uvars
  PROVE  /\ stolen \subseteq stolen'
         /\ \A p \in Procs : GiveUp(p) => stolen' = stolen \cup ({held[p]} \cap UnderWay(Procs \ {p}))
<1>1. ASSUME NEW p \in Procs, Acts(p), ~(Start(p) \/ GiveUp(p))
      PROVE  stolen' = stolen
  BY <1>1 DEF Acts, Step, ClaimApprovedDue, OpenFails, Send, AnswerDelivered, AnswerError, RecordUploaded,
     RecordFailed, RecordTooLate, RecordUploadRetry, KeepTrying, Verify, LabelDue, LabelNotDue, ApplyLabel,
     ApplyLabelFails, MarkMessageSubmitted, PortalAccepts, Poll, AnswerWithoutUuid, WriteFails, Crash, worldVars
<1>2. CASE Decide \/ Tick \/ UNCHANGED uvars
  BY <1>2 DEF Decide, Tick, worldVars, uvars, GiveUp
<1> QED
  BY <1>1, <1>2 DEF UNext, Acts, Start, GiveUp

(* Where a process that is still uploading was before the step.             *)
LEMMA StillUploading ==
  ASSUME Base, [UNext]_uvars, NEW p \in Procs, pc'[p] \in Uploading
  PROVE  \/ pc[p] \in Uploading /\ held'[p] = held[p] /\ attempt'[p] = attempt[p]
         \/ ClaimApprovedDue(p)
<1>1. Stays(p) \/ Leaves(p) \/ ClaimApprovedDue(p) \/ Continues(p)
  BY EachProcess DEF Base
<1> QED  BY <1>1 DEF Stays, Leaves, Continues, Uploading

(* An outcome or a retry is recorded by a process that leaves Uploading.    *)
LEMMA RecordingEnds ==
  ASSUME Base, NEW p \in Procs, RecordUploaded(p) \/ RecordFailed(p) \/ RecordUploadRetry(p)
  PROVE  pc[p] \in Uploading /\ pc'[p] \notin Uploading
<1>1. DOMAIN pc = Procs
  BY DEF Base, UTypeOK
<1> QED  BY <1>1 DEF RecordUploaded, RecordFailed, RecordUploadRetry, Goto, Done, Uploading

LEMMA NextHeldIsClaimed == Base /\ HeldIsClaimed /\ [UNext]_uvars => HeldIsClaimed'
<1> SUFFICES ASSUME Base, HeldIsClaimed, [UNext]_uvars, NEW p \in Procs,
                    pc'[p] \in Uploading, held'[p] \notin stolen'
             PROVE  /\ claim'[held'[p]] # NULL
                    /\ \A q \in Procs \ {p} : pc'[q] \in Uploading => held'[q] # held'[p]
                    /\ status'[held'[p]] = "approved"
  BY DEF HeldIsClaimed
<1>1. TypeOK /\ UTypeOK
  BY DEF Base, UTypeOK
<1>2. stolen \subseteq stolen'
  BY StolenStays
<1>3. NULL \notin Nat
  BY UploaderAssumption
<1>4. CASE pc[p] \in Uploading /\ held'[p] = held[p]
  <2> DEFINE i == held[p]
  <2>1. i \in Ids /\ i \in Slots
    BY <1>4, HeldItem DEF Uploading
  <2>2. /\ claim[i] # NULL
        /\ \A q \in Procs : pc[q] \in Uploading /\ held[q] = i => q = p
        /\ status[i] = "approved"
        /\ i \notin stolen /\ i \notin stolen'
    BY <1>2, <1>4 DEF HeldIsClaimed
  <2> HIDE DEF i
  <2>3. claim'[i] # NULL
    <3>1. claim[i] # NULL => claim[i] \in Nat
      BY <1>1, <2>1, UploaderAssumption DEF UTypeOK
    <3>2. CASE claim'[i] = Min2(claim[i] + 1, StaleAge)
      BY <1>3, <2>2, <3>1, <3>2, UploaderAssumption DEF Min2
    <3>3. CASE claim'[i] = claim[i] \/ claim'[i] = 0
      BY <1>3, <2>2, <3>3
    <3>4. CASE i \in StaleClaims /\ stolen' = stolen \cup (StaleClaims \cap UnderWay(Procs))
      <4>1. i \in UnderWay(Procs)
        BY <1>4 DEF UnderWay, i
      <4> QED  BY <2>2, <3>4, <4>1
    <3>5. ASSUME NEW r \in Procs, RecordUploadRetry(r), held[r] = i
          PROVE  FALSE
      BY <2>2, <3>5, RecordingEnds
    <3> QED
      BY <2>1, <3>2, <3>3, <3>4, <3>5, ClaimStep
  <2>4. ASSUME NEW q \in Procs \ {p}, pc'[q] \in Uploading
        PROVE  held'[q] # i
    <3>1. CASE pc[q] \in Uploading /\ held'[q] = held[q]
      BY <2>2, <3>1
    <3>2. CASE ClaimApprovedDue(q)
      BY <2>2, <3>2, ClaimTakes
    <3> QED  BY <2>4, <3>1, <3>2, StillUploading
  <2>5. status'[i] = "approved"
    <3>1. ASSUME NEW r \in Procs, held[r] = i, RecordUploaded(r) \/ RecordFailed(r)
          PROVE  FALSE
      BY <2>2, <3>1, RecordingEnds
    <3>2. ASSUME NEW r \in Procs, held[r] = i, GiveUp(r)
          PROVE  FALSE
      <4>1. r # p
        BY <1>4, <3>2 DEF GiveUp, Uploading
      <4>2. i \in UnderWay(Procs \ {r})
        BY <1>4, <4>1 DEF UnderWay, i
      <4> QED  BY <2>2, <3>2, <4>2, StolenStays
    <3> QED
      BY <1>1, <2>1, <2>2, <3>1, <3>2, OutcomesAreRecorded DEF Past
  <2> QED  BY <1>4, <2>3, <2>4, <2>5 DEF i
<1>5. CASE ClaimApprovedDue(p)
  <2>1. /\ held'[p] \in Slots /\ status'[held'[p]] = "approved" /\ claim[held'[p]] = NULL
        /\ claim' = [claim EXCEPT ![held'[p]] = 0]
    BY <1>5, ClaimTakes
  <2>2. claim'[held'[p]] = 0
    BY <1>1, <2>1 DEF UTypeOK
  <2>3. ASSUME NEW q \in Procs \ {p}, pc'[q] \in Uploading, held'[q] = held'[p]
        PROVE  FALSE
    <3>1. pc[q] \in Uploading /\ held[q] = held'[p]
      BY <1>1, <1>5, <2>3, OneMoves DEF Acts, Step
    <3> QED  BY <1>2, <2>1, <3>1 DEF HeldIsClaimed
  <2> QED  BY <1>3, <2>1, <2>2, <2>3
<1> QED  BY <1>4, <1>5, StillUploading

LEMMA InitHeldIsClaimed == UInit => HeldIsClaimed
<1> QED  BY DEF UInit, HeldIsClaimed, Uploading

(* F-53, for any number of daemons, crashes, restarts and failed writes:    *)
(* unless it was taken from it as stale or given up late by another daemon, *)
(* a process that uploads an item has it for itself, with its claim in      *)
(* place and its approval standing.                                         *)
THEOREM ClaimsProtect == USpec => []HeldIsClaimed
<1> QED  BY InitHeldIsClaimed, NextHeldIsClaimed, BaseHolds, PTL DEF USpec

-----------------------------------------------------------------------------
(* The portal. *)

LogOnlyGrows == log \subseteq log'

LEMMA LogGrows == [Next]_vars => LogOnlyGrows
<1>1. ASSUME NEW in, StageItem(in) PROVE LogOnlyGrows
  BY <1>1 DEF StageItem, LogOnlyGrows
<1>2. ASSUME NEW i \in Ids, Lifecycle(i) PROVE LogOnlyGrows
  BY <1>2 DEF Lifecycle, Review, Outcome, HandleApprove, Approve, Reject, MarkAlreadyInPortalWithTeaching,
              OverridePeppolSuppression, MarkUploaded, MarkFailed, Move, LogOnlyGrows
<1>3. CASE UNCHANGED vars
  BY <1>3 DEF vars, LogOnlyGrows
<1> QED  BY <1>1, <1>2, <1>3 DEF Next

(* The portal and the doubts about it.                                      *)
LEMMA PortalStep ==
  ASSUME Base, [UNext]_uvars
  PROVE  /\ doubt \subseteq doubt'
         /\ \/ portal' = portal
            \/ \E p \in Procs :
                 /\ PortalAccepts(p) /\ pc[p] = "waiting"
                 /\ portal' = [portal EXCEPT ![Sha(p)] = Min2(@ + 1, CopyCap)]
                 /\ UNCHANGED <<row, status, log, stolen, doubt>>
         /\ \A s \in Shas : portal[s] \in Nat /\ portal'[s] >= portal[s]
<1> USE UploaderAssumption
<1>1. \A p \in Procs : doubt \subseteq Lost(p)
  BY DEF Lost
<1>2. ASSUME NEW p \in Procs, Acts(p), ~PortalAccepts(p)
      PROVE  doubt \subseteq doubt' /\ portal' = portal
  BY <1>1, <1>2 DEF Acts, Step, ClaimApprovedDue, OpenFails, Send, AnswerDelivered, AnswerError,
     RecordUploaded, RecordFailed, RecordTooLate, RecordUploadRetry, GiveUp, KeepTrying, Verify, LabelDue,
     LabelNotDue, ApplyLabel, ApplyLabelFails, MarkMessageSubmitted, Start, Poll, AnswerWithoutUuid,
     WriteFails, Crash, worldVars
<1>3. ASSUME Decide \/ Tick \/ UNCHANGED uvars
      PROVE  doubt \subseteq doubt' /\ portal' = portal
  BY <1>3 DEF Decide, Tick, worldVars, uvars
<1>4. ASSUME NEW p \in Procs, PortalAccepts(p)
      PROVE  /\ pc[p] = "waiting"
             /\ portal' = [portal EXCEPT ![Sha(p)] = Min2(@ + 1, CopyCap)]
             /\ UNCHANGED <<row, status, log, stolen, doubt>>
  BY <1>4 DEF PortalAccepts, vars
<1>5. /\ doubt \subseteq doubt'
      /\ \/ portal' = portal
         \/ \E p \in Procs :
              /\ PortalAccepts(p) /\ pc[p] = "waiting"
              /\ portal' = [portal EXCEPT ![Sha(p)] = Min2(@ + 1, CopyCap)]
              /\ UNCHANGED <<row, status, log, stolen, doubt>>
  BY <1>2, <1>3, <1>4 DEF UNext, Acts
<1>6. ASSUME NEW s \in Shas
      PROVE  portal[s] \in Nat /\ portal'[s] >= portal[s]
  <2>1. portal \in [Shas -> 0..CopyCap]
    BY DEF Base, UTypeOK
  <2>2. \A n \in 0..CopyCap : Min2(n + 1, CopyCap) >= n
    BY DEF Min2
  <2>3. ASSUME NEW p \in Procs, portal' = [portal EXCEPT ![Sha(p)] = Min2(@ + 1, CopyCap)]
        PROVE  portal'[s] >= portal[s]
    <3> HIDE DEF Min2
    <3>1. portal'[s] = IF s = Sha(p) THEN Min2(portal[s] + 1, CopyCap) ELSE portal[s]
      BY <2>1, <2>3
    <3>2. portal[s] \in 0..CopyCap
      BY <2>1
    <3> QED  BY <2>2, <3>1, <3>2
  <2> QED  BY <1>5, <2>1, <2>3
<1> QED  BY <1>5, <1>6

Flying(p) == pc[p] \in {"accepted", "delivered"}

(* An upload the portal has taken is recorded or leaves a doubt.            *)
LEMMA FlightEnds ==
  ASSUME Base, [UNext]_uvars, NEW p \in Procs, Flying(p)
  PROVE  \/ pc'[p] \in {"accepted", "delivered"} /\ held'[p] = held[p]
         \/ Sha(p) \in doubt'
         \/ RecordUploaded(p)
<1>0. DOMAIN pc = Procs /\ UTypeOK
  BY DEF Base, UTypeOK
<1>1. CASE Acts(p)
  <2>1. Sha(p) \in Lost(p)
    BY DEF Lost, Flying
  <2>2. CASE AnswerDelivered(p)
    BY <1>0, <2>2 DEF AnswerDelivered, Goto
  <2> QED
    BY <1>1, <2>1, <2>2 DEF Flying, Acts, Step, ClaimApprovedDue, OpenFails, Send, AnswerError, RecordFailed,
       RecordTooLate, RecordUploadRetry, GiveUp, KeepTrying, Verify, LabelDue, LabelNotDue, ApplyLabel,
       ApplyLabelFails, MarkMessageSubmitted, Start, PortalAccepts, Poll, AnswerWithoutUuid, WriteFails, Crash
<1>2. ASSUME NEW q \in Procs, Acts(q), q # p
      PROVE  pc'[p] = pc[p] /\ held'[p] = held[p]
  BY <1>0, <1>2, OneMoves
<1>3. CASE Decide \/ Tick \/ UNCHANGED uvars
  BY <1>3 DEF Decide, Tick, procVars, uvars, Flying
<1> QED
  BY <1>1, <1>2, <1>3 DEF UNext, Acts, Flying

Recorded(s) == \E i \in Ids : row[i].sha = s /\ status[i] = "uploaded"

InFlight(s) == \E p \in Procs : Flying(p) /\ Sha(p) = s

Agreed(s) == \E i \in Ids : row[i].sha = s /\ Entries(i, "staged", "approved", "human")

Accounted(s) == s \in doubt \/ Stolen(s) \/ Recorded(s) \/ InFlight(s)

PortalIsKnown ==
  /\ \A i \in Ids : status[i] = "uploaded" => portal[row[i].sha] > 0
  /\ \A p \in Procs : Flying(p) => portal[Sha(p)] > 0
  /\ \A s \in Shas : /\ portal[s] > 0 => Agreed(s) /\ Accounted(s)
                     /\ portal[s] > 1 => s \in doubt \/ Stolen(s)

(* No step forgets a document.                                              *)
LEMMA NothingIsForgotten ==
  ASSUME Base, [UNext]_uvars, NEW s \in Shas
  PROVE  /\ Stolen(s) => Stolen(s)'
         /\ Recorded(s) => Recorded(s)'
         /\ Agreed(s) => Agreed(s)'
         /\ InFlight(s) => InFlight(s)' \/ s \in doubt' \/ Recorded(s)'
         /\ Accounted(s) => Accounted(s)'
<1>1. TypeOK /\ [Next]_vars /\ stolen \subseteq Ids
  BY QueueStep DEF Base, UTypeOK
<1>2. Ids \subseteq Ids' /\ \A i \in Ids : row'[i] = row[i]
  BY <1>1, RowsStay
<1>3. Stolen(s) => Stolen(s)'
  BY <1>1, <1>2, StolenStays DEF Stolen
<1>4. Recorded(s) => Recorded(s)'
  BY <1>1, <1>2, OutcomesAreRecorded DEF Recorded, Past
<1>5. Agreed(s) => Agreed(s)'
  BY <1>1, <1>2, LogGrows DEF Agreed, Entries, LogOnlyGrows
<1>6. InFlight(s) => InFlight(s)' \/ s \in doubt' \/ Recorded(s)'
  <2> SUFFICES ASSUME NEW p \in Procs, Flying(p), Sha(p) = s
               PROVE  InFlight(s)' \/ s \in doubt' \/ Recorded(s)'
    BY DEF InFlight
  <2>1. held[p] \in Ids /\ row[held[p]].sha = s
    BY HeldItem DEF Flying, Sha
  <2>2. CASE pc'[p] \in {"accepted", "delivered"} /\ held'[p] = held[p]
    BY <1>2, <2>1, <2>2 DEF InFlight, Flying, Sha
  <2>3. CASE RecordUploaded(p)
    <3>1. Move(held[p], "uploaded", "daemon")
      BY <2>3 DEF RecordUploaded, MarkUploaded
    <3>2. status'[held[p]] = "uploaded"
      BY <1>1, <3>1, MoveEffect DEF Status, Actor
    <3> QED  BY <1>2, <2>1, <3>2 DEF Recorded
  <2> QED  BY <2>2, <2>3, FlightEnds
<1>7. doubt \subseteq doubt'
  BY PortalStep
<1> QED  BY <1>3, <1>4, <1>5, <1>6, <1>7 DEF Accounted

LEMMA NextPortalIsKnown == Base /\ HeldIsClaimed /\ PortalIsKnown /\ [UNext]_uvars => PortalIsKnown'
<1> SUFFICES ASSUME Base, HeldIsClaimed, PortalIsKnown, [UNext]_uvars
             PROVE  PortalIsKnown'
  OBVIOUS
<1> USE UploaderAssumption
<1>1. TypeOK /\ UTypeOK /\ [Next]_vars /\ NULL \notin Nat
  BY QueueStep DEF Base, UTypeOK
<1>2. Ids \subseteq Ids' /\ \A i \in Ids : row'[i] = row[i] /\ row[i].sha \in Shas
  BY <1>1, RowsStay, RowFields
<1>3. /\ portal \in [Shas -> Nat] /\ portal' \in [Shas -> Nat]
      /\ \A s \in Shas : portal'[s] >= portal[s]
  <2>1. portal \in [Shas -> 0..CopyCap] /\ portal' \in [Shas -> 0..CopyCap]
    BY <1>1, NextWorld DEF UTypeOK
  <2>2. \A s \in Shas : portal'[s] >= portal[s]
    BY PortalStep
  <2> QED  BY <2>1, <2>2
<1>4. ASSUME NEW p \in Procs, PortalAccepts(p)
      PROVE  /\ held[p] \in Ids /\ Sha(p) \in Shas /\ pc[p] = "waiting"
             /\ portal' = [portal EXCEPT ![Sha(p)] = Min2(@ + 1, CopyCap)]
             /\ pc'[p] = "accepted" /\ held' = held
             /\ \A q \in Procs \ {p} : pc'[q] = pc[q]
             /\ UNCHANGED <<row, status, log, stolen, doubt>>
  <2>1. pc[p] = "waiting" /\ pc' = [pc EXCEPT ![p] = "accepted"] /\ held' = held
    BY <1>4 DEF PortalAccepts, Goto
  <2>2. pc'[p] = "accepted" /\ \A q \in Procs \ {p} : pc'[q] = pc[q]
    BY <1>1, <2>1 DEF UTypeOK
  <2>3. UNCHANGED <<row, status, log, stolen, doubt>> /\ portal' = [portal EXCEPT ![Sha(p)] = Min2(@ + 1, CopyCap)]
    BY <1>4 DEF PortalAccepts, vars
  <2> QED  BY <2>1, <2>2, <2>3, HeldItem
<1>5. ASSUME NEW p \in Procs, PortalAccepts(p)
      PROVE  /\ portal'[Sha(p)] > 0
             /\ portal[Sha(p)] = 0 => portal'[Sha(p)] = 1
             /\ \A s \in Shas \ {Sha(p)} : portal'[s] = portal[s]
  <2>1. portal \in [Shas -> 0..CopyCap]
    BY <1>1 DEF UTypeOK
  <2>2. \A n \in 0..CopyCap : Min2(n + 1, CopyCap) > 0 /\ (n = 0 => Min2(n + 1, CopyCap) = 1)
    BY DEF Min2
  <2>3. portal'[Sha(p)] = Min2(portal[Sha(p)] + 1, CopyCap)
    BY <1>4, <1>5, <2>1
  <2>4. \A s \in Shas \ {Sha(p)} : portal'[s] = portal[s]
    BY <1>4, <1>5, <2>1
  <2>5. portal[Sha(p)] \in 0..CopyCap
    BY <1>4, <1>5, <2>1
  <2> HIDE DEF Min2
  <2> QED  BY <2>2, <2>3, <2>4, <2>5
<1>6. ASSUME NEW i \in Ids', status'[i] = "uploaded"
      PROVE  portal'[row'[i].sha] > 0
  <2>1. i \in Ids
    BY <1>1, <1>6, NewItemsAreFresh DEF Past
  <2>2. status[i] = "uploaded" \/ \E p \in Procs : held[p] = i /\ RecordUploaded(p)
    BY <1>1, <1>6, <2>1, OutcomesAreRecorded
  <2>3. portal[row[i].sha] > 0
    BY <2>1, <2>2 DEF PortalIsKnown, RecordUploaded, Flying, Sha
  <2>4. PICK s \in Shas : s = row[i].sha /\ s = row'[i].sha
    BY <1>2, <2>1
  <2>5. portal[s] > 0
    BY <2>3, <2>4
  <2>6. portal'[s] > 0
    BY <1>3, <2>5
  <2> QED  BY <2>4, <2>6
<1>7. ASSUME NEW p \in Procs, pc'[p] \in {"accepted", "delivered"}
      PROVE  portal'[row'[held'[p]].sha] > 0
  <2>1. CASE pc[p] \in {"accepted", "delivered"} /\ held'[p] = held[p]
    <3>1. held[p] \in Ids /\ portal[row[held[p]].sha] > 0
      BY <2>1, HeldItem DEF PortalIsKnown, Flying, Sha
    <3>2. PICK s \in Shas : s = row[held[p]].sha /\ s = row'[held'[p]].sha
      BY <1>2, <2>1, <3>1
    <3>3. portal[s] > 0
      BY <3>1, <3>2
    <3>4. portal'[s] > 0
      BY <1>3, <3>3
    <3> QED  BY <3>2, <3>4
  <2>2. CASE PortalAccepts(p)
    <3>1. row'[held'[p]].sha = Sha(p)
      BY <1>4, <2>2 DEF Sha
    <3> QED  BY <1>5, <2>2, <3>1
  <2>3. ClaimApprovedDue(p) => pc'[p] = "claimed"
    BY ClaimTakes
  <2> QED
    BY <1>1, <1>7, <2>1, <2>2, <2>3, EachProcess DEF Stays, Leaves, Continues
<1>8. ASSUME NEW s \in Shas
      PROVE  (portal'[s] > 0 => Agreed(s)' /\ Accounted(s)') /\ (portal'[s] > 1 => s \in doubt' \/ Stolen(s)')
  <2>1. CASE portal'[s] = portal[s]
    <3>1. doubt \subseteq doubt'
      BY PortalStep
    <3> QED  BY <2>1, <3>1, NothingIsForgotten DEF PortalIsKnown
  <2>2. ASSUME NEW p \in Procs, PortalAccepts(p), Sha(p) = s
        PROVE  (portal'[s] > 0 => Agreed(s)' /\ Accounted(s)') /\ (portal'[s] > 1 => s \in doubt' \/ Stolen(s)')
    <3> DEFINE i == held[p]
    <3>0. i \in Ids /\ row[i].sha = s
      BY <1>4, <2>2 DEF Sha
    <3>1. Agreed(s)'
      <4>1. status[i] \in Past
        BY <1>4, <2>2 DEF Base, Working, Uploading
      <4>2. Entries(i, "staged", "approved", "human")
        BY <3>0, <4>1 DEF Base, ReviewHistory, Past
      <4>3. Agreed(s)
        BY <3>0, <4>2 DEF Agreed
      <4> QED  BY <4>3, NothingIsForgotten
    <3>2. Accounted(s)'
      <4>1. InFlight(s)'
        BY <1>4, <2>2 DEF InFlight, Flying, Sha
      <4> QED  BY <4>1 DEF Accounted
    <3>3. ASSUME s \notin doubt, ~Stolen(s)
          PROVE  portal[s] = 0
      <4>1. i \notin stolen
        BY <3>0, <3>3 DEF Stolen
      <4>2. status[i] = "approved"
        BY <1>4, <2>2, <4>1 DEF HeldIsClaimed, Uploading
      <4>0. \A k \in Ids : status[k] \in {"approved", "uploaded"} /\ row[k].sha = s => k = i
        <5>1. OneActivePerSha
          BY DEF Base
        <5> QED  BY <3>0, <4>2, <5>1 DEF OneActivePerSha, Active, ActiveDedupStatuses
      <4>3. ~Recorded(s)
        BY <4>0, <4>2 DEF Recorded
      <4>4. ASSUME NEW q \in Procs, Flying(q), Sha(q) = s
            PROVE  FALSE
        <5>1. held[q] \in Ids /\ held[q] \notin stolen /\ row[held[q]].sha = s
          BY <3>3, <4>4, HeldItem DEF Flying, Stolen, Sha
        <5>2. status[held[q]] = "approved"
          BY <4>4, <5>1 DEF HeldIsClaimed, Uploading, Flying
        <5>3. held[q] = i
          BY <4>0, <5>1, <5>2
        <5>4. q # p
          BY <1>4, <2>2, <4>4 DEF Flying
        <5> QED  BY <1>4, <2>2, <4>1, <4>4, <5>3, <5>4 DEF HeldIsClaimed, Uploading, Flying
      <4>5. ~Accounted(s)
        BY <3>3, <4>3, <4>4 DEF Accounted, InFlight
      <4>6. portal[s] \in Nat /\ ~(portal[s] > 0)
        BY <1>3, <4>5 DEF PortalIsKnown
      <4> QED  BY <4>6
    <3>4. portal'[s] > 1 => s \in doubt' \/ Stolen(s)'
      <4>1. CASE s \in doubt \/ Stolen(s)
        BY <4>1, <1>4, <2>2, NothingIsForgotten
      <4>2. CASE s \notin doubt /\ ~Stolen(s)
        BY <1>5, <2>2, <3>3, <4>2
      <4> QED  BY <4>1, <4>2
    <3> QED  BY <3>1, <3>2, <3>4
  <2>3. portal'[s] = portal[s] \/ \E p \in Procs : PortalAccepts(p) /\ Sha(p) = s
    BY <1>5, PortalStep
  <2> QED  BY <2>1, <2>2, <2>3
<1>9. \A p \in Procs : Flying(p)' => portal'[row'[held'[p]].sha] > 0
  BY <1>7 DEF Flying
<1> QED
  BY <1>6, <1>8, <1>9 DEF PortalIsKnown, Sha

LEMMA PortalIsKnownHolds == USpec => []PortalIsKnown
<1>1. UInit => PortalIsKnown
  BY DEF UInit, Init, PortalIsKnown, Flying, Ids
<1> QED  BY <1>1, NextPortalIsKnown, ClaimsProtect, BaseHolds, PTL DEF USpec

(* G-2, for any number of daemons, copies, crashes, lost answers and failed *)
(* writes: no document reaches the portal twice unless the record of the    *)
(* first upload was lost or an item of it was taken from its uploader.      *)
THEOREM NoDoubleUpload == USpec => []NoDuplicateWithoutDoubt
<1>1. PortalIsKnown => NoDuplicateWithoutDoubt
  BY DEF PortalIsKnown, NoDuplicateWithoutDoubt
<1> QED  BY <1>1, PortalIsKnownHolds, PTL

(* G-2/G-3: what is recorded as uploaded is in the portal, and what is in   *)
(* the portal was approved by a human and is accounted for.                 *)
THEOREM PortalCorrect == USpec => []PortalMatchesQueue
<1>1. PortalIsKnown => PortalMatchesQueue
  BY DEF PortalIsKnown, PortalMatchesQueue, Agreed, Accounted, Recorded, InFlight, Flying
<1> QED  BY <1>1, PortalIsKnownHolds, PTL

-----------------------------------------------------------------------------
(* Retries. *)

(* What holds of an item that fails: as long as the window is open, what is *)
(* left to wait and the age of its first failure cover the schedule.        *)
RetriesAreSpaced ==
  /\ \A i \in Slots : failing[i] = NULL <=> retries[i] = 0
  /\ \A p \in Procs : pc[p] \in Uploading /\ held[p] \notin stolen =>
       due[held[p]] = 0 /\ attempt[p] = retries[held[p]]
  /\ \A i \in Slots \ stolen : failing[i] # NULL =>
       /\ failing[i] >= Min2(Schedule[retries[i] - 1], GiveUpAfter)
       /\ failing[i] = GiveUpAfter \/ failing[i] + due[i] >= Schedule[retries[i]]

(* A retry is recorded: it was due.                                         *)
LEMMA Retrying ==
  ASSUME NEW f \in Nat, NEW g \in Nat, f <= g, NEW high \in Nat, f = g \/ f + 0 >= high,
         NEW delay \in Nat, NEW next \in Nat, next = high + delay
  PROVE  f >= Min2(high, g) /\ (f = g \/ f + delay >= next)
<1> QED  BY DEF Min2

LEMMA NextRetriesAreSpaced == Base /\ HeldIsClaimed /\ RetriesAreSpaced /\ [UNext]_uvars => RetriesAreSpaced'
<1> SUFFICES ASSUME Base, HeldIsClaimed, RetriesAreSpaced, [UNext]_uvars
             PROVE  RetriesAreSpaced'
  OBVIOUS
<1> USE UploaderAssumption
<1>1. /\ due \in [Slots -> 0..BackoffCap] /\ retries \in [Slots -> Nat]
      /\ failing \in [Slots -> 0..GiveUpAfter \cup {NULL}] /\ NULL \notin Nat
      /\ stolen \subseteq stolen'
  BY StolenStays DEF Base, UTypeOK
<1>2. ASSUME NEW p \in Procs, RecordUploadRetry(p), pc[p] = "retryable", held[p] \notin stolen,
             NEW q \in Procs, pc'[q] \in Uploading, held'[q] = held[p]
      PROVE  FALSE
  <2>1. pc[p] \in Uploading /\ pc'[p] \notin Uploading
    BY <1>2, RecordingEnds
  <2>2. CASE pc[q] \in Uploading /\ held'[q] = held[q]
    BY <1>2, <2>1, <2>2 DEF HeldIsClaimed
  <2>3. CASE ClaimApprovedDue(q)
    BY <1>2, <2>1, <2>3, ClaimTakes DEF HeldIsClaimed
  <2> QED  BY <1>2, <2>2, <2>3, StillUploading
<1>3. ASSUME NEW i \in Slots
      PROVE  failing'[i] = NULL <=> retries'[i] = 0
  <2>1. /\ retries[i] \in Nat /\ failing[i] \in Nat \cup {NULL}
        /\ failing[i] = NULL <=> retries[i] = 0
    BY <1>1 DEF RetriesAreSpaced
  <2>2. CASE retries'[i] = retries[i] /\ failing'[i] = failing[i]
    BY <2>1, <2>2
  <2>3. CASE /\ retries'[i] = retries[i]
             /\ failing'[i] = IF failing[i] = NULL THEN NULL ELSE Min2(failing[i] + 1, GiveUpAfter)
    BY <1>1, <2>1, <2>3 DEF Min2
  <2>4. CASE retries'[i] = retries[i] + 1 /\ failing'[i] = IF failing[i] = NULL THEN 0 ELSE failing[i]
    BY <1>1, <2>1, <2>4
  <2> QED  BY <2>2, <2>3, <2>4, RetryStep
<1>4. ASSUME NEW p \in Procs, pc'[p] \in Uploading, held'[p] \notin stolen'
      PROVE  due'[held'[p]] = 0 /\ attempt'[p] = retries'[held'[p]]
  <2>1. CASE ClaimApprovedDue(p)
    BY <2>1, ClaimTakes
  <2>2. CASE pc[p] \in Uploading /\ held'[p] = held[p] /\ attempt'[p] = attempt[p]
    <3> DEFINE i == held[p]
    <3>1. i \in Slots /\ due[i] = 0 /\ attempt[p] = retries[i] /\ i \notin stolen
      BY <1>1, <1>4, <2>2, HeldItem DEF RetriesAreSpaced, Uploading
    <3>2. due'[i] = 0 /\ retries'[i] = retries[i]
      <4> HIDE DEF i
      <4>1. ASSUME NEW r \in Procs, RecordUploadRetry(r), pc[r] = "retryable", held[r] = i
            PROVE  FALSE
        BY <1>2, <1>4, <2>2, <3>1, <4>1 DEF i
      <4> QED  BY <3>1, <4>1, RetryStep
    <3> QED  BY <2>2, <3>1, <3>2
  <2> QED  BY <1>4, <2>1, <2>2, StillUploading
<1>5. ASSUME NEW i \in Slots \ stolen', failing'[i] # NULL
      PROVE  /\ failing'[i] >= Min2(Schedule[retries'[i] - 1], GiveUpAfter)
             /\ failing'[i] = GiveUpAfter \/ failing'[i] + due'[i] >= Schedule[retries'[i]]
  <2>1. /\ retries[i] \in Nat /\ due[i] \in Nat /\ failing[i] \in 0..GiveUpAfter \cup {NULL}
        /\ failing[i] = NULL <=> retries[i] = 0
        /\ failing[i] # NULL =>
             /\ failing[i] >= Min2(Schedule[retries[i] - 1], GiveUpAfter)
             /\ failing[i] = GiveUpAfter \/ failing[i] + due[i] >= Schedule[retries[i]]
    BY <1>1 DEF RetriesAreSpaced
  <2>2. \A n \in Nat : Schedule[n] \in Nat /\ Schedule[n + 1] = Schedule[n] + Backoff(n + 1)
    BY ScheduleRecursion
  <2>3. CASE due'[i] = due[i] /\ retries'[i] = retries[i] /\ failing'[i] = failing[i]
    BY <1>5, <2>1, <2>3
  <2>4. CASE /\ retries'[i] = retries[i]
             /\ due'[i] = IF due[i] = 0 THEN 0 ELSE due[i] - 1
             /\ failing'[i] = IF failing[i] = NULL THEN NULL ELSE Min2(failing[i] + 1, GiveUpAfter)
    <3>1. failing[i] \in 0..GiveUpAfter /\ retries[i] - 1 \in Nat
      BY <1>5, <2>1, <2>4
    <3>2. Schedule[retries[i] - 1] \in Nat /\ Schedule[retries[i]] \in Nat
      BY <2>1, <2>2, <3>1
    <3>3. /\ failing[i] \in Nat /\ failing[i] <= GiveUpAfter /\ failing[i] # NULL
          /\ failing'[i] = Min2(failing[i] + 1, GiveUpAfter)
      BY <1>1, <2>4, <3>1
    <3> DEFINE low == Schedule[retries[i] - 1]
               high == Schedule[retries[i]]
    <3>4. /\ low \in Nat /\ high \in Nat
          /\ failing[i] >= Min2(low, GiveUpAfter)
          /\ failing[i] = GiveUpAfter \/ failing[i] + due[i] >= high
      BY <2>1, <3>2, <3>3
    <3>5. /\ failing'[i] >= Min2(low, GiveUpAfter)
          /\ failing'[i] = GiveUpAfter \/ failing'[i] + due'[i] >= high
      <4> HIDE DEF low, high
      <4>1. due[i] \in Nat /\ due'[i] = IF due[i] = 0 THEN 0 ELSE due[i] - 1
        BY <2>1, <2>4
      <4> QED  BY <3>3, <3>4, <4>1 DEF Min2
    <3> QED  BY <2>4, <3>5
  <2>5. ASSUME NEW p \in Procs, RecordUploadRetry(p), pc[p] = "retryable", held[p] = i,
               retries'[i] = retries[i] + 1,
               due'[i] = Backoff(attempt[p] + 1),
               failing'[i] = IF failing[i] = NULL THEN 0 ELSE failing[i]
        PROVE  /\ failing'[i] >= Min2(Schedule[retries'[i] - 1], GiveUpAfter)
               /\ failing'[i] = GiveUpAfter \/ failing'[i] + due'[i] >= Schedule[retries'[i]]
    <3>1. due[i] = 0 /\ attempt[p] = retries[i]
      BY <1>1, <2>5 DEF RetriesAreSpaced, Uploading
    <3> DEFINE delay == Backoff(retries[i] + 1)
               high == Schedule[retries[i]]
    <3>2. delay \in Nat
      <4>1. retries[i] + 1 \in Nat \ {0}
        BY <2>1
      <4> QED  BY <4>1, BackoffBounds
    <3>3. high \in Nat /\ Schedule[retries[i] + 1] = high + delay /\ high + delay \in Nat
      BY <2>1, <2>2, <3>2
    <3>4. due'[i] = delay /\ retries'[i] - 1 = retries[i]
      BY <2>1, <2>5, <3>1
    <3>5. CASE failing[i] = NULL
      <4>1. high = 0 /\ failing'[i] = 0
        BY <2>1, <2>5, <3>5, ScheduleRecursion
      <4>2. 0 >= Min2(high, GiveUpAfter) /\ 0 + delay >= high + delay
        <5> HIDE DEF high, delay
        <5> QED  BY <3>2, <4>1 DEF Min2
      <4> HIDE DEF high, delay
      <4> QED  BY <2>5, <3>3, <3>4, <4>1, <4>2 DEF high, delay
    <3>6. CASE failing[i] # NULL
      <4>1. /\ failing[i] \in Nat /\ failing[i] <= GiveUpAfter /\ failing'[i] = failing[i]
            /\ failing[i] = GiveUpAfter \/ failing[i] + 0 >= high
        BY <2>1, <2>5, <3>1, <3>6
      <4>2. /\ failing[i] >= Min2(high, GiveUpAfter)
            /\ failing[i] = GiveUpAfter \/ failing[i] + delay >= high + delay
        <5> HIDE DEF high, delay
        <5> QED  BY <3>2, <3>3, <4>1, Retrying
      <4> QED  BY <2>5, <3>3, <3>4, <4>1, <4>2
    <3> QED  BY <3>5, <3>6
  <2> QED  BY <2>3, <2>4, <2>5, RetryStep
<1> QED  BY <1>3, <1>4, <1>5 DEF RetriesAreSpaced

(* F-51, for any number of daemons, any schedule and any number of crashes: *)
(* no retry comes before its turn, unless the item was taken from a live    *)
(* process.                                                                 *)
THEOREM BackoffServed == USpec => []BackoffIsServed
<1>1. UInit => RetriesAreSpaced
  BY DEF UInit, RetriesAreSpaced, Uploading
<1>2. Base /\ RetriesAreSpaced => BackoffIsServed
  <2>1. Base => Ids \subseteq Slots
    <3> SUFFICES ASSUME Base PROVE Ids \subseteq Slots
      OBVIOUS
    <3>1. Len(row) \in Nat /\ Len(row) <= MaxItems /\ MaxItems \in Nat
      BY QueueAssumption DEF Base, UTypeOK, TypeOK
    <3> QED  BY <3>1 DEF Ids, Slots
  <2> QED  BY <2>1 DEF RetriesAreSpaced, BackoffIsServed
<1> QED  BY <1>1, <1>2, NextRetriesAreSpaced, ClaimsProtect, BaseHolds, PTL DEF USpec

-----------------------------------------------------------------------------
(* Labels. *)

LEMMA LabelStep ==
  ASSUME Base, [UNext]_uvars
  PROVE  /\ crossed \subseteq crossed'
         /\ faults > 0 => faults' > 0
         /\ \A p \in Procs : LabelDue(p) => crossed' = crossed \cup ({Msg(p)} \cap BeingLabeled)
         /\ \/ labeledAt' = labeledAt
            \/ \E p \in Procs : MarkMessageSubmitted(p) /\ pc[p] = "labeled" /\ labeledAt' = labeledAt \cup {Msg(p)}
<1>0. faults \in Nat
  BY UploaderAssumption DEF Base, UTypeOK
<1> DEFINE Kept == /\ crossed \subseteq crossed'
                   /\ faults > 0 => faults' > 0
                   /\ \/ labeledAt' = labeledAt
                      \/ \E p \in Procs : /\ MarkMessageSubmitted(p) /\ pc[p] = "labeled"
                                          /\ labeledAt' = labeledAt \cup {Msg(p)}
<1>1. ASSUME NEW p \in Procs, Acts(p)
      PROVE  Kept
  <2>1. crossed \subseteq crossed'
    BY <1>1 DEF Acts, Step, ClaimApprovedDue, OpenFails, Send, AnswerDelivered, AnswerError,
       RecordUploaded, RecordFailed, RecordTooLate, RecordUploadRetry, GiveUp, KeepTrying, Verify, LabelDue,
       LabelNotDue, ApplyLabel, ApplyLabelFails, MarkMessageSubmitted, Start, PortalAccepts, Poll,
       AnswerWithoutUuid, WriteFails, Crash, worldVars
  <2>2. faults' = faults \/ faults' = faults + 1
    BY <1>1 DEF Acts, Step, ClaimApprovedDue, OpenFails, Send, AnswerDelivered, AnswerError,
       RecordUploaded, RecordFailed, RecordTooLate, RecordUploadRetry, GiveUp, KeepTrying, Verify, LabelDue,
       LabelNotDue, ApplyLabel, ApplyLabelFails, MarkMessageSubmitted, Start, PortalAccepts, Poll,
       AnswerWithoutUuid, WriteFails, Crash, worldVars
  <2>3. ~MarkMessageSubmitted(p) => labeledAt' = labeledAt
    BY <1>1 DEF Acts, Step, ClaimApprovedDue, OpenFails, Send, AnswerDelivered, AnswerError,
       RecordUploaded, RecordFailed, RecordTooLate, RecordUploadRetry, GiveUp, KeepTrying, Verify, LabelDue,
       LabelNotDue, ApplyLabel, ApplyLabelFails, Start, PortalAccepts, Poll,
       AnswerWithoutUuid, WriteFails, Crash, dbVars
  <2>4. MarkMessageSubmitted(p) => pc[p] = "labeled" /\ labeledAt' = labeledAt \cup {Msg(p)}
    BY DEF MarkMessageSubmitted
  <2> QED  BY <1>0, <2>1, <2>2, <2>3, <2>4
<1>2. ASSUME Decide \/ Tick \/ UNCHANGED uvars
      PROVE  Kept
  BY <1>2 DEF Decide, Tick, dbVars, worldVars, uvars
<1>3. \A p \in Procs : LabelDue(p) => crossed' = crossed \cup ({Msg(p)} \cap BeingLabeled)
  BY DEF LabelDue
<1>4. Kept
  <2> HIDE DEF Kept
  <2> QED  BY <1>1, <1>2 DEF UNext, Acts
<1> QED  BY <1>3, <1>4

Labeling(p) == pc[p] \in {"labeling", "labeled"}

(* A process about to label a message is the only one, and nothing of the   *)
(* message is open, unless another daemon came in between.                  *)
LabelsAreDue ==
  /\ \A p, q \in Procs : Labeling(p) /\ Labeling(q) /\ Msg(p) = Msg(q) => p = q \/ Msg(p) \in crossed
  /\ \A p \in Procs : pc[p] = "labeling" =>
       \/ Msg(p) \in crossed
       \/ Msg(p) \notin labeledAt /\ AllUploaded(Msg(p))
  /\ \A m \in gmail : m \in labeledAt \/ faults > 0 \/ \E p \in Procs : pc[p] = "labeled" /\ Msg(p) = m

(* How a process comes to label, and how it ends.                           *)
LEMMA ComesToLabel ==
  ASSUME Base, [UNext]_uvars, NEW p \in Procs, pc'[p] \in {"labeling", "labeled"}
  PROVE  /\ held'[p] = held[p] /\ held[p] \in Ids /\ row'[held'[p]].msg = Msg(p)
         /\ \/ pc'[p] = pc[p]
            \/ pc[p] = "labeling" /\ pc'[p] = "labeled"
            \/ LabelDue(p) /\ pc'[p] = "labeling"
<1>1. UTypeOK /\ TypeOK
  BY DEF Base, UTypeOK
<1>2. /\ held'[p] = held[p] /\ pc[p] \notin {"down", "idle"}
      /\ \/ pc'[p] = pc[p]
         \/ pc[p] = "labeling" /\ pc'[p] = "labeled"
         \/ LabelDue(p) /\ pc'[p] = "labeling"
  <2>1. ClaimApprovedDue(p) => pc'[p] = "claimed"
    BY ClaimTakes
  <2> QED  BY <1>1, <2>1, EachProcess DEF Stays, Leaves, Continues, LabelDue
<1>3. held[p] \in Ids
  BY <1>2, HeldItem
<1>4. row'[held[p]] = row[held[p]]
  BY <1>1, <1>3, QueueStep, RowsStay
<1> QED  BY <1>2, <1>3, <1>4 DEF Msg

LEMMA LabelingEnds ==
  ASSUME Base, [UNext]_uvars, NEW p \in Procs, pc[p] = "labeled"
  PROVE  \/ pc'[p] = "labeled" /\ held'[p] = held[p]
         \/ labeledAt' = labeledAt \cup {Msg(p)}
         \/ faults' > 0
<1>0. DOMAIN pc = Procs /\ UTypeOK /\ faults \in Nat
  BY UploaderAssumption DEF Base, UTypeOK
<1>1. CASE Acts(p)
  <2>1. MarkMessageSubmitted(p) \/ WriteFails(p) \/ Crash(p)
    BY <1>1 DEF Acts, Step, ClaimApprovedDue, OpenFails, Send, AnswerDelivered, AnswerError, RecordUploaded,
       RecordFailed, RecordTooLate, RecordUploadRetry, GiveUp, KeepTrying, Verify, LabelDue, LabelNotDue,
       ApplyLabel, ApplyLabelFails, Start, PortalAccepts, Poll, AnswerWithoutUuid
  <2>2. MarkMessageSubmitted(p) => labeledAt' = labeledAt \cup {Msg(p)}
    BY DEF MarkMessageSubmitted
  <2>3. WriteFails(p) \/ Crash(p) => faults' = faults + 1
    BY DEF WriteFails, Crash
  <2> QED  BY <1>0, <2>1, <2>2, <2>3
<1>2. ASSUME NEW q \in Procs, Acts(q), q # p
      PROVE  pc'[p] = pc[p] /\ held'[p] = held[p]
  BY <1>0, <1>2, OneMoves
<1>3. CASE Decide \/ Tick \/ UNCHANGED uvars
  BY <1>3 DEF Decide, Tick, procVars, uvars
<1> QED
  BY <1>1, <1>2, <1>3 DEF UNext, Acts

(* A message of which everything is uploaded stays so, unless a document of *)
(* it comes in while a process is labelling it.                             *)
LEMMA UploadedStays ==
  ASSUME Base, [UNext]_uvars, NEW m \in BeingLabeled, AllUploaded(m), m \notin crossed', NEW i \in Ids',
         row'[i].msg = m
  PROVE  status'[i] = "uploaded"
<1>1. TypeOK
  BY DEF Base, UTypeOK
<1>2. CASE i \in Ids
  <2>1. row'[i] = row[i]
    BY <1>1, <1>2, QueueStep, RowsStay
  <2>2. status[i] = "uploaded"
    BY <1>2, <2>1 DEF AllUploaded
  <2> QED  BY <1>1, <1>2, <2>2, OutcomesAreRecorded DEF Past
<1>3. CASE i \notin Ids
  <2>1. PICK in \in Candidates : row'[i].msg = in.msg /\ crossed' = crossed \cup ({in.msg} \cap BeingLabeled)
    BY <1>1, <1>3, NewItemsAreFresh
  <2> QED  BY <2>1
<1> QED  BY <1>2, <1>3

LEMMA NextLabelsAreDue == Base /\ LabelsAreDue /\ [UNext]_uvars => LabelsAreDue'
<1> SUFFICES ASSUME Base, LabelsAreDue, [UNext]_uvars
             PROVE  LabelsAreDue'
  OBVIOUS
<1>1. crossed \subseteq crossed'
  BY LabelStep
<1>2. ASSUME NEW p \in Procs, NEW q \in Procs, p # q, pc'[p] \in {"labeling", "labeled"},
             pc'[q] \in {"labeling", "labeled"}, row'[held'[p]].msg = row'[held'[q]].msg
      PROVE  row'[held'[p]].msg \in crossed'
  <2>1. row'[held'[p]].msg = Msg(p) /\ Msg(p) = Msg(q)
    BY <1>2, ComesToLabel
  <2>2. CASE Labeling(p) /\ Labeling(q)
    BY <1>1, <1>2, <2>1, <2>2 DEF LabelsAreDue
  <2>3. ASSUME NEW u \in Procs, NEW v \in Procs, u # v, pc'[v] \in {"labeling", "labeled"},
               LabelDue(u), Msg(u) = Msg(v)
        PROVE  Msg(u) \in crossed'
    <3>1. pc'[v] = pc[v]
      BY <2>3, OneMoves DEF Acts, Step, Base
    <3>2. Msg(u) \in BeingLabeled
      BY <2>3, <3>1 DEF BeingLabeled
    <3> QED  BY <2>3, <3>2, LabelStep
  <2> QED  BY <1>2, <2>1, <2>2, <2>3, ComesToLabel DEF Labeling
<1>3. ASSUME NEW p \in Procs, pc'[p] = "labeling", row'[held'[p]].msg \notin crossed'
      PROVE  /\ row'[held'[p]].msg \notin labeledAt'
             /\ \A i \in Ids' : row'[i].msg = row'[held'[p]].msg => status'[i] = "uploaded"
  <2> DEFINE m == Msg(p)
  <2>1. /\ row'[held'[p]].msg = m
        /\ pc[p] = "labeling" \/ LabelDue(p)
    BY <1>3, ComesToLabel
  <2>2. CASE pc[p] = "labeling"
    <3>1. m \notin labeledAt /\ AllUploaded(m) /\ m \notin crossed /\ m \in BeingLabeled
      BY <1>1, <1>3, <2>1, <2>2 DEF LabelsAreDue, BeingLabeled
    <3>2. m \notin labeledAt'
      <4>1. ASSUME NEW q \in Procs, pc[q] = "labeled", Msg(q) = m
            PROVE  FALSE
        BY <2>2, <3>1, <4>1 DEF LabelsAreDue, Labeling
      <4> QED  BY <3>1, <4>1, LabelStep
    <3> QED  BY <1>3, <2>1, <3>1, <3>2, UploadedStays
  <2>3. CASE LabelDue(p)
    <3>1. m \notin labeledAt /\ AllUploaded(m) /\ UNCHANGED <<row, status, labeledAt>>
      BY <2>3 DEF LabelDue, vars, dbVars
    <3> QED  BY <2>1, <3>1 DEF AllUploaded, Ids
  <2> QED  BY <2>1, <2>2, <2>3
<1>4. ASSUME NEW m \in gmail', m \notin labeledAt', ~(faults' > 0)
      PROVE  \E p \in Procs : pc'[p] = "labeled" /\ row'[held'[p]].msg = m
  <2>1. CASE m \in gmail
    <3>1. m \notin labeledAt /\ ~(faults > 0)
      BY <1>4, LabelStep
    <3>2. PICK p \in Procs : pc[p] = "labeled" /\ Msg(p) = m
      BY <2>1, <3>1 DEF LabelsAreDue
    <3>3. pc'[p] = "labeled"
      BY <1>4, <3>2, LabelingEnds
    <3> QED  BY <3>2, <3>3, ComesToLabel
  <2>2. ASSUME NEW p \in Procs, ApplyLabel(p), m = Msg(p)
        PROVE  pc'[p] = "labeled" /\ row'[held'[p]].msg = m
    <3>1. DOMAIN pc = Procs
      BY DEF Base, UTypeOK
    <3>2. pc'[p] = "labeled"
      BY <2>2, <3>1 DEF ApplyLabel, Goto
    <3> QED  BY <2>2, <3>2, ComesToLabel
  <2>3. m \in gmail \/ \E p \in Procs : ApplyLabel(p) /\ m = Msg(p)
    BY <1>4, GmailStep
  <2> QED  BY <2>1, <2>2, <2>3
<1> QED
  BY <1>2, <1>3, <1>4 DEF LabelsAreDue, Labeling, Msg, AllUploaded

(* F-14/AC-19, for any number of daemons and messages: Gmail is told only   *)
(* what is so at that moment, and once, unless a fault or a second daemon   *)
(* comes between the decision, the call and its record.                     *)
THEOREM LabelsTrue == USpec => LabelsAreTrue
<1>1. UInit => LabelsAreDue
  BY DEF UInit, LabelsAreDue, Labeling
<1>2. Base /\ LabelsAreDue /\ [UNext]_uvars
        => [\A m \in Msgs \ crossed :
              /\ m \in gmail' \ gmail => AllUploaded(m)
              /\ (\E p \in Procs : pc[p] = "labeling" /\ pc'[p] = "labeled" /\ Msg(p) = m)
                   => m \notin gmail \/ faults > 0]_uvars
  <2> SUFFICES ASSUME Base, LabelsAreDue, [UNext]_uvars, NEW m \in Msgs \ crossed
               PROVE  /\ m \in gmail' \ gmail => AllUploaded(m)
                      /\ (\E p \in Procs : pc[p] = "labeling" /\ pc'[p] = "labeled" /\ Msg(p) = m)
                           => m \notin gmail \/ faults > 0
    OBVIOUS
  <2>1. ASSUME m \in gmail' \ gmail
        PROVE  AllUploaded(m)
    BY <2>1, GmailStep DEF LabelsAreDue
  <2>2. ASSUME NEW p \in Procs, pc[p] = "labeling", Msg(p) = m
        PROVE  m \notin gmail \/ faults > 0
    <3>1. m \notin labeledAt
      BY <2>2 DEF LabelsAreDue
    <3>2. ASSUME NEW q \in Procs, pc[q] = "labeled", Msg(q) = m
          PROVE  FALSE
      BY <2>2, <3>2 DEF LabelsAreDue, Labeling
    <3> QED  BY <3>1, <3>2 DEF LabelsAreDue
  <2> QED  BY <2>1, <2>2
<1> QED  BY <1>1, <1>2, NextLabelsAreDue, BaseHolds, PTL DEF USpec, LabelsAreTrue
=============================================================================
