---------------------------- MODULE QueueProofs ----------------------------
(***************************************************************************)
(* Theorems about Queue, for every value of its constants.                 *)
(***************************************************************************)
EXTENDS Queue, WellFoundedInduction, SequenceTheorems, TLAPS

(* A nonempty set of ids has an oldest element, and Oldest is it: what      *)
(* "ORDER BY id LIMIT 1" needs to return a row of the set.                  *)
LEMMA OldestIsLeast ==
  ASSUME NEW S \in SUBSET Nat, S # {}
  PROVE  Oldest(S) \in S /\ \A j \in S : Oldest(S) <= j
<1> DEFINE less == {p \in Nat \X Nat : p[1] < p[2]}
<1>1. IsWellFoundedOn(less, Nat)
  BY NatLessThanWellFounded DEF OpToRel
<1>2. \E x \in S : \A y \in S : <<y, x>> \notin less
  <2> HIDE DEF less
  <2> QED  BY <1>1, WFMin
<1>3. ASSUME NEW x \in S, NEW y \in S, <<y, x>> \notin less
      PROVE  x <= y
  BY <1>3
<1>4. \E x \in S : \A y \in S : x <= y
  <2> HIDE DEF less
  <2> QED  BY <1>2, <1>3
<1> QED  BY <1>4 DEF Oldest
-----------------------------------------------------------------------------
(* What a step does to the tables, row by row. *)

(* The columns of an existing row have their types.                         *)
LEMMA RowFields ==
  ASSUME TypeOK, NEW i \in Ids
  PROVE  row[i].msg \in Msgs /\ row[i].sha \in Shas /\ row[i].linked \in Nat
<1>1. row[i] \in Row
  BY DEF TypeOK, Ids
<1> QED  BY <1>1 DEF Row

(* The row StageItem inserts is a well-formed item row.                     *)
LEMMA StagedRowType ==
  ASSUME TypeOK, NEW in \in Candidates
  PROVE  /\ StagedRow(in) \in Row
         /\ StagedRow(in).msg = in.msg
         /\ StagedRow(in).sha = in.sha
         /\ InitialStatus(in) \in Status
<1> USE QueueAssumption
<1>1. in \in NewItem
  OBVIOUS
<1>2. InitialStatus(in) \in Status
  BY DEF InitialStatus, Status
<1>3. /\ SameBytes(in.sha) # {} => Oldest(SameBytes(in.sha)) \in Nat
      /\ SameIdentity(in.key) # {} => Oldest(SameIdentity(in.key)) \in Nat
  <2>1. SameBytes(in.sha) \in SUBSET Nat /\ SameIdentity(in.key) \in SUBSET Nat
    BY DEF SameBytes, SameIdentity, Ids, TypeOK
  <2> QED  BY <2>1, OldestIsLeast
<1>4. InitialStatus(in) = "duplicate_linked" => SameBytes(in.sha) # {}
  BY DEF InitialStatus
<1> QED
  BY <1>1, <1>2, <1>3, <1>4 DEF StagedRow, Row, NewItem, NoLink, DedupLayer

(* StageItem adds one row under the next id and leaves every other alone.   *)
LEMMA StageItemEffect ==
  ASSUME TypeOK, NEW in \in Candidates, StageItem(in)
  PROVE  LET n == Len(row) + 1 IN
         /\ row' \in Seq(Row) /\ status' \in Seq(Status)
         /\ Len(row') = n /\ Len(status') = n
         /\ Ids' = Ids \cup {n} /\ n \notin Ids /\ n \in Nat \ {0}
         /\ \A j \in Ids : row'[j] = row[j] /\ status'[j] = status[j]
         /\ row'[n] = StagedRow(in) /\ status'[n] = InitialStatus(in)
<1>1. /\ row' = Append(row, StagedRow(in))
      /\ status' = Append(status, InitialStatus(in))
  BY DEF StageItem
<1>2. /\ row \in Seq(Row) /\ status \in Seq(Status) /\ Len(status) = Len(row)
      /\ Len(row) \in Nat
  BY DEF TypeOK
<1>3. StagedRow(in) \in Row /\ InitialStatus(in) \in Status
  BY StagedRowType
<1>4. /\ row' \in Seq(Row) /\ Len(row') = Len(row) + 1
      /\ \A j \in 1..Len(row) : row'[j] = row[j]
      /\ row'[Len(row) + 1] = StagedRow(in)
  BY <1>1, <1>2, <1>3
<1>5. /\ status' \in Seq(Status) /\ Len(status') = Len(row) + 1
      /\ \A j \in 1..Len(row) : status'[j] = status[j]
      /\ status'[Len(row) + 1] = InitialStatus(in)
  BY <1>1, <1>2, <1>3
<1> QED  BY <1>2, <1>4, <1>5 DEF Ids

(* A lifecycle move changes one status, along an edge of the F-41 graph.    *)
LEMMA MoveEffect ==
  ASSUME TypeOK, NEW i, NEW to \in Status, NEW actor \in Actor, Move(i, to, actor)
  PROVE  /\ i \in Ids /\ Ids' = Ids /\ row' = row
         /\ <<status[i], to>> \in AllowedTransitions
         /\ status' \in Seq(Status) /\ Len(status') = Len(row)
         /\ status'[i] = to
         /\ \A j \in Ids : j # i => status'[j] = status[j]
<1>1. /\ i \in Ids /\ row' = row
      /\ <<status[i], to>> \in AllowedTransitions
      /\ status' = [status EXCEPT ![i] = to]
  BY DEF Move
<1>2. status \in Seq(Status) /\ Len(status) = Len(row) /\ i \in 1..Len(status)
  BY <1>1 DEF TypeOK, Ids
<1> QED  BY <1>1, <1>2, ExceptSeq DEF Ids

(* Every lifecycle action is such a move, by the actor that may make it.    *)
LEMMA LifecycleIsMove ==
  ASSUME NEW i, Lifecycle(i)
  PROVE  \E to \in Status, actor \in Actor :
           /\ Move(i, to, actor)
           /\ actor = IF to \in {"uploaded", "failed"} THEN "daemon" ELSE "human"
           /\ to = "approved" => ~row[i].manual
BY DEF Lifecycle, Review, Outcome, HandleApprove, Approve, Reject, MarkAlreadyInPortalWithTeaching,
       OverridePeppolSuppression, MarkUploaded, MarkFailed, Status, Actor
-----------------------------------------------------------------------------
(* Type correctness. *)

LEMMA InitTypeOK == Init => TypeOK
BY DEF Init, TypeOK, Ids

LEMMA NextTypeOK == TypeOK /\ [Next]_vars => TypeOK'
<1> SUFFICES ASSUME TypeOK, [Next]_vars
             PROVE  TypeOK'
  OBVIOUS
<1> USE QueueAssumption
<1>1. ASSUME NEW in \in Candidates, StageItem(in)
      PROVE  TypeOK'
  <2>1. LogRow(Len(row) + 1, NULL, InitialStatus(in), "daemon") \in Transition
    BY <1>1, StageItemEffect, StagedRowType DEF LogRow, Transition, Actor
  <2> QED  BY <1>1, <2>1, StageItemEffect DEF TypeOK, StageItem
<1>2. ASSUME NEW i \in Ids, Lifecycle(i)
      PROVE  TypeOK'
  <2>1. PICK to \in Status, actor \in Actor : Move(i, to, actor)
    BY <1>2, LifecycleIsMove
  <2>2. LogRow(i, status[i], to, actor) \in Transition
    BY <2>1 DEF LogRow, Transition, TypeOK, Ids
  <2>3. log' \subseteq Transition
    BY <2>1, <2>2 DEF Move, TypeOK
  <2>4. teaching' \subseteq Vendors \cup {ItemKey(j) : j \in Ids}
    <3>1. TaughtOf[row[i].msg] \in Vendors \cup {NULL}
      BY RowFields
    <3>2. KeysTaught(i) \subseteq Vendors \cup {ItemKey(j) : j \in Ids}
      BY <3>1 DEF KeysTaught
    <3>3. teaching' = teaching \/ \E key \in KeysTaught(i) : teaching' = teaching \cup {key}
      BY <1>2 DEF Lifecycle, Review, Outcome, HandleApprove, Approve, Reject, MarkUploaded, MarkFailed,
                  MarkAlreadyInPortalWithTeaching, OverridePeppolSuppression
    <3> QED  BY <3>2, <3>3 DEF TypeOK
  <2> QED  BY <2>1, <2>3, <2>4, MoveEffect DEF TypeOK
<1>3. CASE UNCHANGED vars
  BY <1>3 DEF vars, TypeOK, Ids
<1> QED  BY <1>1, <1>2, <1>3 DEF Next

(* The queue only grows, and its rows do not change.                        *)
LEMMA RowsStay ==
  ASSUME TypeOK, [Next]_vars
  PROVE  TypeOK' /\ Ids \subseteq Ids' /\ \A i \in Ids : row'[i] = row[i]
<1>1. TypeOK'
  BY NextTypeOK
<1>2. ASSUME NEW in \in Candidates, StageItem(in)
      PROVE  Ids \subseteq Ids' /\ \A i \in Ids : row'[i] = row[i]
  BY <1>2, StageItemEffect
<1>3. ASSUME NEW i \in Ids, Lifecycle(i)
      PROVE  Ids \subseteq Ids' /\ \A j \in Ids : row'[j] = row[j]
  BY <1>3, LifecycleIsMove, MoveEffect
<1>4. CASE UNCHANGED vars
  BY <1>1, <1>4 DEF vars, Ids
<1> QED
  BY <1>1, <1>2, <1>3, <1>4 DEF Next

(* ... and a status changes along an edge of the F-41 graph.                *)
LEMMA StatusMovesOn ==
  ASSUME TypeOK, [Next]_vars, NEW i \in Ids
  PROVE  status'[i] = status[i] \/ <<status[i], status'[i]>> \in AllowedTransitions
<1>1. ASSUME NEW in \in Candidates, StageItem(in)
      PROVE  status'[i] = status[i]
  BY <1>1, StageItemEffect
<1>2. ASSUME NEW k \in Ids, Lifecycle(k)
      PROVE  status'[i] = status[i] \/ <<status[i], status'[i]>> \in AllowedTransitions
  BY <1>2, LifecycleIsMove, MoveEffect
<1>3. CASE UNCHANGED vars
  BY <1>3 DEF vars
<1> QED
  BY <1>1, <1>2, <1>3 DEF Next

(* The tables keep their shape: every row is a well-formed item with one    *)
(* status (schema.go, item and item_transition).                            *)
THEOREM TypeCorrect == Spec => []TypeOK
BY InitTypeOK, NextTypeOK, PTL DEF Spec
-----------------------------------------------------------------------------
(* One active row per document. *)

LEMMA NextOneActive == TypeOK /\ OneActivePerSha /\ [Next]_vars => OneActivePerSha'
<1> SUFFICES ASSUME TypeOK, OneActivePerSha, [Next]_vars
             PROVE  OneActivePerSha'
  OBVIOUS
<1>1. ASSUME NEW in \in Candidates, StageItem(in)
      PROVE  OneActivePerSha'
  <2> DEFINE n == Len(row) + 1
  <2>1. ASSUME NEW j \in Ids, Active(j), row[j].sha = in.sha
        PROVE  InitialStatus(in) \notin ActiveDedupStatuses
    <3>1. SameBytes(in.sha) # {}
      BY <2>1 DEF SameBytes
    <3> QED  BY <3>1 DEF InitialStatus, ActiveDedupStatuses
  <2>2. row'[n].sha = in.sha /\ status'[n] = InitialStatus(in)
    BY <1>1, StageItemEffect, StagedRowType
  <2> QED  BY <1>1, <2>1, <2>2, StageItemEffect DEF OneActivePerSha, Active
<1>2. ASSUME NEW i \in Ids, Lifecycle(i)
      PROVE  OneActivePerSha'
  <2>1. PICK to \in Status, actor \in Actor : Move(i, to, actor)
    BY <1>2, LifecycleIsMove
  <2>2. to \in ActiveDedupStatuses =>
          \A j \in Ids : Active(j) /\ row[j].sha = row[i].sha => j = i
    BY <2>1 DEF Move, IndexAdmits, SameBytes
  <2> QED  BY <2>1, <2>2, MoveEffect DEF OneActivePerSha, Active
<1>3. CASE UNCHANGED vars
  BY <1>3 DEF vars, OneActivePerSha, Active, Ids
<1> QED  BY <1>1, <1>2, <1>3 DEF Next

(* At most one active row has given bytes: the L2 look-up of StageItem      *)
(* covers the INSERT and the partial unique index every UPDATE.             *)
THEOREM ActiveBytesUnique == Spec => []OneActivePerSha
<1>1. Init => OneActivePerSha
  BY DEF Init, OneActivePerSha, Ids
<1> QED  BY <1>1, InitTypeOK, NextTypeOK, NextOneActive, PTL DEF Spec
-----------------------------------------------------------------------------
(* The queue implements the ledger of documents. *)

(* A document is in DocsIn(P) when some item with its bytes has a status in *)
(* P; so moving item i from and to statuses outside P leaves DocsIn(P)      *)
(* alone, moving it into P adds i's document, and moving the only item of   *)
(* its document out of P removes the document.                              *)
LEMMA MoveChangesOneDocument ==
  ASSUME TypeOK, NEW i, NEW to \in Status, NEW actor \in Actor, Move(i, to, actor),
         NEW P
  PROVE  /\ to \in P => DocsIn(P)' = DocsIn(P) \cup {row[i].sha}
         /\ to \notin P /\ status[i] \notin P => DocsIn(P)' = DocsIn(P)
         /\ /\ to \notin P
            /\ \A k \in Ids : status[k] \in P /\ row[k].sha = row[i].sha => k = i
            => DocsIn(P)' = DocsIn(P) \ {row[i].sha}
<1>1. \A x : x \in DocsIn(P) <=> \E k \in Ids : status[k] \in P /\ row[k].sha = x
  BY DEF DocsIn
<1>2. \A x : x \in DocsIn(P)' <=> \E k \in Ids : status'[k] \in P /\ row[k].sha = x
  BY MoveEffect DEF DocsIn
<1>3. i \in Ids /\ status'[i] = to /\ \A j \in Ids : j # i => status'[j] = status[j]
  BY MoveEffect
<1>4. ASSUME to \in P
      PROVE  DocsIn(P)' = DocsIn(P) \cup {row[i].sha}
  BY <1>1, <1>2, <1>3, <1>4
<1>5. ASSUME to \notin P, status[i] \notin P
      PROVE  DocsIn(P)' = DocsIn(P)
  BY <1>1, <1>2, <1>3, <1>5
<1>6. ASSUME to \notin P, \A k \in Ids : status[k] \in P /\ row[k].sha = row[i].sha => k = i
      PROVE  DocsIn(P)' = DocsIn(P) \ {row[i].sha}
  BY <1>1, <1>2, <1>3, <1>6
<1> QED  BY <1>4, <1>5, <1>6

(* Each step of the queue is a step of the ledger or leaves it alone.       *)
LEMMA NextRefinesLedger ==
  TypeOK /\ OneActivePerSha /\ [Next]_vars
    => [DocumentLedger!LedgerNext]_(DocumentLedger!ledgerVars)
<1> SUFFICES ASSUME TypeOK, OneActivePerSha, [Next]_vars
             PROVE  \/ UNCHANGED <<Consented, Settled>>
                    \/ \E d \in Shas : \/ DocumentLedger!Consent(d)
                                       \/ DocumentLedger!Deliver(d)
                                       \/ DocumentLedger!GiveUp(d)
                                       \/ DocumentLedger!File(d)
  BY DEF DocumentLedger!ledgerVars, DocumentLedger!LedgerNext
<1>1. ASSUME NEW in \in Candidates, StageItem(in)
      PROVE  UNCHANGED <<Consented, Settled>>
  <2>1. InitialStatus(in) \notin {"approved", "uploaded", "already_in_portal"}
    BY DEF InitialStatus
  <2>2. ASSUME NEW P \in SUBSET {"approved", "uploaded", "already_in_portal"}
        PROVE  DocsIn(P)' = DocsIn(P)
    <3>1. \A x : x \in DocsIn(P) <=> \E k \in Ids : status[k] \in P /\ row[k].sha = x
      BY DEF DocsIn
    <3>2. \A x : x \in DocsIn(P)' <=> \E k \in Ids' : status'[k] \in P /\ row'[k].sha = x
      BY DEF DocsIn
    <3>3. \A k \in Ids' : k \in Ids \/ status'[k] \notin P
      BY <1>1, <2>1, StageItemEffect
    <3>4. \A k \in Ids : k \in Ids' /\ row'[k] = row[k] /\ status'[k] = status[k]
      BY <1>1, StageItemEffect
    <3>5. \A x : x \in DocsIn(P)' <=> x \in DocsIn(P)
      BY <3>1, <3>2, <3>3, <3>4
    <3> QED  BY <3>5
  <2> QED  BY <2>2 DEF Consented, Settled
<1>2. ASSUME NEW i \in Ids, Lifecycle(i)
      PROVE  \/ UNCHANGED <<Consented, Settled>>
             \/ \E d \in Shas : \/ DocumentLedger!Consent(d)
                                \/ DocumentLedger!Deliver(d)
                                \/ DocumentLedger!GiveUp(d)
                                \/ DocumentLedger!File(d)
  <2>1. PICK to \in Status, actor \in Actor : Move(i, to, actor)
    BY <1>2, LifecycleIsMove
  <2>2. row[i].sha \in Shas
    BY RowFields
  <2>3. <<status[i], to>> \in AllowedTransitions
    BY <2>1, MoveEffect
  <2>4. ASSUME status[i] = "staged"
        PROVE  row[i].sha \notin Consented \cup Settled
    BY <2>4 DEF Consented, Settled, DocsIn, OneActivePerSha, Active, ActiveDedupStatuses
  <2>5. ASSUME status[i] = "approved"
        PROVE  /\ row[i].sha \in Consented
               /\ row[i].sha \notin Settled
               /\ \A k \in Ids : status[k] \in {"approved"} /\ row[k].sha = row[i].sha => k = i
    BY <2>5 DEF Consented, Settled, DocsIn, OneActivePerSha, Active, ActiveDedupStatuses
  <2>6. /\ to = "approved" => Consented' = Consented \cup {row[i].sha}
        /\ status[i] # "approved" /\ to # "approved" => Consented' = Consented
        /\ status[i] = "approved" /\ to # "approved" => Consented' = Consented \ {row[i].sha}
    <3> DEFINE P == {"approved"}
    <3>1. /\ to \in P => DocsIn(P)' = DocsIn(P) \cup {row[i].sha}
          /\ to \notin P /\ status[i] \notin P => DocsIn(P)' = DocsIn(P)
          /\ /\ to \notin P
             /\ \A k \in Ids : status[k] \in P /\ row[k].sha = row[i].sha => k = i
             => DocsIn(P)' = DocsIn(P) \ {row[i].sha}
      <4> HIDE DEF P
      <4> QED  BY <2>1, MoveChangesOneDocument
    <3> QED  BY <2>5, <3>1 DEF Consented
  <2>7. LET P == {"uploaded", "already_in_portal"} IN
        /\ to \in P => Settled' = Settled \cup {row[i].sha}
        /\ to \notin P => Settled' = Settled
    <3> DEFINE P == {"uploaded", "already_in_portal"}
    <3>1. /\ to \in P => DocsIn(P)' = DocsIn(P) \cup {row[i].sha}
          /\ to \notin P /\ status[i] \notin P => DocsIn(P)' = DocsIn(P)
      <4> HIDE DEF P
      <4> QED  BY <2>1, MoveChangesOneDocument
    <3>2. status[i] \notin P
      BY <2>3 DEF AllowedTransitions
    <3> QED  BY <3>1, <3>2 DEF Settled
  <2>8. CASE status[i] = "staged" /\ to = "approved"
    BY <2>2, <2>4, <2>6, <2>7, <2>8 DEF DocumentLedger!Consent
  <2>9. CASE status[i] = "staged" /\ to = "already_in_portal"
    BY <2>2, <2>4, <2>6, <2>7, <2>9 DEF DocumentLedger!File
  <2>10. CASE status[i] = "approved" /\ to = "uploaded"
    BY <2>2, <2>5, <2>6, <2>7, <2>10 DEF DocumentLedger!Deliver
  <2>11. CASE status[i] = "approved" /\ to = "failed"
    BY <2>2, <2>5, <2>6, <2>7, <2>11 DEF DocumentLedger!GiveUp
  <2>12. CASE status[i] # "approved" /\ to \in {"rejected", "staged"}
    BY <2>6, <2>7, <2>12
  <2> QED
    BY <2>3, <2>8, <2>9, <2>10, <2>11, <2>12 DEF AllowedTransitions
<1>3. CASE UNCHANGED vars
  BY <1>3 DEF vars, Consented, Settled, DocsIn, Ids
<1> QED  BY <1>1, <1>2, <1>3 DEF Next

(* The queue implements the ledger: consent is given for a document's bytes *)
(* at most once at a time, a delivery or a terminal failure uses it up, and *)
(* bytes the portal holds are never consented to or delivered again.        *)
THEOREM QueueImplementsLedger == Spec => ImplementsLedger
<1>1. Init => DocumentLedger!LedgerInit
  BY DEF Init, DocumentLedger!LedgerInit, Consented, Settled, DocsIn, Ids
<1>2. Spec => [](TypeOK /\ OneActivePerSha)
  BY TypeCorrect, ActiveBytesUnique, PTL
<1> QED
  BY <1>1, <1>2, NextRefinesLedger, PTL DEF Spec, ImplementsLedger, DocumentLedger!LedgerSpec
-----------------------------------------------------------------------------
(* Rejection memory. *)

LEMMA NextRejectionRemembered ==
  TypeOK /\ OneActivePerSha /\ RejectionIsRemembered /\ [Next]_vars
    => RejectionIsRemembered'
<1> SUFFICES ASSUME TypeOK, OneActivePerSha, RejectionIsRemembered, [Next]_vars
             PROVE  RejectionIsRemembered'
  OBVIOUS
<1>1. ASSUME NEW in \in Candidates, StageItem(in)
      PROVE  RejectionIsRemembered'
  <2> DEFINE n == Len(row) + 1
  <2>1. status'[n] = InitialStatus(in) /\ row'[n].msg = in.msg /\ row'[n].sha = in.sha
    BY <1>1, StageItemEffect, StagedRowType
  <2>2. status'[n] # "rejected"
    BY <2>1 DEF InitialStatus
  <2>3. \A i \in Ids : ~(row[i].msg = in.msg /\ row[i].sha = in.sha /\ status[i] = "rejected")
    BY <1>1 DEF StageItem, Rejected
  <2>4. log \subseteq log'
    BY <1>1 DEF StageItem
  <2> QED
    BY <1>1, <2>1, <2>2, <2>3, <2>4, StageItemEffect
       DEF RejectionIsRemembered, Entries, Active
<1>2. ASSUME NEW k \in Ids, Lifecycle(k)
      PROVE  RejectionIsRemembered'
  <2>1. PICK to \in Status, actor \in Actor :
          /\ Move(k, to, actor)
          /\ actor = IF to \in {"uploaded", "failed"} THEN "daemon" ELSE "human"
    BY <1>2, LifecycleIsMove
  <2>2. log' = log \cup {LogRow(k, status[k], to, actor)}
    BY <2>1 DEF Move
  <2>3. <<status[k], to>> \in AllowedTransitions
    BY <2>1, MoveEffect
  <2> SUFFICES ASSUME NEW i \in Ids, NEW j \in Ids, status'[i] = "rejected",
                      row[i].msg = row[j].msg, row[i].sha = row[j].sha,
                      status'[j] \in ActiveDedupStatuses
               PROVE  LogRow(j, "suppressed_peppol", "staged", "human") \in log'
    BY <2>1, MoveEffect DEF RejectionIsRemembered, Entries, Active
  <2>4. CASE i = k
    <3>1. status[i] = "staged" /\ i # j /\ status[j] = status'[j]
      BY <2>1, <2>3, <2>4, MoveEffect DEF AllowedTransitions, ActiveDedupStatuses
    <3> QED  BY <3>1 DEF OneActivePerSha, Active, ActiveDedupStatuses
  <2>5. CASE i # k /\ j = k
    <3>1. status[i] = "rejected"
      BY <2>1, <2>5, MoveEffect
    <3>2. CASE Active(j)
      BY <2>2, <3>1, <3>2 DEF RejectionIsRemembered, Entries
    <3>3. CASE ~Active(j)
      <4>1. status[j] = "suppressed_peppol" /\ to = "staged" /\ actor = "human"
        BY <2>1, <2>3, <2>5, <3>3, MoveEffect
           DEF AllowedTransitions, Active, ActiveDedupStatuses
      <4> QED  BY <2>2, <2>5, <4>1
    <3> QED  BY <3>2, <3>3
  <2>6. CASE i # k /\ j # k
    <3>1. status[i] = "rejected" /\ Active(j)
      BY <2>1, <2>6, MoveEffect DEF Active
    <3> QED  BY <2>2, <3>1 DEF RejectionIsRemembered, Entries
  <2> QED  BY <2>4, <2>5, <2>6
<1>3. CASE UNCHANGED vars
  BY <1>3 DEF vars, RejectionIsRemembered, Entries, Active, Ids
<1> QED  BY <1>1, <1>2, <1>3 DEF Next

(* What a human rejected for a message comes before nobody again for that   *)
(* message, unless a human overrides another row's Peppol suppression.      *)
THEOREM RejectionsStand == Spec => []RejectionIsRemembered
<1>1. Init => RejectionIsRemembered
  BY DEF Init, RejectionIsRemembered, Ids
<1>2. Spec => [](TypeOK /\ OneActivePerSha)
  BY TypeCorrect, ActiveBytesUnique, PTL
<1> QED  BY <1>1, <1>2, NextRejectionRemembered, PTL DEF Spec
-----------------------------------------------------------------------------
(* Review. *)

(* NothingPassesUnreviewed with what makes it inductive: the log speaks     *)
(* only of existing items, the daemon approves nothing, and an item born    *)
(* suppressed that is no longer suppressed was overridden, whatever its     *)
(* status is now.                                                           *)
ReviewHistory ==
  /\ \A e \in log : e.id \in Ids
  /\ \A e \in log : e.to = "approved" => e.actor = "human"
  /\ \A i \in Ids :
       /\ status[i] \in {"approved", "uploaded", "failed"} =>
            Entries(i, "staged", "approved", "human")
       /\ Entries(i, NULL, "suppressed_peppol", "daemon") =>
            \/ status[i] = "suppressed_peppol"
            \/ Entries(i, "suppressed_peppol", "staged", "human")

LEMMA NextReviewHistory == TypeOK /\ ReviewHistory /\ [Next]_vars => ReviewHistory'
<1> SUFFICES ASSUME TypeOK, ReviewHistory, [Next]_vars
             PROVE  ReviewHistory'
  OBVIOUS
<1> USE QueueAssumption
<1>1. ASSUME NEW in \in Candidates, StageItem(in)
      PROVE  ReviewHistory'
  <2> DEFINE n == Len(row) + 1
             birth == LogRow(n, NULL, InitialStatus(in), "daemon")
  <2>1. log' = log \cup {birth} /\ birth.id = n /\ birth.to # "approved"
    BY <1>1 DEF StageItem, LogRow, InitialStatus
  <2>2. Ids' = Ids \cup {n} /\ n \notin Ids
    BY <1>1, StageItemEffect
  <2>3. \A e \in log' : e.id \in Ids' /\ (e.to = "approved" => e.actor = "human")
    BY <2>1, <2>2 DEF ReviewHistory
  <2>4. ASSUME NEW i \in Ids
        PROVE  /\ status'[i] \in {"approved", "uploaded", "failed"} =>
                    LogRow(i, "staged", "approved", "human") \in log'
               /\ LogRow(i, NULL, "suppressed_peppol", "daemon") \in log' =>
                    \/ status'[i] = "suppressed_peppol"
                    \/ LogRow(i, "suppressed_peppol", "staged", "human") \in log'
    <3>1. status'[i] = status[i]
      BY <1>1, StageItemEffect
    <3>2. LogRow(i, NULL, "suppressed_peppol", "daemon") # birth
      BY <2>2 DEF LogRow
    <3> QED  BY <2>1, <3>1, <3>2 DEF ReviewHistory, Entries
  <2>5. /\ status'[n] \notin {"approved", "uploaded", "failed"}
        /\ LogRow(n, NULL, "suppressed_peppol", "daemon") \in log' =>
             status'[n] = "suppressed_peppol"
    <3>1. status'[n] = InitialStatus(in)
      BY <1>1, StageItemEffect
    <3>2. LogRow(n, NULL, "suppressed_peppol", "daemon") \notin log
      BY <2>2 DEF LogRow, ReviewHistory
    <3> QED  BY <2>1, <3>1, <3>2 DEF InitialStatus, LogRow
  <2> QED  BY <2>2, <2>3, <2>4, <2>5 DEF ReviewHistory, Entries
<1>2. ASSUME NEW k \in Ids, Lifecycle(k)
      PROVE  ReviewHistory'
  <2>1. PICK to \in Status, actor \in Actor :
          /\ Move(k, to, actor)
          /\ actor = IF to \in {"uploaded", "failed"} THEN "daemon" ELSE "human"
    BY <1>2, LifecycleIsMove
  <2> DEFINE entry == LogRow(k, status[k], to, actor)
  <2>2. log' = log \cup {entry} /\ entry.id = k /\ entry.to = to /\ entry.actor = actor
    BY <2>1 DEF Move, LogRow
  <2>3. <<status[k], to>> \in AllowedTransitions /\ status'[k] = to
    BY <2>1, MoveEffect
  <2>4. \A e \in log' : e.id \in Ids /\ (e.to = "approved" => e.actor = "human")
    BY <2>1, <2>2 DEF ReviewHistory
  <2>5. \A i : LogRow(i, NULL, "suppressed_peppol", "daemon") # entry
    BY <2>3 DEF LogRow, AllowedTransitions, Status
  <2>6. ASSUME NEW i \in Ids
        PROVE  /\ status'[i] \in {"approved", "uploaded", "failed"} =>
                    LogRow(i, "staged", "approved", "human") \in log'
               /\ LogRow(i, NULL, "suppressed_peppol", "daemon") \in log' =>
                    \/ status'[i] = "suppressed_peppol"
                    \/ LogRow(i, "suppressed_peppol", "staged", "human") \in log'
    <3>1. CASE i # k
      BY <2>1, <2>2, <2>5, <3>1, MoveEffect DEF ReviewHistory, Entries
    <3>2. CASE i = k
      <4>1. to \in {"approved", "uploaded", "failed"} =>
              LogRow(k, "staged", "approved", "human") \in log'
        BY <2>1, <2>2, <2>3 DEF AllowedTransitions, ReviewHistory, Entries
      <4>2. LogRow(k, NULL, "suppressed_peppol", "daemon") \in log' =>
              \/ to = "suppressed_peppol"
              \/ LogRow(k, "suppressed_peppol", "staged", "human") \in log'
        BY <2>1, <2>2, <2>3, <2>5 DEF AllowedTransitions, ReviewHistory, Entries
      <4> QED  BY <2>3, <3>2, <4>1, <4>2
    <3> QED  BY <3>1, <3>2
  <2> QED  BY <2>1, <2>4, <2>6, MoveEffect DEF ReviewHistory, Entries
<1>3. CASE UNCHANGED vars
  BY <1>3 DEF vars, ReviewHistory, Entries, Ids
<1> QED  BY <1>1, <1>2, <1>3 DEF Next

(* An item that needs manual handling stays out of the statuses past        *)
(* review: only the handlers know the bar, so every way in has to keep it.  *)
ManualStaysOut ==
  \A i \in Ids : status[i] \in {"approved", "uploaded", "failed"} => ~row[i].manual

LEMMA NextManualStaysOut == TypeOK /\ ManualStaysOut /\ [Next]_vars => ManualStaysOut'
<1> SUFFICES ASSUME TypeOK, ManualStaysOut, [Next]_vars
             PROVE  ManualStaysOut'
  OBVIOUS
<1>1. ASSUME NEW in \in Candidates, StageItem(in)
      PROVE  ManualStaysOut'
  <2>1. InitialStatus(in) \notin {"approved", "uploaded", "failed"}
    BY DEF InitialStatus
  <2> QED  BY <1>1, <2>1, StageItemEffect DEF ManualStaysOut
<1>2. ASSUME NEW k \in Ids, Lifecycle(k)
      PROVE  ManualStaysOut'
  <2>1. PICK to \in Status, actor \in Actor :
          Move(k, to, actor) /\ (to = "approved" => ~row[k].manual)
    BY <1>2, LifecycleIsMove
  <2>2. /\ Ids' = Ids /\ row' = row
        /\ status'[k] = to
        /\ \A j \in Ids : j # k => status'[j] = status[j]
        /\ <<status[k], to>> \in AllowedTransitions
    BY <2>1, MoveEffect
  <2>3. to \in {"uploaded", "failed"} => status[k] = "approved"
    BY <2>2 DEF AllowedTransitions
  <2> QED  BY <2>1, <2>2, <2>3 DEF ManualStaysOut
<1>3. CASE UNCHANGED vars
  BY <1>3 DEF vars, ManualStaysOut, Ids
<1> QED  BY <1>1, <1>2, <1>3 DEF Next

(* G-3: nothing is approved, uploaded or failed that a human did not        *)
(* approve, nothing suppressed gets there without a human's override, and   *)
(* nothing that needs manual handling gets there at all.                    *)
THEOREM NothingUnreviewed == Spec => []NothingPassesUnreviewed
<1>1. Init => ReviewHistory
  BY DEF Init, ReviewHistory, Ids
<1>2. ReviewHistory /\ ManualStaysOut => NothingPassesUnreviewed
  <2> SUFFICES ASSUME ReviewHistory, ManualStaysOut, NEW i \in Ids,
                      status[i] \in {"approved", "uploaded", "failed"}
               PROVE  /\ Entries(i, "staged", "approved", "human")
                      /\ ~Entries(i, "staged", "approved", "daemon")
                      /\ Entries(i, NULL, "suppressed_peppol", "daemon")
                           => Entries(i, "suppressed_peppol", "staged", "human")
                      /\ ~row[i].manual
    BY DEF NothingPassesUnreviewed
  <2>1. ~row[i].manual
    BY DEF ManualStaysOut
  <2>2. /\ Entries(i, "staged", "approved", "human")
        /\ ~Entries(i, "staged", "approved", "daemon")
        /\ Entries(i, NULL, "suppressed_peppol", "daemon")
             => Entries(i, "suppressed_peppol", "staged", "human")
    BY DEF ReviewHistory, Entries, LogRow
  <2> QED  BY <2>1, <2>2
<1>3. Init => ManualStaysOut
  BY DEF Init, ManualStaysOut, Ids
<1> QED
  BY <1>1, <1>2, <1>3, TypeCorrect, NextReviewHistory, NextManualStaysOut, PTL DEF Spec
-----------------------------------------------------------------------------
(* Links. *)

(* Where the row StageItem is about to insert points.                       *)
LEMMA StagedRowLinks ==
  ASSUME TypeOK, NEW in \in Candidates
  PROVE  LET r == StagedRow(in) IN
         /\ r.layer = NULL <=> r.linked = NoLink
         /\ InitialStatus(in) = "duplicate_linked" <=> r.layer = "L2"
         /\ r.linked # NoLink =>
              /\ r.linked \in Ids
              /\ Active(r.linked)
              /\ IF r.layer = "L2" THEN row[r.linked].sha = r.sha
                                  ELSE row[r.linked].key = r.key /\ r.key # NULL
<1> USE QueueAssumption
<1>1. SameBytes(in.sha) \in SUBSET Nat /\ SameIdentity(in.key) \in SUBSET Nat
  BY DEF SameBytes, SameIdentity, Ids, TypeOK
<1>2. SameBytes(in.sha) # {} => Oldest(SameBytes(in.sha)) \in SameBytes(in.sha)
  BY <1>1, OldestIsLeast
<1>3. SameIdentity(in.key) # {} => Oldest(SameIdentity(in.key)) \in SameIdentity(in.key)
  BY <1>1, OldestIsLeast
<1>4. 0 \notin Ids
  BY DEF Ids, TypeOK
<1>5. CASE InitialStatus(in) = "duplicate_linked"
  <2>1. SameBytes(in.sha) # {}
    BY <1>5 DEF InitialStatus
  <2>2. /\ StagedRow(in).layer = "L2" /\ StagedRow(in).sha = in.sha
        /\ StagedRow(in).linked = Oldest(SameBytes(in.sha))
    BY <1>5 DEF StagedRow
  <2> QED
    BY <1>2, <1>4, <1>5, <2>1, <2>2 DEF SameBytes, NoLink, DedupLayer
<1>6. CASE InitialStatus(in) = "staged" /\ SameIdentity(in.key) # {}
  <2>1. /\ StagedRow(in).layer = "L3" /\ StagedRow(in).key = in.key
        /\ StagedRow(in).linked = Oldest(SameIdentity(in.key))
    BY <1>6 DEF StagedRow
  <2> QED
    BY <1>3, <1>4, <1>6, <2>1 DEF SameIdentity, NoLink, DedupLayer
<1>7. CASE /\ InitialStatus(in) # "duplicate_linked"
           /\ ~(InitialStatus(in) = "staged" /\ SameIdentity(in.key) # {})
  <2>1. StagedRow(in).layer = NULL /\ StagedRow(in).linked = NoLink
    BY <1>7 DEF StagedRow, DedupLayer
  <2> QED  BY <1>7, <2>1 DEF DedupLayer
<1> QED  BY <1>5, <1>6, <1>7

LEMMA NextLinksPointBack == TypeOK /\ LinksPointBack /\ [Next]_vars => LinksPointBack'
<1> SUFFICES ASSUME TypeOK, LinksPointBack, [Next]_vars
             PROVE  LinksPointBack'
  OBVIOUS
<1>1. ASSUME NEW in \in Candidates, StageItem(in)
      PROVE  LinksPointBack'
  <2> DEFINE n == Len(row) + 1
             r == StagedRow(in)
  <2>1. /\ Ids' = Ids \cup {n} /\ n \notin Ids /\ n \in Nat
        /\ \A j \in Ids : row'[j] = row[j] /\ status'[j] = status[j] /\ j < n
        /\ row'[n] = r /\ status'[n] = InitialStatus(in)
    BY <1>1, StageItemEffect DEF Ids, TypeOK
  <2> DEFINE Fine(x, st) ==
               /\ x.layer = NULL <=> x.linked = NoLink
               /\ st = "duplicate_linked" <=> x.layer = "L2"
               /\ x.linked # NoLink =>
                    /\ x.linked \in Ids
                    /\ status[x.linked] \notin {"suppressed_peppol", "duplicate_linked"}
                    /\ IF x.layer = "L2" THEN row[x.linked].sha = x.sha
                                        ELSE row[x.linked].key = x.key /\ x.key # NULL
  <2>2. Fine(r, InitialStatus(in))
    BY StagedRowLinks DEF Active, ActiveDedupStatuses
  <2>3. ASSUME NEW i \in Ids
        PROVE  Fine(row[i], status[i]) /\ (row[i].linked # NoLink => row[i].linked < i)
    <3>1. row[i].linked \in Nat
      BY RowFields
    <3> QED  BY <3>1 DEF LinksPointBack, Ids, NoLink, TypeOK
  <2> QED  BY <2>1, <2>2, <2>3 DEF LinksPointBack
<1>2. ASSUME NEW k \in Ids, Lifecycle(k)
      PROVE  LinksPointBack'
  <2>1. PICK to \in Status, actor \in Actor : Move(k, to, actor)
    BY <1>2, LifecycleIsMove
  <2>2. /\ status[k] # "duplicate_linked"
        /\ to \notin {"suppressed_peppol", "duplicate_linked"}
    BY <2>1, MoveEffect DEF AllowedTransitions
  <2>3. \A i \in Ids : row[i].linked # NoLink => row[i].linked \in Ids
    <3> SUFFICES ASSUME NEW i \in Ids, row[i].linked # NoLink
                 PROVE  row[i].linked \in Ids
      OBVIOUS
    <3>1. row[i].linked \in Nat
      BY RowFields
    <3> QED  BY <3>1 DEF LinksPointBack, Ids, NoLink, TypeOK
  <2>4. /\ Ids' = Ids /\ row' = row
        /\ \A j \in Ids : \/ status'[j] = status[j]
                          \/ /\ status[j] # "duplicate_linked"
                             /\ status'[j] \notin {"suppressed_peppol", "duplicate_linked"}
    BY <2>1, <2>2, MoveEffect
  <2> QED  BY <2>3, <2>4 DEF LinksPointBack
<1>3. CASE UNCHANGED vars
  BY <1>3 DEF vars, LinksPointBack, Ids
<1> QED  BY <1>1, <1>2, <1>3 DEF Next

(* A link never dangles, never points forward and never at a copy or a      *)
(* suppressed item: the human who sees the badge can look at the original.  *)
THEOREM LinksAreSound == Spec => []LinksPointBack
<1>1. Init => LinksPointBack
  BY DEF Init, LinksPointBack, Ids
<1> QED  BY <1>1, TypeCorrect, NextLinksPointBack, PTL DEF Spec
-----------------------------------------------------------------------------
(* Vendor teaching. *)

LEMMA NextTeachingIsEarned ==
  TypeOK /\ TeachingIsEarned /\ [Next]_vars => TeachingIsEarned'
<1> SUFFICES ASSUME TypeOK, TeachingIsEarned, [Next]_vars
             PROVE  TeachingIsEarned'
  OBVIOUS
<1>1. ASSUME NEW in \in Candidates, StageItem(in)
      PROVE  TeachingIsEarned'
  <2> DEFINE n == Len(row) + 1
  <2>1. /\ Ids' = Ids \cup {n} /\ n \notin Ids /\ n \in Nat
        /\ \A j \in Ids : row'[j] = row[j] /\ status'[j] = status[j]
        /\ row'[n] = StagedRow(in) /\ status'[n] # "already_in_portal"
        /\ teaching' = teaching
    BY <1>1, StageItemEffect DEF StageItem, InitialStatus
  <2> HIDE DEF n
  <2>2. Filed' = Filed
    BY <2>1 DEF Filed
  <2>3. \A j \in Filed : j \in Ids /\ KeysTaught(j)' = KeysTaught(j)
    BY <2>1 DEF Filed, KeysTaught
  <2>4. ASSUME NEW i \in Ids', row'[i].handled
        PROVE  \E j \in Filed' : j < i /\ VendorOf[row'[i].msg] \in KeysTaught(j)'
    <3>1. CASE i \in Ids
      <4>1. row[i].handled /\ row'[i] = row[i]
        BY <2>1, <2>4, <3>1
      <4> QED  BY <2>2, <2>3, <3>1, <4>1 DEF TeachingIsEarned
    <3>2. CASE i = n
      <4>1. VendorOf[in.msg] \in teaching /\ row'[n].msg = in.msg
        <5>1. StagedRow(in).handled => VendorOf[in.msg] \in teaching
          BY DEF StagedRow
        <5> QED  BY <2>1, <2>4, <3>2, <5>1, StagedRowType
      <4>2. PICK j \in Filed : VendorOf[in.msg] \in KeysTaught(j)
        BY <4>1 DEF TeachingIsEarned
      <4>3. j < n
        BY DEF n, Filed, Ids, TypeOK
      <4> QED  BY <2>2, <2>3, <3>2, <4>1, <4>2, <4>3
    <3> QED  BY <2>1, <3>1, <3>2
  <2>5. /\ \A j \in Filed' : KeysTaught(j)' \cap teaching' # {}
        /\ \A key \in teaching' : \E j \in Filed' : key \in KeysTaught(j)'
    BY <2>1, <2>2, <2>3 DEF TeachingIsEarned
  <2> QED  BY <2>4, <2>5 DEF TeachingIsEarned
<1>2. ASSUME NEW k \in Ids, Lifecycle(k)
      PROVE  TeachingIsEarned'
  <2>1. PICK to \in Status, actor \in Actor : Move(k, to, actor)
    BY <1>2, LifecycleIsMove
  <2>2. /\ Ids' = Ids /\ row' = row /\ status'[k] = to
        /\ \A j \in Ids : j # k => status'[j] = status[j]
        /\ status[k] # "already_in_portal"
    BY <2>1, MoveEffect DEF AllowedTransitions
  <2>3. \A j : KeysTaught(j)' = KeysTaught(j)
    BY <2>2 DEF KeysTaught
  <2>4. Filed \subseteq Filed' /\ Filed' \subseteq Filed \cup {k}
    BY <2>2 DEF Filed
  <2>5. \A i \in Ids' : row'[i].handled =>
          \E j \in Filed' : j < i /\ VendorOf[row'[i].msg] \in KeysTaught(j)'
    BY <2>2, <2>3, <2>4 DEF TeachingIsEarned
  <2>6. CASE MarkAlreadyInPortalWithTeaching(k)
    <3>1. k \in Filed'
      <4>1. Move(k, "already_in_portal", "human")
        BY <2>6 DEF MarkAlreadyInPortalWithTeaching
      <4> QED  BY <4>1, MoveEffect DEF Status, Actor, Filed
    <3>2. PICK key \in KeysTaught(k) : teaching' = teaching \cup {key}
      BY <2>6 DEF MarkAlreadyInPortalWithTeaching
    <3>3. \A j \in Filed' : KeysTaught(j)' \cap teaching' # {}
      BY <2>3, <2>4, <3>2 DEF TeachingIsEarned
    <3>4. \A taught \in teaching' : \E j \in Filed' : taught \in KeysTaught(j)'
      BY <2>3, <2>4, <3>1, <3>2 DEF TeachingIsEarned
    <3> QED  BY <2>5, <3>3, <3>4 DEF TeachingIsEarned
  <2>7. CASE ~MarkAlreadyInPortalWithTeaching(k)
    <3>1. PICK st \in Status \ {"already_in_portal"}, who \in Actor :
            Move(k, st, who) /\ teaching' = teaching
      BY <1>2, <2>7 DEF Lifecycle, Review, Outcome, HandleApprove, Approve, Reject, OverridePeppolSuppression,
                        MarkUploaded, MarkFailed, Status, Actor
    <3>2. status'[k] # "already_in_portal"
      BY <3>1, MoveEffect
    <3>3. Filed' = Filed
      BY <2>4, <3>2 DEF Filed
    <3>4. /\ \A j \in Filed' : KeysTaught(j)' \cap teaching' # {}
          /\ \A key \in teaching' : \E j \in Filed' : key \in KeysTaught(j)'
      BY <2>3, <3>1, <3>3 DEF TeachingIsEarned
    <3> QED  BY <2>5, <3>4 DEF TeachingIsEarned
  <2> QED  BY <2>6, <2>7
<1>3. CASE UNCHANGED vars
  <2>1. Ids' = Ids /\ Filed' = Filed /\ \A j : KeysTaught(j)' = KeysTaught(j)
    BY <1>3 DEF vars, Ids, Filed, KeysTaught
  <2> QED  BY <1>3, <2>1 DEF vars, TeachingIsEarned
<1> QED  BY <1>1, <1>2, <1>3 DEF Next

(* AC-13: every mark of an item as already in the portal teaches one key of *)
(* that item, nothing else is taught, and the badge follows only such a     *)
(* mark: whatever the two ways of reading a sender's domain make of the     *)
(* headers, and also where the message of the item could not be loaded.     *)
THEOREM TeachingCorrect == Spec => []TeachingIsEarned
<1>1. Init => TeachingIsEarned
  BY DEF Init, TeachingIsEarned, Filed, Ids
<1> QED  BY <1>1, TypeCorrect, NextTeachingIsEarned, PTL DEF Spec
-----------------------------------------------------------------------------
(* The transition log. *)

(* The lifecycle only moves on: how far along a status is.                  *)
Progress(st) ==
  IF st = "suppressed_peppol" THEN 0
  ELSE IF st = "staged" THEN 1
  ELSE IF st = "approved" THEN 2
  ELSE 3

(* LogTellsTheStory with what makes it inductive: whatever status an item   *)
(* has left lies behind the one it has now, so it never comes back to a     *)
(* status that the log says it left.                                        *)
LogMovesOn ==
  \A e \in log : /\ e.id \in Ids
                 /\ e.from # NULL => Progress(e.from) < Progress(status[e.id])

Story(i) == {e \in log : e.id = i}

(* What LogTellsTheStory says of one item's entries and its status.         *)
Told(story, st) ==
  /\ \E birth \in story : {e \in story : e.from = NULL} = {birth}
  /\ \A e \in story : e.to = st \/ \E f \in story : f.from = e.to
  /\ \A e \in story : e.from = NULL \/ \E f \in story : f.to = e.from
  /\ \E e \in story : e.to = st
  /\ \A e \in story : e.from # st

(* An edge of the F-41 graph leads on.                                      *)
LEMMA EdgesLeadOn ==
  ASSUME NEW st \in Status, NEW to \in Status, <<st, to>> \in AllowedTransitions
  PROVE  Progress(st) < Progress(to) /\ Progress(st) \in Nat /\ Progress(to) \in Nat
BY DEF AllowedTransitions, Progress

(* The story of an item that was just inserted is told by its birth.        *)
LEMMA BirthIsTold ==
  ASSUME NEW n, NEW st \in Status, NEW actor
  PROVE  Told({LogRow(n, NULL, st, actor)}, st)
BY QueueAssumption DEF Told, LogRow

(* A move's entry continues the story.                                      *)
LEMMA MoveIsTold ==
  ASSUME NEW story, NEW st \in Status, NEW to \in Status, NEW entry,
         Told(story, st), <<st, to>> \in AllowedTransitions,
         entry.from = st, entry.to = to,
         \A e \in story : e.from = NULL \/ (e.from \in Status /\ Progress(e.from) < Progress(st))
  PROVE  Told(story \cup {entry}, to)
<1> USE QueueAssumption
<1>1. \A e \in story : e.from # to
  <2> SUFFICES ASSUME NEW e \in story, e.from = to
               PROVE  FALSE
    OBVIOUS
  <2>1. e.from # NULL
    OBVIOUS
  <2>2. Progress(to) < Progress(st)
    BY <2>1
  <2> QED  BY <2>2, EdgesLeadOn
<1>2. st # to
  BY EdgesLeadOn
<1>3. {e \in story \cup {entry} : e.from = NULL} = {e \in story : e.from = NULL}
  OBVIOUS
<1>4. \E birth \in story \cup {entry} : {e \in story \cup {entry} : e.from = NULL} = {birth}
  BY <1>3 DEF Told
<1>5. \A e \in story \cup {entry} : e.to = to \/ \E f \in story \cup {entry} : f.from = e.to
  BY DEF Told
<1>6. \A e \in story \cup {entry} : e.from = NULL \/ \E f \in story \cup {entry} : f.to = e.from
  BY DEF Told
<1> QED  BY <1>1, <1>2, <1>4, <1>5, <1>6 DEF Told

LEMMA NextLogTold ==
  TypeOK /\ LogMovesOn /\ LogTellsTheStory /\ [Next]_vars => LogMovesOn' /\ LogTellsTheStory'
<1> SUFFICES ASSUME TypeOK, LogMovesOn, LogTellsTheStory, [Next]_vars
             PROVE  LogMovesOn' /\ LogTellsTheStory'
  OBVIOUS
<1> USE QueueAssumption
<1>1. \A i \in Ids : Told(Story(i), status[i])
  BY DEF LogTellsTheStory, Told, Story
<1>2. ASSUME \A i \in Ids' : Told({e \in log' : e.id = i}, status'[i])
      PROVE  LogTellsTheStory'
  BY <1>2 DEF LogTellsTheStory, Told
<1>3. ASSUME NEW in \in Candidates, StageItem(in)
      PROVE  LogMovesOn' /\ LogTellsTheStory'
  <2> DEFINE n == Len(row) + 1
             birth == LogRow(n, NULL, InitialStatus(in), "daemon")
  <2>1. log' = log \cup {birth} /\ birth.id = n /\ birth.from = NULL
    BY <1>3 DEF StageItem, LogRow
  <2>2. /\ Ids' = Ids \cup {n} /\ n \notin Ids
        /\ status'[n] = InitialStatus(in) /\ \A j \in Ids : status'[j] = status[j]
    BY <1>3, StageItemEffect
  <2>3. LogMovesOn'
    BY <2>1, <2>2 DEF LogMovesOn
  <2>4. ASSUME NEW i \in Ids'
        PROVE  Told({e \in log' : e.id = i}, status'[i])
    <3>1. CASE i = n
      <4>1. {e \in log' : e.id = i} = {birth}
        BY <2>1, <2>2, <3>1 DEF LogMovesOn
      <4>2. Told({birth}, InitialStatus(in))
        BY StagedRowType, BirthIsTold
      <4> QED  BY <2>2, <3>1, <4>1, <4>2
    <3>2. CASE i # n
      <4>1. {e \in log' : e.id = i} = Story(i)
        BY <2>1, <3>2 DEF Story
      <4> QED  BY <1>1, <2>2, <3>2, <4>1
    <3> QED  BY <3>1, <3>2
  <2> QED  BY <1>2, <2>3, <2>4
<1>4. ASSUME NEW k \in Ids, Lifecycle(k)
      PROVE  LogMovesOn' /\ LogTellsTheStory'
  <2>1. PICK to \in Status, actor \in Actor : Move(k, to, actor)
    BY <1>4, LifecycleIsMove
  <2> DEFINE entry == LogRow(k, status[k], to, actor)
  <2>2. /\ log' = log \cup {entry}
        /\ entry.id = k /\ entry.from = status[k] /\ entry.to = to
    BY <2>1 DEF Move, LogRow
  <2>3. /\ Ids' = Ids /\ status'[k] = to /\ \A j \in Ids : j # k => status'[j] = status[j]
        /\ <<status[k], to>> \in AllowedTransitions
    BY <2>1, MoveEffect
  <2>4. status[k] \in Status
    BY DEF TypeOK, Ids
  <2>5. Progress(status[k]) < Progress(to) /\ Progress(status[k]) \in Nat /\ Progress(to) \in Nat
    BY <2>3, <2>4, EdgesLeadOn
  <2>6. \A e \in log : e.from = NULL \/ (e.from \in Status /\ Progress(e.from) \in Nat)
    BY DEF TypeOK, Transition, Progress
  <2>7. ASSUME NEW e \in log'
        PROVE  e.id \in Ids' /\ (e.from # NULL => Progress(e.from) < Progress(status'[e.id]))
    <3>1. CASE e = entry
      BY <2>2, <2>3, <2>5, <3>1
    <3>2. CASE e \in log /\ e.id # k
      BY <2>3, <3>2 DEF LogMovesOn
    <3>3. CASE e \in log /\ e.id = k
      BY <2>3, <2>5, <2>6, <3>3 DEF LogMovesOn
    <3> QED  BY <2>2, <3>1, <3>2, <3>3
  <2>8. LogMovesOn'
    BY <2>7 DEF LogMovesOn
  <2>9. ASSUME NEW i \in Ids'
        PROVE  Told({e \in log' : e.id = i}, status'[i])
    <3>1. CASE i = k
      <4>1. {e \in log' : e.id = i} = Story(k) \cup {entry}
        BY <2>2, <3>1 DEF Story
      <4>2. \A e \in Story(k) :
              e.from = NULL \/ (e.from \in Status /\ Progress(e.from) < Progress(status[k]))
        BY <2>6 DEF Story, LogMovesOn
      <4>3. Told(Story(k) \cup {entry}, to)
        BY <1>1, <2>2, <2>3, <2>4, <4>2, MoveIsTold
      <4> QED  BY <2>3, <3>1, <4>1, <4>3
    <3>2. CASE i # k
      <4>1. {e \in log' : e.id = i} = Story(i)
        BY <2>2, <3>2 DEF Story
      <4> QED  BY <1>1, <2>3, <3>2, <4>1
    <3> QED  BY <3>1, <3>2
  <2> QED  BY <1>2, <2>8, <2>9
<1>5. CASE UNCHANGED vars
  BY <1>5 DEF vars, LogMovesOn, LogTellsTheStory, Ids
<1> QED  BY <1>3, <1>4, <1>5 DEF Next

(* item_transition is a faithful history: one birth, an unbroken chain of   *)
(* moves that ends in the present status and never returns to one it left.  *)
THEOREM LogIsComplete == Spec => []LogTellsTheStory
<1>1. Init => LogMovesOn /\ LogTellsTheStory
  BY DEF Init, LogMovesOn, LogTellsTheStory, Ids
<1> QED  BY <1>1, TypeCorrect, NextLogTold, PTL DEF Spec
=============================================================================
