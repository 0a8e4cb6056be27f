----------------------------- MODULE IntakeProofs -----------------------------
(***************************************************************************)
(* Theorems about Intake, for any mailbox, documents, rules, budgets and   *)
(* faults: what the stored history id has passed is accounted for, a park  *)
(* is lifted only when it is resolved, and automatic retries are bounded.  *)
(***************************************************************************)
EXTENDS Intake, QueueProofs, FiniteSetTheorems

(* The mail tables: nothing is known of a message that has not arrived, and *)
(* each message has one history id.                                         *)
MailTables ==
  /\ mailbox \in Seq(Msgs) /\ IsInjective(mailbox)
  /\ gone \subseteq Arrived /\ seen \subseteq Arrived
  /\ spool \in [Shas -> {"none", "whole", "torn"}]
  /\ failures \in [Msgs -> Failure \cup {NULL}]
  /\ \A m \in Msgs : failures[m] # NULL => m \in Arrived
  /\ cursor \in 0..Len(mailbox) \cup {NULL}
  /\ asks \in Nat

(* The cycle: each id once, and a message admitted as a retry stays parked  *)
(* until its turn has come.                                                 *)
Cycle ==
  /\ phase \in {"idle", "admitting", "next", "spooled", "staging", "charging"}
  /\ todo \in Seq(Arrived) /\ IsInjective(todo)
  /\ phase \in {"spooled", "staging", "charging"} => todo # <<>>
  /\ forced \subseteq {m \in Msgs : m \in Range(todo) => Parked(m)}
  /\ listed \in 0..Len(mailbox)
  /\ phase # "idle" => upto \in {NULL, listed}
  /\ charged \in Failure \cup {NULL}
  /\ gateErr \in BOOLEAN
  /\ phase = "staging" => at \in 1..(Len(DocsOf[Current]) + 1)

(* The due retries stand in front of the others, and each still has the     *)
(* attempt that is about to be spent.                                       *)
Admission ==
  phase = "admitting" =>
    /\ Cardinality(forced) \in Nat /\ Cardinality(forced) <= Len(todo)
    /\ at \in 1..Cardinality(forced)
    /\ \A k \in at..Cardinality(forced) : Parked(todo[k]) /\ failures[todo[k]].retry = "due"

(* A message that is waiting or due has an attempt left.                    *)
Covered(f) ==
  f # NULL =>
    /\ f.tries <= ParkRetryAttempts + asks
    /\ f.retry # "none" => f.tries < ParkRetryAttempts + asks

Attempts == Covered(charged) /\ \A m \in Msgs : Covered(failures[m])

(* Nobody has to look at m again.                                           *)
Resolved(m) == m \in gone \cup torn \/ Accounted(m)

InQueue(m, d) == d \in Refused \/ \E i \in Ids : row[i].msg = m /\ row[i].sha = d.sha

(* A recorded message is accounted for, unless its extraction is under way  *)
(* or was cut off: L1 may skip it.                                          *)
Recorded ==
  /\ \A m \in seen : m \in torn \/ Accounted(m) \/ (phase = "staging" /\ m = Current)
  /\ phase = "staging" => \A j \in 1..(at - 1) : InQueue(Current, DocsOf[Current][j])

(* The row that a failure has read is not older than the park.              *)
ParkKept == phase = "charging" /\ Parked(Current) => charged # NULL /\ charged.parked

(* What was listed is resolved, parked or still to do.                      *)
Listed == {mailbox[k] : k \in 1..listed}

Underway ==
  phase # "idle" => \A m \in Listed :
    m \in Range(todo) \cup slipped \cup beyond \/ Resolved(m) \/ Parked(m)

IInv ==
  /\ TypeOK
  /\ MailTables
  /\ Cycle
  /\ Admission
  /\ Attempts
  /\ Recorded
  /\ ParkKept
  /\ Underway
  /\ CursorPassesNothing
-----------------------------------------------------------------------------
(* Sequences. *)

(* An enumeration of a finite set is an injective sequence of all of it.    *)
LEMMA Enumeration ==
  ASSUME NEW S, IsFiniteSet(S), NEW t \in SetToSeqs(S)
  PROVE  t \in Seq(S) /\ IsInjective(t) /\ Range(t) = S /\ Len(t) = Cardinality(S)
<1> DEFINE n == Cardinality(S)
<1>1. n \in Nat
  BY FS_CardinalityType
<1>2. t \in [1..n -> S] /\ \A i, j \in 1..n : i # j => t[i] # t[j]
  BY DEF SetToSeqs
<1>3. t \in Seq(S) /\ Len(t) = n /\ IsInjective(t)
  BY <1>1, <1>2 DEF IsInjective
<1>4. t \in Injection(1..n, S)
  BY <1>2 DEF Injection, IsInjective
<1>5. Cardinality(1..n) = n
  BY <1>1, FS_Interval
<1>6. t \in Surjection(1..n, S)
  BY <1>4, <1>5, FS_Injection
<1> QED
  BY <1>2, <1>3, <1>6 DEF Surjection, Range

(* Two sequences with nothing in common, one behind the other.              *)
LEMMA Joining ==
  ASSUME NEW S, NEW s \in Seq(S), NEW t \in Seq(S), IsInjective(s), IsInjective(t),
         Range(s) \cap Range(t) = {}
  PROVE  s \o t \in Seq(S) /\ IsInjective(s \o t) /\ Range(s \o t) = Range(s) \cup Range(t)
<1>1. /\ s \o t \in Seq(S) /\ Len(s \o t) = Len(s) + Len(t)
      /\ \A i \in 1..(Len(s) + Len(t)) :
           (s \o t)[i] = IF i <= Len(s) THEN s[i] ELSE t[i - Len(s)]
  BY ConcatProperties
<1>2. \A i \in DOMAIN s, j \in DOMAIN t : s[i] # t[j]
  BY DEF Range
<1>3. IsInjective(s \o t)
  BY <1>1, <1>2 DEF IsInjective
<1> QED
  BY <1>1, <1>3, RangeConcatenation

(* What is left when the first element of an injective sequence is gone.    *)
LEMMA Popping ==
  ASSUME NEW S, NEW s \in Seq(S), s # <<>>, IsInjective(s)
  PROVE  /\ Head(s) \in S /\ Head(s) = s[1] /\ Head(s) \in Range(s)
         /\ Tail(s) \in Seq(S) /\ IsInjective(Tail(s))
         /\ Range(Tail(s)) = Range(s) \ {Head(s)}
<1>1. /\ Head(s) \in S /\ Head(s) = s[1] /\ 1 \in DOMAIN s
      /\ Tail(s) \in Seq(S) /\ Len(Tail(s)) = Len(s) - 1 /\ Len(s) \in Nat \ {0}
      /\ \A i \in 1..Len(Tail(s)) : Tail(s)[i] = s[i + 1]
  BY HeadTailProperties
<1>2. IsInjective(Tail(s))
  BY <1>1 DEF IsInjective
<1>3. Range(Tail(s)) \subseteq Range(s) \ {Head(s)}
  <2> SUFFICES ASSUME NEW i \in DOMAIN Tail(s) PROVE Tail(s)[i] \in Range(s) \ {Head(s)}
    BY DEF Range
  <2>1. i + 1 \in DOMAIN s /\ Tail(s)[i] = s[i + 1] /\ i + 1 # 1
    BY <1>1
  <2> QED
    BY <1>1, <2>1 DEF Range, IsInjective
<1>4. Range(s) \ {Head(s)} \subseteq Range(Tail(s))
  <2> SUFFICES ASSUME NEW i \in DOMAIN s, i # 1 PROVE s[i] \in Range(Tail(s))
    BY <1>1 DEF Range
  <2>1. i - 1 \in DOMAIN Tail(s) /\ Tail(s)[i - 1] = s[i]
    BY <1>1
  <2> QED
    BY <2>1 DEF Range
<1> QED
  BY <1>1, <1>2, <1>3, <1>4 DEF Range
-----------------------------------------------------------------------------
(* What every step keeps. *)

(* A document that is in the queue stays there.                             *)
LEMMA AccountedStays ==
  ASSUME Ids \subseteq Ids', \A i \in Ids : row'[i] = row[i]
  PROVE  /\ \A m \in Msgs : Accounted(m) => Accounted(m)'
         /\ \A m \in Msgs : \A d : InQueue(m, d) => InQueue(m, d)'
  BY DEF Accounted, InQueue

(* The documents of the message at hand.                                    *)
LEMMA DocumentsOfCurrent ==
  ASSUME MailTables, Cycle, todo # <<>>
  PROVE  /\ Current \in Arrived /\ Current \in Msgs
         /\ DocsOf[Current] \in Seq(Candidates)
         /\ \A k \in DOMAIN DocsOf[Current] :
              DocsOf[Current][k] \in Candidates /\ DocsOf[Current][k].msg = Current
<1>1. Current \in Arrived
  BY Popping DEF Cycle, Current
<1>2. Arrived \subseteq Msgs
  BY RangeOfSeq DEF MailTables, Arrived
<1>3. DocsOf[Current] \in Seq(Candidates)
  BY <1>1, <1>2, IntakeAssumption
<1> QED
  BY <1>1, <1>2, <1>3, IntakeAssumption

(* When the last document has been dealt with, the message is accounted for.*)
LEMMA AllStaged ==
  ASSUME MailTables, Cycle, Recorded, phase = "staging", at > Len(DocsOf[Current])
  PROVE  Accounted(Current)
<1>1. DocsOf[Current] \in Seq(Candidates) /\ at = Len(DocsOf[Current]) + 1
  BY DocumentsOfCurrent DEF Cycle
<1>2. \A j \in DOMAIN DocsOf[Current] : InQueue(Current, DocsOf[Current][j])
  BY <1>1 DEF Recorded
<1> QED
  BY <1>2 DEF Accounted, Docs, Range, InQueue

(* A step that takes nothing back of what has been achieved.                *)
Forward ==
  /\ \A m \in Msgs : Resolved(m) => Resolved(m)'
  /\ \A m \in Msgs : Parked(m) => Parked(m)' \/ Resolved(m)'
  /\ slipped \subseteq slipped' /\ beyond \subseteq beyond'
  /\ Len(mailbox) <= Len(mailbox') /\ \A k \in 1..Len(mailbox) : mailbox'[k] = mailbox[k]

(* A step that leaves the mail alone is one, if it lifts no park too early. *)
LEMMA ForwardQuietly ==
  ASSUME UNCHANGED <<mailbox, gone, slipped>>, beyond \subseteq beyond', mailbox \in Seq(Msgs), torn \subseteq torn',
         Ids \subseteq Ids', \A i \in Ids : row'[i] = row[i],
         \A m \in Msgs : Parked(m) => Parked(m)' \/ Resolved(m)'
  PROVE  Forward
  BY AccountedStays DEF Forward, Resolved

(* Such a step keeps G-1 as long as the cursor stays where it is ...       *)
LEMMA PassedStays ==
  ASSUME MailTables, CursorPassesNothing, Forward, cursor' = cursor
  PROVE  CursorPassesNothing'
<1>1. Passed' = Passed /\ Passed \subseteq Msgs
  BY DEF Passed, MailTables, Forward
<1> SUFFICES ASSUME NEW m \in Passed, m \notin gone' \cup beyond' \cup slipped' \cup torn'
             PROVE  Accounted(m)' \/ Parked(m)'
  BY <1>1 DEF CursorPassesNothing
<1>2. m \in gone \cup torn \cup slipped \cup beyond \/ Accounted(m) \/ Parked(m)
  BY DEF CursorPassesNothing
<1>3. Resolved(m)' \/ Parked(m)'
  BY <1>1, <1>2 DEF Forward, Resolved
<1> QED
  BY <1>3 DEF Resolved

(* ... and the promise of the cycle, if what leaves the list is dealt with. *)
LEMMA UnderwayStays ==
  ASSUME MailTables, Cycle, Underway, Forward, phase # "idle", UNCHANGED listed,
         \A m \in Range(todo) : m \in Range(todo') \/ Resolved(m)' \/ Parked(m)'
  PROVE  Underway'
<1>1. Listed' = Listed /\ Listed \subseteq Msgs
  BY DEF Listed, MailTables, Cycle, Forward
<1> SUFFICES ASSUME NEW m \in Listed
             PROVE  m \in Range(todo') \cup slipped' \cup beyond' \/ Resolved(m)' \/ Parked(m)'
  BY <1>1 DEF Underway
<1>2. m \in Range(todo) \cup slipped \cup beyond \/ Resolved(m) \/ Parked(m)
  BY DEF Underway
<1> QED
  BY <1>1, <1>2 DEF Forward
(* A park is only lifted when nobody has to look at the message again.      *)
ParkStands == \A m \in Msgs : Parked(m) /\ failures'[m] = NULL => Resolved(m)
-----------------------------------------------------------------------------
(* The steps, by what they do to the cycle. *)

(* A cycle that ends, however it ends, leaves nothing behind.               *)
LEMMA Resting ==
  ASSUME Rest
  PROVE  /\ Cycle' /\ Admission' /\ ParkKept' /\ Underway'
         /\ phase' # "staging" /\ charged' = NULL
<1>1. Range(<<>>) = {} /\ IsInjective(<<>>) /\ <<>> \in Seq(Arrived')
  BY DEF Range, IsInjective
<1>2. 0 \in 0..Len(mailbox')
  OBVIOUS
<1> QED
  BY <1>1, <1>2 DEF Rest, Cycle, Admission, ParkKept, Underway

(* Arrivals leave the past alone.                                           *)
LEMMA MailGrows ==
  ASSUME MailTables,
         mailbox' = mailbox \/ \E m \in Msgs \ Arrived : mailbox' = Append(mailbox, m)
  PROVE  /\ mailbox' \in Seq(Msgs) /\ IsInjective(mailbox') /\ Arrived \subseteq Arrived'
         /\ Len(mailbox) \in Nat /\ Len(mailbox') \in Nat /\ Len(mailbox) <= Len(mailbox')
         /\ \A k \in 1..Len(mailbox) : mailbox'[k] = mailbox[k]
<1>1. CASE mailbox' = mailbox
  BY <1>1 DEF MailTables, Arrived
<1>2. ASSUME NEW m \in Msgs \ Arrived, mailbox' = Append(mailbox, m)
      PROVE  /\ mailbox' \in Seq(Msgs) /\ IsInjective(mailbox') /\ Arrived \subseteq Arrived'
             /\ Len(mailbox) \in Nat /\ Len(mailbox') \in Nat /\ Len(mailbox) <= Len(mailbox')
             /\ \A k \in 1..Len(mailbox) : mailbox'[k] = mailbox[k]
  <2>1. /\ mailbox' \in Seq(Msgs) /\ Len(mailbox') = Len(mailbox) + 1 /\ Len(mailbox) \in Nat
        /\ \A k \in 1..Len(mailbox) : mailbox'[k] = mailbox[k]
        /\ mailbox'[Len(mailbox) + 1] = m
    BY <1>2 DEF MailTables
  <2>2. \A k \in 1..Len(mailbox) : mailbox[k] # m
    BY <1>2, <2>1 DEF Arrived, Range, MailTables
  <2>3. IsInjective(mailbox')
    BY <2>1, <2>2 DEF IsInjective, MailTables
  <2>4. Arrived \subseteq Arrived'
    BY <2>1 DEF Arrived, Range, MailTables
  <2> QED
    BY <2>1, <2>3, <2>4
<1> QED
  BY <1>1, <1>2

(* What Gmail and the human do.                                             *)
LEMMA WorldCases ==
  ASSUME World
  PROVE  \/ \E m \in Msgs : Arrive(m)
         \/ \E m \in Msgs : Vanish(m)
         \/ \E m \in Msgs : CooldownEnds(m)
         \/ \E S \in SUBSET Msgs : Retry(S)
         \/ Decide
<1>1. /\ \A m \in Msgs : {m} \in SUBSET Msgs
      /\ {m \in Msgs : Parked(m)} \in SUBSET Msgs
  OBVIOUS
<1> QED
  BY <1>1 DEF World

(* What others than the poll may do to the failure rows: they lift no park  *)
(* and spend no attempt, and only a manual retry makes a settled row due.   *)
RowsLeft ==
  /\ failures' \in [Msgs -> Failure \cup {NULL}]
  /\ asks' \in {asks, asks + 1}
  /\ \A m \in Msgs :
       /\ failures'[m] = NULL <=> failures[m] = NULL
       /\ failures[m] # NULL =>
            /\ failures'[m].parked = failures[m].parked
            /\ failures'[m].tries = failures[m].tries
            /\ \/ failures'[m].retry = failures[m].retry
               \/ failures'[m].retry = "due" /\ (failures[m].retry = "waiting" \/ asks' = asks + 1)

LEMMA WorldOnFailures ==
  ASSUME MailTables, World
  PROVE  RowsLeft
<1> USE IntakeAssumption DEF MailTables, RowsLeft
<1>1. ASSUME NEW m \in Msgs, CooldownEnds(m)
      PROVE  /\ failures' = [failures EXCEPT ![m] = [failures[m] EXCEPT !.retry = "due"]]
             /\ failures[m] \in Failure /\ failures[m].retry = "waiting" /\ asks' = asks
  BY <1>1 DEF CooldownEnds, Parked, histVars
<1>2. ASSUME NEW S \in SUBSET Msgs, Retry(S)
      PROVE  /\ failures' = [m \in Msgs |-> IF m \in S THEN [failures[m] EXCEPT !.retry = "due"]
                                            ELSE failures[m]]
             /\ \A m \in S : failures[m] \in Failure
             /\ asks' = asks + 1
  BY <1>2 DEF Retry, Parked
<1>3. ASSUME NEW f \in Failure
      PROVE  LET g == [f EXCEPT !.retry = "due"] IN
             /\ g \in Failure /\ g # NULL /\ g.retry = "due"
             /\ g.parked = f.parked /\ g.tries = f.tries
  BY <1>3 DEF Failure
<1>4. CASE \E m \in Msgs : CooldownEnds(m)
  <2>1. PICK c \in Msgs : CooldownEnds(c)
    BY <1>4
  <2> DEFINE g == [failures[c] EXCEPT !.retry = "due"]
  <2>2. /\ failures' = [failures EXCEPT ![c] = g] /\ asks' = asks
        /\ failures[c] \in Failure /\ failures[c].retry = "waiting"
    BY <2>1, <1>1
  <2>3. /\ g \in Failure /\ g # NULL /\ g.retry = "due"
        /\ g.parked = failures[c].parked /\ g.tries = failures[c].tries
    BY <2>2, <1>3
  <2> HIDE DEF g
  <2> QED
    BY <2>2, <2>3
<1>5. CASE \E S \in SUBSET Msgs : Retry(S)
  <2>1. PICK S \in SUBSET Msgs : Retry(S)
    BY <1>5
  <2>2. /\ failures' = [m \in Msgs |-> IF m \in S THEN [failures[m] EXCEPT !.retry = "due"]
                                       ELSE failures[m]]
        /\ \A m \in S : failures[m] \in Failure
        /\ asks' = asks + 1
    BY <2>1, <1>2
  <2>3. ASSUME NEW m \in Msgs
        PROVE  /\ failures'[m] \in Failure \cup {NULL}
               /\ failures'[m] = NULL <=> failures[m] = NULL
               /\ failures[m] # NULL =>
                    /\ failures'[m].parked = failures[m].parked
                    /\ failures'[m].tries = failures[m].tries
                    /\ failures'[m].retry \in {failures[m].retry, "due"}
    <3>1. CASE m \in S
      BY <2>2, <3>1, <1>3
    <3>2. CASE m \notin S
      BY <2>2, <3>2
    <3> QED
      BY <3>1, <3>2
  <2> QED
    BY <2>2, <2>3
<1>6. CASE UNCHANGED <<failures, asks>>
  BY <1>6
<1>7. CASE Decide \/ \E m \in Msgs : Arrive(m) \/ Vanish(m)
  BY <1>6, <1>7 DEF Decide, Arrive, Vanish, storeVars, histVars
<1> QED
  BY <1>4, <1>5, <1>7, WorldCases

(* What others do leaves the cycle and what it has stored alone.            *)
Aside ==
  /\ UNCHANGED pollVars /\ UNCHANGED <<seen, spool, cursor, torn, slipped, beyond>>
  /\ gone \subseteq gone' /\ gone' \subseteq Arrived'
  /\ mailbox' = mailbox \/ \E m \in Msgs \ Arrived : mailbox' = Append(mailbox, m)

(* Whatever the queue does meanwhile, the invariant stands.                 *)
LEMMA AsideStep ==
  ASSUME IInv, Aside, RowsLeft, [Next]_vars
  PROVE  IInv' /\ ParkStands
<1> USE DEF IInv
<1>1. /\ UNCHANGED pollVars /\ UNCHANGED <<seen, spool, cursor, torn, slipped, beyond>>
      /\ gone \subseteq gone' /\ gone' \subseteq Arrived'
      /\ mailbox' = mailbox \/ \E m \in Msgs \ Arrived : mailbox' = Append(mailbox, m)
  BY DEF Aside
<1>3. TypeOK' /\ Ids \subseteq Ids' /\ \A i \in Ids : row'[i] = row[i]
  BY RowsStay
<1>4. /\ mailbox' \in Seq(Msgs) /\ IsInjective(mailbox') /\ Arrived \subseteq Arrived'
      /\ Len(mailbox) \in Nat /\ Len(mailbox') \in Nat /\ Len(mailbox) <= Len(mailbox')
      /\ \A k \in 1..Len(mailbox) : mailbox'[k] = mailbox[k]
  BY <1>1, MailGrows
<1>6. \A m \in Msgs : Parked(m)' <=> Parked(m)
  BY DEF RowsLeft, Parked
<1>7. Forward
  BY <1>1, <1>3, <1>4, <1>6, AccountedStays DEF Forward, Resolved
<1>8. MailTables'
  BY <1>1, <1>4 DEF RowsLeft, MailTables
<1>9. Cycle'
  <2>1. todo' \in Seq(Arrived')
    BY <1>1, <1>4 DEF Cycle, pollVars
  <2>2. Current' = Current
    BY <1>1 DEF Current, pollVars
  <2> QED
    BY <1>1, <1>4, <1>6, <2>1, <2>2 DEF Cycle, pollVars
<1>10. Admission'
  <2> SUFFICES ASSUME phase = "admitting", NEW k \in at..Cardinality(forced)
               PROVE  Parked(todo[k])' /\ failures'[todo[k]].retry = "due"
    BY <1>1 DEF Admission, pollVars
  <2>1. k \in DOMAIN todo /\ Parked(todo[k]) /\ failures[todo[k]].retry = "due"
    BY DEF Admission, Cycle
  <2>2. todo[k] \in Msgs
    BY <2>1, RangeOfSeq DEF Cycle, Arrived, MailTables
  <2>3. todo' = todo
    BY <1>1 DEF pollVars
  <2> QED
    BY <1>6, <2>1, <2>2, <2>3 DEF RowsLeft, Parked
<1>11. Attempts'
  <2>1. Covered(charged)'
    BY <1>1, IntakeAssumption DEF RowsLeft, Attempts, Covered, pollVars, MailTables, Cycle, Failure
  <2>2. ASSUME NEW m \in Msgs PROVE Covered(failures[m])'
    <3>1. failures[m] # NULL => failures[m].tries \in Nat
      BY DEF MailTables, Failure
    <3>2. asks \in Nat /\ ParkRetryAttempts \in Nat
      BY IntakeAssumption DEF MailTables
    <3>3. Covered(failures[m])
      BY DEF Attempts
    <3> QED
      BY <3>1, <3>2, <3>3 DEF RowsLeft, Covered
  <2> QED
    BY <2>1, <2>2 DEF Attempts
<1>12. Recorded'
  <2>1. Current' = Current /\ at' = at /\ phase' = phase /\ torn' = torn /\ seen' = seen
    BY <1>1 DEF Current, pollVars
  <2>2. seen \subseteq Msgs
    BY RangeOfSeq DEF MailTables, Arrived
  <2>3. phase = "staging" => Current \in Msgs
    BY DocumentsOfCurrent DEF Cycle
  <2> QED
    BY <1>3, <2>1, <2>2, <2>3, AccountedStays DEF Recorded
<1>13. ParkKept'
  <2>1. Current' = Current /\ phase' = phase /\ charged' = charged
    BY <1>1 DEF Current, pollVars
  <2>2. phase = "charging" => Current \in Msgs
    BY DocumentsOfCurrent DEF Cycle
  <2> QED
    BY <1>6, <2>1, <2>2 DEF ParkKept
<1>14. Underway'
  BY <1>1, <1>7, UnderwayStays DEF Underway, pollVars
<1>15. CursorPassesNothing'
  BY <1>1, <1>7, PassedStays
<1> QED
  BY <1>3, <1>8, <1>9, <1>10, <1>11, <1>12, <1>13, <1>14, <1>15, <1>6 DEF ParkStands, Parked

(* Gmail and the human.                                                     *)
LEMMA WorldStep ==
  ASSUME IInv, World
  PROVE  IInv' /\ ParkStands
<1> USE DEF IInv
<1>1. Aside
  <2> USE DEF Aside
  <2>1. ASSUME NEW m \in Msgs, Arrive(m)
        PROVE  mailbox' = Append(mailbox, m) /\ m \notin Arrived /\ gone' = gone
    BY <2>1 DEF Arrive
  <2>2. CASE \E m \in Msgs : Arrive(m)
    BY <2>1, <2>2, MailGrows DEF Arrive, storeVars, histVars, MailTables
  <2>3. CASE \E m \in Msgs : Vanish(m)
    BY <2>3 DEF Vanish, storeVars, histVars, MailTables, Arrived
  <2>4. CASE Decide \/ (\E m \in Msgs : CooldownEnds(m)) \/ (\E S \in SUBSET Msgs : Retry(S))
    BY <2>4 DEF Decide, CooldownEnds, Retry, gmailVars, storeVars, histVars, MailTables, Arrived
  <2> QED
    BY <2>2, <2>3, <2>4, WorldCases
<1>2. [Next]_vars
  BY DEF World, Arrive, Vanish, CooldownEnds, Retry, Decide, Next, Lifecycle, Review
<1> QED
  BY <1>1, <1>2, WorldOnFailures, AsideStep

(* A step of the poll that leaves mail, queue and failures alone.           *)
LEMMA ForwardInPlace ==
  ASSUME MailTables, UNCHANGED <<vars, gmailVars, failures, slipped>>,
         beyond \subseteq beyond', torn \subseteq torn'
  PROVE  Forward
<1>1. Ids' = Ids /\ row' = row
  BY DEF vars, Ids
<1>2. \A m \in Msgs : Parked(m) => Parked(m)'
  BY DEF Parked
<1> QED
  BY <1>1, <1>2, ForwardQuietly DEF gmailVars, MailTables

(* A cycle begins: what is listed, or due, is to do, each message once.     *)
LEMMA BeginStep ==
  ASSUME IInv, HistorySync \/ FallbackSync
  PROVE  IInv' /\ ParkStands
<1> USE DEF IInv
<1>1. /\ phase = "idle"
      /\ UNCHANGED <<vars, gmailVars, storeVars, slipped, torn, recurred, asks, charged, gateErr>>
      /\ forced' = DueRetries /\ listed' = Len(mailbox) /\ upto' \in {NULL, Len(mailbox)}
      /\ phase' = IF DueRetries = {} THEN "next" ELSE "admitting"
      /\ at' = IF DueRetries = {} THEN 0 ELSE 1
  BY DEF HistorySync, FallbackSync, Begin, Admit
<1>2. PICK ids, unlisted :
        /\ \/ cursor # NULL /\ ids = SubSeq(mailbox, cursor + 1, Len(mailbox)) /\ unlisted = {}
           \/ ids = Reverse(mailbox) /\ unlisted \subseteq gone \cup beyond' \cup Passed
        /\ Begin(ids, unlisted)
        /\ beyond \subseteq beyond'
  <2>1. CASE HistorySync
    BY <2>1 DEF HistorySync
  <2>2. CASE FallbackSync
    <3>1. PICK outside \in SUBSET (Arrived \ gone) :
            Begin(Reverse(mailbox), gone \cup outside) /\ beyond' = beyond \cup (outside \ Passed)
      BY <2>2 DEF FallbackSync
    <3> QED
      BY <3>1
  <2> QED
    BY <2>1, <2>2
<1>3. mailbox \in Seq(Msgs) /\ Len(mailbox) \in Nat /\ Arrived \subseteq Msgs /\ IsFiniteSet(Msgs)
  BY RangeOfSeq, IntakeAssumption DEF MailTables, Arrived
<1>4. Range(ids) \subseteq Arrived
  <2>1. CASE cursor # NULL /\ ids = SubSeq(mailbox, cursor + 1, Len(mailbox))
    <3>1. cursor \in 0..Len(mailbox)
      BY <2>1 DEF MailTables
    <3> QED
      BY <1>3, <2>1, <3>1 DEF Range, Arrived
  <2>2. CASE ids = Reverse(mailbox)
    BY <1>3, <2>2 DEF Range, Arrived, Reverse
  <2> QED
    BY <1>2, <2>1, <2>2
<1> DEFINE others == Range(ids) \ (unlisted \cup DueRetries)
<1>5. PICK due \in SetToSeqs(DueRetries), rest \in SetToSeqs(others) : todo' = due \o rest
  BY <1>2 DEF Begin, Admit, Without
<1>6. DueRetries \subseteq Arrived /\ others \subseteq Arrived
  BY <1>4 DEF DueRetries, Parked, MailTables
<1>7. IsFiniteSet(DueRetries) /\ IsFiniteSet(others)
  BY <1>3, <1>6, FS_Subset
<1>8. /\ due \in Seq(DueRetries) /\ IsInjective(due) /\ Range(due) = DueRetries
      /\ Len(due) = Cardinality(DueRetries)
      /\ rest \in Seq(others) /\ IsInjective(rest) /\ Range(rest) = others
  BY <1>5, <1>7, Enumeration
<1>9. due \in Seq(Arrived) /\ rest \in Seq(Arrived) /\ DueRetries \cap others = {}
  BY <1>6, <1>8, SeqMonotonic
<1>10. todo' \in Seq(Arrived) /\ IsInjective(todo') /\ Range(todo') = DueRetries \cup others
  BY <1>5, <1>8, <1>9, Joining
<1>11. /\ Len(due) \in Nat /\ Len(due) <= Len(todo')
       /\ \A k \in 1..Len(due) : todo'[k] \in DueRetries
  <2>1. /\ Len(todo') = Len(due) + Len(rest) /\ Len(due) \in Nat /\ Len(rest) \in Nat
        /\ \A k \in 1..Len(due) : todo'[k] = due[k]
    BY <1>5, <1>9, ConcatProperties
  <2> QED
    BY <1>8, <2>1
<1> HIDE DEF others
<1>12. \A m \in Msgs : Parked(m)' <=> Parked(m)
  BY <1>1 DEF storeVars, Parked
<1>13. TypeOK'
  BY <1>1, RowsStay
<1>14. MailTables' /\ Attempts' /\ Arrived' = Arrived
  BY <1>1 DEF MailTables, Attempts, Covered, gmailVars, storeVars, Arrived
<1>15. Cycle'
  BY <1>1, <1>3, <1>10, <1>12, <1>14 DEF Cycle, gmailVars, DueRetries
<1>16. Admission'
  <2> SUFFICES ASSUME phase' = "admitting" PROVE Admission'
    BY DEF Admission
  <2>1. DueRetries # {}
    BY <1>1
  <2>2. Len(due) # 0
    BY <1>8, <2>1 DEF Range
  <2>3. \A k \in 1..Len(due) : Parked(todo'[k]) /\ failures[todo'[k]].retry = "due"
    BY <1>11 DEF DueRetries
  <2>4. \A k \in 1..Len(due) : failures'[todo'[k]] # NULL /\ failures'[todo'[k]].parked
                               /\ failures'[todo'[k]].retry = "due"
    BY <1>1, <2>3 DEF Parked, storeVars
  <2> QED
    BY <1>1, <1>8, <1>11, <2>1, <2>2, <2>4 DEF Admission, Parked
<1>17. Recorded'
  <2>1. Ids' = Ids /\ row' = row /\ seen' = seen /\ torn' = torn /\ phase' # "staging"
    BY <1>1 DEF vars, storeVars, Ids
  <2>2. seen \subseteq Msgs
    BY <1>3 DEF MailTables
  <2> QED
    BY <1>1, <2>1, <2>2, AccountedStays DEF Recorded
<1>18. ParkKept'
  BY <1>1 DEF ParkKept
<1>19. Forward
  BY <1>1, <1>2, ForwardInPlace DEF storeVars
<1>20. CursorPassesNothing'
  BY <1>1, <1>19, PassedStays DEF storeVars
<1>21. Underway'
  <2>1. Listed' = Arrived
    BY <1>1, <1>3 DEF Listed, Arrived, Range, gmailVars
  <2> SUFFICES ASSUME NEW m \in Arrived
               PROVE  m \in Range(todo') \cup slipped \cup beyond' \/ Resolved(m)' \/ Parked(m)'
    BY <1>1, <2>1 DEF Underway
  <2>2. m \in DueRetries \cup others \/ m \in gone \cup beyond' \/ m \in Passed
    <3>1. CASE cursor # NULL /\ ids = SubSeq(mailbox, cursor + 1, Len(mailbox)) /\ unlisted = {}
      <4>1. PICK k \in 1..Len(mailbox) : m = mailbox[k]
        BY <1>3 DEF Arrived, Range
      <4>2. cursor \in 0..Len(mailbox)
        BY <3>1 DEF MailTables
      <4>3. CASE k <= cursor
        BY <3>1, <4>1, <4>2, <4>3 DEF Passed
      <4>4. CASE k > cursor
        <5>1. /\ k - cursor \in 1..(Len(mailbox) - cursor)
              /\ ids \in Seq(Msgs) /\ Len(ids) = Len(mailbox) - cursor
              /\ ids[k - cursor] = mailbox[k]
          BY <1>3, <3>1, <4>1, <4>2, <4>4
        <5>2. m \in Range(ids)
          BY <4>1, <5>1 DEF Range
        <5> QED
          BY <3>1, <5>2 DEF others
      <4> QED
        BY <4>1, <4>2, <4>3, <4>4
    <3>2. CASE ids = Reverse(mailbox) /\ unlisted \subseteq gone \cup beyond' \cup Passed
      <4>1. PICK k \in 1..Len(mailbox) : m = mailbox[k]
        BY <1>3 DEF Arrived, Range
      <4>2. /\ DOMAIN ids = 1..Len(mailbox)
            /\ Len(mailbox) - k + 1 \in DOMAIN ids
            /\ ids[Len(mailbox) - k + 1] = mailbox[k]
        BY <1>3, <3>2, <4>1 DEF Reverse
      <4>3. m \in Range(ids)
        BY <4>1, <4>2 DEF Range
      <4> QED
        BY <3>2, <4>3 DEF others
    <3> QED
      BY <1>2, <3>1, <3>2
  <2>3. m \in Passed => m \in slipped \cup beyond \/ Resolved(m) \/ Parked(m)
    BY DEF CursorPassesNothing, Resolved
  <2>4. m \in gone => Resolved(m)
    BY DEF Resolved
  <2> QED
    BY <1>2, <1>3, <1>10, <1>12, <1>19, <2>2, <2>3, <2>4 DEF Forward
<1> QED
  BY <1>13, <1>14, <1>15, <1>16, <1>17, <1>18, <1>20, <1>21, <1>12 DEF ParkStands, Parked

(* An attempt is spent: the retry at hand still has one, and stays parked.  *)
LEMMA AdmissionStep ==
  ASSUME IInv, RecordRetryAttempt
  PROVE  IInv' /\ ParkStands
<1> USE DEF IInv
<1> DEFINE m == todo[at]
           n == Cardinality(forced)
           g == [failures[m] EXCEPT !.tries = failures[m].tries + 1,
                   !.retry = IF failures[m].tries + 1 >= ParkRetryAttempts THEN "none"
                             ELSE "waiting"]
<1>1. /\ phase = "admitting"
      /\ UNCHANGED <<todo, forced, listed, upto, charged, gateErr>>
      /\ phase' = (IF at = n THEN "next" ELSE "admitting")
      /\ at' = (IF at = n THEN 0 ELSE at + 1)
      /\ UNCHANGED <<vars, gmailVars, seen, spool, cursor, histVars>>
  BY DEF RecordRetryAttempt, Goto
<1>2. /\ n \in Nat /\ n <= Len(todo) /\ at \in 1..n /\ at \in DOMAIN todo
      /\ \A k \in at..n : Parked(todo[k]) /\ failures[todo[k]].retry = "due"
  BY <1>1 DEF Admission, Cycle
<1>3. \A k \in DOMAIN todo : todo[k] \in Msgs
  BY RangeOfSeq DEF Cycle, Arrived, MailTables
<1>4. m \in Msgs /\ Parked(m) /\ failures[m].retry = "due" /\ failures[m] \in Failure
  BY <1>2, <1>3 DEF Parked, MailTables
<1>5. failures' = [failures EXCEPT ![m] = g]
  BY <1>2, <1>4 DEF RecordRetryAttempt, MailTables
<1>6. /\ failures[m].tries \in Nat /\ failures[m].tries < ParkRetryAttempts + asks
      /\ ParkRetryAttempts \in Nat \ {0} /\ asks \in Nat
  BY <1>4, IntakeAssumption DEF Attempts, Covered, MailTables, Failure, Parked
<1>7. PICK h \in Failure :
        /\ h = g /\ h # NULL /\ h.parked = failures[m].parked
        /\ h.tries = failures[m].tries + 1
        /\ h.retry # "none" => h.tries < ParkRetryAttempts
  <2> DEFINE t == failures[m].tries + 1
             r == IF t >= ParkRetryAttempts THEN "none" ELSE "waiting"
  <2>1. PICK f \in Failure : f = failures[m]
    BY <1>4
  <2>2. t \in Nat /\ r \in {"none", "waiting"} /\ g = [f EXCEPT !.tries = t, !.retry = r]
    BY <1>6, <2>1
  <2> HIDE DEF g, t, r
  <2>3. g \in Failure /\ g.parked = f.parked /\ g.tries = t /\ g.retry = r
    BY <2>2 DEF Failure
  <2> USE DEF t, r
  <2> QED
    BY <1>6, <2>1, <2>3, IntakeAssumption
<1> HIDE DEF g
<1>8. failures' \in [Msgs -> Failure \cup {NULL}] /\ failures'[m] = h
      /\ \A o \in Msgs : o # m => failures'[o] = failures[o]
  BY <1>4, <1>5, <1>7 DEF MailTables
<1>9. \A o \in Msgs : Parked(o)' <=> Parked(o)
  BY <1>4, <1>7, <1>8 DEF Parked
<1>10. TypeOK' /\ Ids' = Ids /\ row' = row
  BY <1>1, RowsStay DEF vars, Ids
<1>11. Forward
  BY <1>1, <1>9, <1>10, ForwardQuietly DEF gmailVars, histVars, MailTables
<1>12. MailTables'
  BY <1>1, <1>4, <1>8 DEF MailTables, Parked, gmailVars, histVars, Arrived
<1>13. Cycle'
  BY <1>1, <1>9 DEF Cycle, gmailVars, Arrived
<1>14. Admission'
  <2>1. ASSUME NEW k \in (at + 1)..n
        PROVE  todo[k] \in Msgs /\ todo[k] # m /\ Parked(todo[k]) /\ failures[todo[k]].retry = "due"
    <3>1. k \in DOMAIN todo /\ k \in at..n /\ k # at
      BY <1>2
    <3> QED
      BY <1>2, <1>3, <3>1 DEF Cycle, IsInjective
  <2>2. ASSUME NEW k \in (at + 1)..n
        PROVE  Parked(todo[k])' /\ failures'[todo[k]].retry = "due"
    BY <1>1, <1>8, <1>9, <2>1 DEF Parked
  <2> QED
    BY <1>1, <1>2, <2>2 DEF Admission
<1>15. Attempts'
  <2>1. Covered(h)'
    BY <1>1, <1>6, <1>7 DEF Covered, histVars
  <2> QED
    BY <1>1, <1>8, <2>1 DEF Attempts, Covered, histVars
<1>16. Recorded' /\ ParkKept'
  BY <1>1, <1>10 DEF Recorded, ParkKept, Accounted, InQueue, histVars
<1>17. Underway'
  BY <1>1, <1>11, UnderwayStays
<1>18. CursorPassesNothing'
  BY <1>1, <1>11, PassedStays
<1> QED
  BY <1>10, <1>12, <1>13, <1>14, <1>15, <1>16, <1>17, <1>18, <1>9 DEF ParkStands, Parked

(* A message leaves the list once nobody has to look at it again.           *)
LEMMA FinishStep ==
  ASSUME IInv, todo # <<>>, phase # "idle", Finish,
         UNCHANGED <<vars, gmailVars, seen, spool, cursor, histVars>>,
         Resolved(Current), phase = "staging" => Accounted(Current)
  PROVE  IInv' /\ ParkStands
<1> USE DEF IInv
<1>1. /\ failures' = [failures EXCEPT ![Current] = NULL]
      /\ todo' = Tail(todo) /\ phase' = "next"
      /\ UNCHANGED <<forced, listed, upto, charged, gateErr>>
  BY DEF Finish
<1>2. Current \in Msgs /\ Current \in Arrived
  BY DocumentsOfCurrent
<1>3. /\ todo' \in Seq(Arrived) /\ IsInjective(todo')
      /\ Range(todo') = Range(todo) \ {Current}
  BY <1>1, Popping DEF Cycle, Current
<1>4. /\ failures' \in [Msgs -> Failure \cup {NULL}] /\ failures'[Current] = NULL
      /\ \A o \in Msgs : o # Current => failures'[o] = failures[o]
  BY <1>1, <1>2 DEF MailTables
<1>5. TypeOK' /\ Ids' = Ids /\ row' = row
  BY RowsStay DEF vars, Ids
<1>6. \A m \in Msgs : Resolved(m)' <=> Resolved(m)
  BY <1>5 DEF Resolved, Accounted, gmailVars, histVars
<1>7. \A m \in Msgs : m # Current /\ Parked(m) => Parked(m)'
  BY <1>4 DEF Parked
<1>8. Forward
  BY <1>2, <1>5, <1>6, <1>7, ForwardQuietly DEF gmailVars, histVars, MailTables
<1>9. MailTables'
  BY <1>4 DEF MailTables, gmailVars, histVars, Arrived
<1>10. Cycle'
  BY <1>1, <1>3, <1>7 DEF Cycle, gmailVars, Arrived
<1>11. Attempts'
  BY <1>1, <1>4 DEF Attempts, Covered, histVars
<1>12. Recorded'
  BY <1>1, <1>5 DEF Recorded, Accounted, histVars
<1>13. Admission' /\ ParkKept'
  BY <1>1 DEF Admission, ParkKept
<1>14. Underway'
  BY <1>1, <1>2, <1>3, <1>6, <1>8, UnderwayStays
<1>15. CursorPassesNothing'
  BY <1>8, PassedStays
<1>16. ParkStands
  BY <1>4 DEF ParkStands, Parked
<1> QED
  BY <1>5, <1>9, <1>10, <1>11, <1>12, <1>13, <1>14, <1>15, <1>16

(* A message that failed is about to be charged with it.                    *)
LEMMA FailsStep ==
  ASSUME IInv, todo # <<>>, phase # "idle", Fails,
         UNCHANGED <<vars, gmailVars, seen, cursor, slipped, beyond, asks>>,
         spool' \in [Shas -> {"none", "whole", "torn"}], torn \subseteq torn',
         phase = "staging" => Current \in torn' \/ Accounted(Current)
  PROVE  IInv' /\ ParkStands
<1> USE DEF IInv
<1>1. /\ phase' = "charging" /\ charged' = failures[Current] /\ gateErr' = FALSE
      /\ UNCHANGED <<failures, todo, forced, listed, upto>>
  BY DEF Fails
<1>2. Current \in Msgs /\ Current' = Current
  BY <1>1, DocumentsOfCurrent DEF Current
<1>3. TypeOK' /\ Ids' = Ids /\ row' = row
  BY RowsStay DEF vars, Ids
<1>4. \A m \in Msgs : Parked(m)' <=> Parked(m)
  BY <1>1 DEF Parked
<1>5. Forward
  BY <1>1, ForwardInPlace
<1>6. MailTables'
  BY <1>1 DEF MailTables, gmailVars, Arrived
<1>7. Cycle'
  BY <1>1, <1>2, <1>4 DEF Cycle, MailTables, gmailVars, Arrived
<1>8. Attempts'
  BY <1>1, <1>2 DEF Attempts, Covered
<1>9. Recorded'
  BY <1>1, <1>3 DEF Recorded, Accounted
<1>10. Admission' /\ ParkKept'
  BY <1>1, <1>2 DEF Admission, ParkKept, Parked
<1>11. Underway'
  BY <1>1, <1>5, UnderwayStays
<1>12. CursorPassesNothing'
  BY <1>5, PassedStays
<1> QED
  BY <1>3, <1>6, <1>7, <1>8, <1>9, <1>10, <1>11, <1>12, <1>4 DEF ParkStands, Parked

(* The extraction of a message goes on.                                     *)
LEMMA WorkStep ==
  ASSUME IInv, todo # <<>>, phase # "idle", phase' \in {"spooled", "staging"},
         UNCHANGED <<todo, forced, listed, upto, charged, gmailVars, failures, cursor,
                     slipped, beyond, torn, asks>>,
         [Next]_vars, seen \subseteq seen', seen' \subseteq Arrived,
         spool' \in [Shas -> {"none", "whole", "torn"}], gateErr' \in BOOLEAN,
         phase' = "staging" => at' \in 1..(Len(DocsOf[Current]) + 1),
         Recorded'
  PROVE  IInv' /\ ParkStands
<1> USE DEF IInv
<1>1. Current' = Current
  BY DEF Current
<1>2. TypeOK' /\ Ids \subseteq Ids' /\ \A i \in Ids : row'[i] = row[i]
  BY RowsStay
<1>3. \A m \in Msgs : Parked(m)' <=> Parked(m)
  BY DEF Parked
<1>4. Forward
  BY <1>2, <1>3, ForwardQuietly DEF gmailVars, MailTables
<1>5. MailTables'
  BY DEF MailTables, gmailVars, Arrived
<1>6. Cycle'
  BY <1>1, <1>3 DEF Cycle, gmailVars, Arrived
<1>7. Attempts'
  BY DEF Attempts, Covered
<1>8. Admission' /\ ParkKept'
  BY DEF Admission, ParkKept
<1>9. Underway'
  BY <1>4, UnderwayStays
<1>10. CursorPassesNothing'
  BY <1>4, PassedStays
<1> QED
  BY <1>2, <1>5, <1>6, <1>7, <1>8, <1>9, <1>10, <1>3 DEF ParkStands, Parked

(* After the step, d is in the queue or was refused.                        *)
Enters(m, d) == d \in Refused \/ \E i \in Ids' : row'[i].msg = m /\ row'[i].sha = d.sha

(* One document more has been dealt with.                                   *)
LEMMA DocumentDone ==
  ASSUME IInv, Staging, UNCHANGED <<seen, torn, todo>>, phase' = "staging", at' = at + 1,
         [Next]_vars, Enters(Current, Document)
  PROVE  Recorded' /\ at' \in 1..(Len(DocsOf[Current]) + 1)
<1> USE DEF IInv
<1>1. phase = "staging" /\ at \in 1..Len(DocsOf[Current]) /\ todo # <<>>
      /\ Len(DocsOf[Current]) \in Nat
  BY DocumentsOfCurrent DEF Staging, Cycle
<1>2. Current' = Current /\ Current \in Msgs
  BY <1>1, DocumentsOfCurrent DEF Current
<1>3. TypeOK' /\ Ids \subseteq Ids' /\ \A i \in Ids : row'[i] = row[i]
  BY RowsStay
<1>4. /\ \A m \in Msgs : Accounted(m) => Accounted(m)'
      /\ \A m \in Msgs : \A d : InQueue(m, d) => InQueue(m, d)'
  BY <1>3, AccountedStays
<1>5. seen \subseteq Msgs
  BY RangeOfSeq DEF MailTables, Arrived
<1>6. \A m \in seen' : m \in torn' \/ Accounted(m)' \/ m = Current
  BY <1>4, <1>5 DEF Recorded
<1>7. ASSUME NEW j \in 1..(at' - 1) PROVE Enters(Current, DocsOf[Current][j])
  <2>1. CASE j = at
    BY <2>1 DEF Document
  <2>2. CASE j # at
    <3>1. j \in 1..(at - 1)
      BY <1>1, <2>2
    <3>2. InQueue(Current, DocsOf[Current][j])
      BY <1>1, <3>1 DEF Recorded
    <3> QED
      BY <1>3, <3>2 DEF InQueue, Enters
  <2> QED
    BY <2>1, <2>2
<1> QED
  BY <1>1, <1>2, <1>6, <1>7 DEF Recorded, InQueue, Enters

(* Staging a document leaves it in the queue, as a new row or as the one    *)
(* the human rejected.                                                      *)
LEMMA StagedIsInQueue ==
  ASSUME IInv, Staging, Stage(Document)
  PROVE  [Next]_vars /\ Enters(Current, Document)
<1> USE DEF IInv
<1>1. phase = "staging" /\ at \in DOMAIN DocsOf[Current] /\ todo # <<>>
  BY DocumentsOfCurrent DEF Staging, Cycle
<1>2. Document \in Candidates /\ Document.msg = Current
  BY <1>1, DocumentsOfCurrent DEF Document
<1>3. CASE StageItem(Document)
  <2>1. /\ Len(row) + 1 \in Ids' /\ row'[Len(row) + 1] = StagedRow(Document)
        /\ StagedRow(Document).msg = Document.msg /\ StagedRow(Document).sha = Document.sha
    BY <1>2, <1>3, StageItemEffect, StagedRowType
  <2> QED
    BY <1>2, <1>3, <2>1 DEF Next, Enters
<1>4. CASE Rejected(Document) /\ UNCHANGED vars
  BY <1>2, <1>4 DEF Rejected, Enters, vars, Ids
<1> QED
  BY <1>3, <1>4 DEF Stage

(* A cycle ends with the failures, and the cursor, as they are.             *)
LEMMA RestStep ==
  ASSUME IInv, phase # "idle", Rest,
         UNCHANGED <<vars, gmailVars, seen, failures, cursor, slipped, beyond, asks>>,
         spool' \in [Shas -> {"none", "whole", "torn"}], torn \subseteq torn',
         phase = "staging" => Current \in torn' \/ Accounted(Current)
  PROVE  IInv' /\ ParkStands
<1> USE DEF IInv
<1>1. TypeOK' /\ Ids' = Ids /\ row' = row
  BY RowsStay DEF vars, Ids
<1>2. Forward
  BY ForwardInPlace
<1>3. MailTables'
  BY DEF MailTables, gmailVars, Arrived
<1>4. /\ Cycle' /\ Admission' /\ ParkKept' /\ Underway'
      /\ phase' # "staging" /\ charged' = NULL
  BY Resting
<1>5. Attempts'
  BY <1>4 DEF Attempts, Covered
<1>6. Recorded'
  BY <1>1, <1>4 DEF Recorded, Accounted
<1>7. CursorPassesNothing'
  BY <1>2, PassedStays
<1>8. ParkStands
  BY DEF ParkStands, Parked
<1> QED
  BY <1>1, <1>3, <1>4, <1>5, <1>6, <1>7, <1>8

(* One failure more: a parked row stays as it is, and a new park has all    *)
(* its attempts before it.                                                  *)
LEMMA NewFailureType ==
  ASSUME NEW f \in Failure \cup {NULL}, Covered(f), asks \in Nat
  PROVE  /\ NewFailure(f) \in Failure /\ NewFailure(f) # NULL /\ Covered(NewFailure(f))
         /\ f # NULL /\ f.parked => NewFailure(f).parked
<1> USE IntakeAssumption
<1>1. CASE f # NULL /\ f.parked
  BY <1>1 DEF NewFailure
<1>2. CASE ~(f # NULL /\ f.parked)
  <2> DEFINE count == IF f = NULL THEN 1 ELSE f.count + 1
  <2>1. count \in Nat \ {0}
    BY DEF Failure
  <2>2. /\ [count |-> FailureBudget, parked |-> TRUE, tries |-> 0, retry |-> "waiting"] \in Failure
        /\ count < FailureBudget =>
             [count |-> count, parked |-> FALSE, tries |-> 0, retry |-> "none"] \in Failure
    BY <2>1 DEF Failure
  <2>3. NewFailure(f) =
          IF count >= FailureBudget
          THEN [count |-> FailureBudget, parked |-> TRUE, tries |-> 0, retry |-> "waiting"]
          ELSE [count |-> count, parked |-> FALSE, tries |-> 0, retry |-> "none"]
    BY <1>2 DEF NewFailure
  <2>4. NewFailure(f) \in Failure /\ NewFailure(f).tries = 0
    <3> HIDE DEF count
    <3> QED
      BY <2>1, <2>2, <2>3
  <2> QED
    BY <1>2, <2>4 DEF Covered
<1> QED
  BY <1>1, <1>2

(* A message is charged with its failure: parked, it leaves the list;       *)
(* otherwise the cycle is over.                                             *)
LEMMA ChargeStep ==
  ASSUME IInv, RecordMessageFailure
  PROVE  IInv' /\ ParkStands
<1> USE DEF IInv
<1>1. PICK f \in Failure \cup {NULL} : f = charged
  BY DEF Cycle
<1>2. PICK g : g = NewFailure(f)
  OBVIOUS
<1>3. /\ phase = "charging" /\ todo # <<>>
      /\ failures' = [failures EXCEPT ![Current] = g]
      /\ IF g.parked
         THEN /\ todo' = Tail(todo) /\ phase' = "next" /\ charged' = NULL
              /\ UNCHANGED <<forced, listed, upto, at, gateErr>>
         ELSE Rest
      /\ UNCHANGED <<vars, gmailVars, seen, spool, cursor, histVars>>
  BY <1>1, <1>2 DEF RecordMessageFailure, Cycle
<1>4. /\ g \in Failure /\ g # NULL /\ Covered(g)
      /\ f # NULL /\ f.parked => g.parked
  BY <1>1, <1>2, NewFailureType DEF Attempts, MailTables
<1>5. Current \in Msgs /\ Current \in Arrived
  BY <1>3, DocumentsOfCurrent
<1>6. /\ failures' \in [Msgs -> Failure \cup {NULL}] /\ failures'[Current] = g
      /\ \A o \in Msgs : o # Current => failures'[o] = failures[o]
  BY <1>3, <1>4, <1>5 DEF MailTables
<1>7. \A m \in Msgs : Parked(m) => Parked(m)'
  BY <1>1, <1>3, <1>4, <1>6 DEF Parked, ParkKept
<1>8. TypeOK' /\ Ids' = Ids /\ row' = row
  BY <1>3, RowsStay DEF vars, Ids
<1>9. Forward
  BY <1>3, <1>7, <1>8, ForwardQuietly DEF gmailVars, histVars, MailTables
<1>10. MailTables'
  BY <1>3, <1>5, <1>6 DEF MailTables, gmailVars, histVars, Arrived
<1>11. charged' = NULL /\ phase' \in {"next", "idle"}
  BY <1>3 DEF Rest
<1>12. Attempts'
  <2>1. Covered(g)'
    BY <1>3, <1>4 DEF Covered, histVars
  <2> QED
    BY <1>3, <1>6, <1>11, <2>1 DEF Attempts, Covered, histVars
<1>13. Recorded'
  BY <1>3, <1>8, <1>11 DEF Recorded, Accounted, histVars
<1>14. CursorPassesNothing'
  BY <1>3, <1>9, PassedStays
<1>15. Cycle' /\ Admission' /\ ParkKept' /\ Underway'
  <2>1. CASE g.parked
    <3>1. /\ todo' \in Seq(Arrived) /\ IsInjective(todo')
          /\ Range(todo') = Range(todo) \ {Current}
      <4>1. todo' = Tail(todo) /\ todo # <<>> /\ todo \in Seq(Arrived) /\ IsInjective(todo)
        BY <1>3, <2>1 DEF Cycle
      <4> QED
        BY <4>1, Popping DEF Current
    <3>2. Cycle'
      BY <1>3, <1>7, <2>1, <3>1 DEF Cycle, gmailVars, Arrived
    <3>3. Admission' /\ ParkKept'
      BY <1>3, <2>1 DEF Admission, ParkKept
    <3>4. \A m \in Msgs : m = Current => Parked(m)'
      BY <1>4, <1>6, <2>1 DEF Parked
    <3>5. Underway'
      BY <1>3, <1>5, <1>9, <2>1, <3>1, <3>4, UnderwayStays
    <3> QED
      BY <3>2, <3>3, <3>5
  <2>2. CASE ~g.parked
    BY <1>3, <2>2, Resting
  <2> QED
    BY <2>1, <2>2
<1> QED
  BY <1>8, <1>10, <1>12, <1>13, <1>14, <1>15, <1>7 DEF ParkStands, Parked

(* The cycle is over and the history id is stored: every message it passes  *)
(* was listed or left out by a fallback, or slipped in behind its list.     *)
LEMMA SaveStep ==
  ASSUME IInv, SaveSyncState
  PROVE  IInv' /\ ParkStands
<1> USE DEF IInv
<1>1. /\ phase = "next" /\ todo = <<>> /\ Rest
      /\ cursor' = (IF upto = NULL THEN Len(mailbox) ELSE upto)
      /\ slipped' = (IF upto = NULL
                     THEN slipped \cup {mailbox[k] : k \in (listed + 1)..Len(mailbox)}
                     ELSE slipped)
      /\ UNCHANGED <<vars, gmailVars, seen, spool, failures, beyond, torn, recurred, asks, faults>>
  BY DEF SaveSyncState
<1>2. /\ upto \in {NULL, listed} /\ listed \in 0..Len(mailbox)
      /\ mailbox \in Seq(Msgs) /\ Len(mailbox) \in Nat
  BY <1>1 DEF Cycle, MailTables
<1>3. TypeOK' /\ Ids' = Ids /\ row' = row
  BY <1>1, RowsStay DEF vars, Ids
<1>4. cursor' \in 0..Len(mailbox)
  BY <1>1, <1>2
<1>5. MailTables'
  BY <1>1, <1>4 DEF MailTables, gmailVars, Arrived
<1>6. /\ Cycle' /\ Admission' /\ ParkKept' /\ Underway'
      /\ phase' # "staging" /\ charged' = NULL
  BY <1>1, Resting
<1>7. Attempts'
  BY <1>1, <1>6 DEF Attempts, Covered
<1>8. Recorded'
  BY <1>1, <1>3, <1>6 DEF Recorded, Accounted
<1>9. \A m \in Listed : m \in slipped \cup beyond \/ Resolved(m) \/ Parked(m)
  BY <1>1 DEF Underway, Range
<1>10. Passed' \subseteq Listed \cup slipped' /\ slipped \subseteq slipped'
  <2>1. CASE upto = NULL
    <3>1. ASSUME NEW k \in 1..Len(mailbox) PROVE mailbox[k] \in Listed \cup slipped'
      <4>1. k \in 1..listed \/ k \in (listed + 1)..Len(mailbox)
        BY <1>2
      <4> QED
        BY <1>1, <2>1, <4>1 DEF Listed
    <3> QED
      BY <1>1, <2>1, <3>1 DEF Passed, gmailVars
  <2>2. CASE upto # NULL
    BY <1>1, <1>2, <2>2 DEF Passed, Listed, gmailVars
  <2> QED
    BY <2>1, <2>2
<1>11. CursorPassesNothing'
  <2> SUFFICES ASSUME NEW m \in Passed', m \notin gone' \cup beyond' \cup slipped' \cup torn'
               PROVE  Accounted(m)' \/ Parked(m)'
    BY DEF CursorPassesNothing
  <2>1. m \in Listed /\ m \notin slipped \cup beyond /\ m \notin gone \cup torn
    BY <1>1, <1>10 DEF gmailVars
  <2>2. Accounted(m) \/ Parked(m)
    BY <1>9, <2>1 DEF Resolved
  <2> QED
    BY <1>1, <1>3, <2>2 DEF Accounted, Parked
<1>12. ParkStands
  BY <1>1 DEF ParkStands, Parked
<1> QED
  BY <1>3, <1>5, <1>6, <1>7, <1>8, <1>11, <1>12
-----------------------------------------------------------------------------
(* The actions. *)

(* A message is done with: it is gone, was seen before, or is extracted.    *)
LEMMA DoneStep ==
  ASSUME IInv, MessageGone \/ SkipSeen \/ ExtractDone
  PROVE  IInv' /\ ParkStands
<1> USE DEF IInv
<1>1. CASE MessageGone
  BY <1>1, FinishStep DEF MessageGone, Resolved
<1>2. CASE SkipSeen
  <2>1. Current \in torn \/ Accounted(Current)
    BY <1>2 DEF SkipSeen, Recorded
  <2> QED
    BY <1>2, <2>1, FinishStep DEF SkipSeen, Resolved
<1>3. CASE ExtractDone
  <2>1. phase = "staging" /\ todo # <<>> /\ Accounted(Current)
    BY <1>3, AllStaged DEF ExtractDone, Cycle
  <2> QED
    BY <1>3, <2>1, FinishStep DEF ExtractDone, Resolved
<1> QED
  BY <1>1, <1>2, <1>3

(* A message fails, at whatever point of its extraction.                    *)
LEMMA FailingStep ==
  ASSUME IInv,
         \/ FetchFails \/ RecordMessageFails \/ StageFails \/ GateErrFails
         \/ phase = "next" /\ todo # <<>> /\ \E k \in DOMAIN DocsOf[Current] : SpoolFails(k)
  PROVE  IInv' /\ ParkStands
<1> USE DEF IInv
<1>1. spool \in [Shas -> {"none", "whole", "torn"}]
  BY DEF MailTables
<1>2. CASE FetchFails
  BY <1>1, <1>2, FailsStep DEF FetchFails, histVars
<1>3. CASE RecordMessageFails
  <2>1. phase = "spooled" /\ todo # <<>>
    BY <1>3 DEF RecordMessageFails, Cycle
  <2>2. spool' \in [Shas -> {"none", "whole", "torn"}]
    BY <1>1, <1>3 DEF RecordMessageFails
  <2> QED
    BY <1>3, <2>1, <2>2, FailsStep DEF RecordMessageFails
<1>4. CASE StageFails
  <2>1. phase = "staging" /\ todo # <<>>
    BY <1>4 DEF StageFails, Staging, Cycle
  <2> QED
    BY <1>1, <1>4, <2>1, FailsStep DEF StageFails
<1>5. CASE GateErrFails
  <2>1. phase = "staging" /\ todo # <<>> /\ Accounted(Current)
    BY <1>5, AllStaged DEF GateErrFails, Cycle
  <2> QED
    BY <1>1, <1>5, <2>1, FailsStep DEF GateErrFails, histVars
<1>6. ASSUME phase = "next", todo # <<>>, NEW k \in DOMAIN DocsOf[Current], SpoolFails(k)
      PROVE  IInv' /\ ParkStands
  <2>1. spool' \in [Shas -> {"none", "whole", "torn"}]
    BY <1>1, <1>6 DEF SpoolFails
  <2> QED
    BY <1>6, <2>1, FailsStep DEF SpoolFails
<1> QED
  BY <1>2, <1>3, <1>4, <1>5, <1>6

(* The extraction of a message: its files, its record, its documents.       *)
LEMMA ExtractionStep ==
  ASSUME IInv,
         Spool \/ RecordMessageIfNew \/ GateRefuses \/ StageDocument \/ DecisionNotRecorded
  PROVE  IInv' /\ ParkStands
<1> USE DEF IInv
<1>1. spool \in [Shas -> {"none", "whole", "torn"}] /\ gateErr \in BOOLEAN /\ seen \subseteq Arrived
  BY DEF MailTables, Cycle
<1>2. CASE Spool
  <2>1. /\ phase = "next" /\ todo # <<>> /\ phase' = "spooled"
        /\ UNCHANGED <<todo, forced, listed, upto, charged, gateErr>>
        /\ UNCHANGED <<vars, gmailVars, seen, failures, cursor, slipped, beyond, torn, asks>>
    BY <1>2 DEF Spool, Extracting, Goto
  <2>2. spool' \in [Shas -> {"none", "whole", "torn"}]
    BY <1>1, <1>2 DEF Spool
  <2>3. Recorded'
    BY <2>1 DEF Recorded, Accounted, Ids, vars
  <2> QED
    BY <1>1, <2>1, <2>2, <2>3, WorkStep
<1>3. CASE RecordMessageIfNew
  <2>1. /\ phase = "spooled" /\ todo # <<>> /\ phase' = "staging" /\ at' = 1
        /\ seen' = seen \cup {Current}
        /\ UNCHANGED <<todo, forced, listed, upto, charged, gateErr>>
        /\ UNCHANGED <<vars, gmailVars, spool, failures, cursor, slipped, beyond, torn, asks>>
    BY <1>3 DEF RecordMessageIfNew, Goto, Cycle, histVars
  <2>2. Current \in Arrived /\ Current' = Current /\ Len(DocsOf[Current]) \in Nat
    BY <2>1, DocumentsOfCurrent DEF Current
  <2>3. Recorded'
    BY <2>1, <2>2 DEF Recorded, Accounted, Ids, vars
  <2> QED
    BY <1>1, <2>1, <2>2, <2>3, WorkStep
<1>4. CASE GateRefuses \/ StageDocument \/ DecisionNotRecorded
  <2>1. /\ Staging /\ phase' = "staging" /\ at' = at + 1 /\ gateErr' \in BOOLEAN
        /\ UNCHANGED <<todo, forced, listed, upto, charged>>
        /\ UNCHANGED <<gmailVars, seen, failures, cursor, slipped, beyond, torn, asks>>
    BY <1>1, <1>4 DEF GateRefuses, StageDocument, DecisionNotRecorded, Goto, storeVars, histVars
  <2>2. phase = "staging" /\ todo # <<>>
    BY <2>1 DEF Staging, Cycle
  <2>3. spool' \in [Shas -> {"none", "whole", "torn"}]
    BY <1>1, <1>4 DEF GateRefuses, StageDocument, DecisionNotRecorded, storeVars
  <2>4. [Next]_vars /\ Enters(Current, Document)
    BY <1>4, <2>1, StagedIsInQueue DEF GateRefuses, StageDocument, DecisionNotRecorded, Enters
  <2>5. Recorded' /\ at' \in 1..(Len(DocsOf[Current]) + 1)
    BY <2>1, <2>4, DocumentDone
  <2> QED
    BY <1>1, <2>1, <2>2, <2>3, <2>4, <2>5, WorkStep
<1> QED
  BY <1>2, <1>3, <1>4

(* A cycle is cut off: its extraction is torn if it had documents to go.    *)
LEMMA CutOffStep ==
  ASSUME IInv,
         \/ PollAborts \/ Crash
         \/ phase = "next" /\ todo # <<>> /\ \E k \in DOMAIN DocsOf[Current] : CrashSpooling(k)
  PROVE  IInv' /\ ParkStands
<1> USE DEF IInv
<1>1. spool \in [Shas -> {"none", "whole", "torn"}]
  BY DEF MailTables
<1>2. CASE PollAborts
  BY <1>1, <1>2, RestStep DEF PollAborts, storeVars
<1>3. CASE Crash
  <2>1. phase = "staging" => Current \in torn' \/ Accounted(Current)
    <3> SUFFICES ASSUME phase = "staging", ~Staging PROVE Accounted(Current)
      BY <1>3 DEF Crash
    <3>1. todo # <<>>
      BY DEF Cycle
    <3>2. at > Len(DocsOf[Current])
      BY <3>1, DocumentsOfCurrent DEF Staging, Cycle
    <3> QED
      BY <3>2, AllStaged
  <2>2. torn \subseteq torn'
    BY <1>3 DEF Crash
  <2> QED
    BY <1>1, <1>3, <2>1, <2>2, RestStep DEF Crash, storeVars
<1>4. ASSUME phase = "next", todo # <<>>, NEW k \in DOMAIN DocsOf[Current], CrashSpooling(k)
      PROVE  IInv' /\ ParkStands
  <2>1. spool' \in [Shas -> {"none", "whole", "torn"}]
    BY <1>1, <1>4 DEF CrashSpooling
  <2> QED
    BY <1>4, <2>1, RestStep DEF CrashSpooling
<1> QED
  BY <1>2, <1>3, <1>4

(* Every step keeps the invariant, and lifts no park too early.            *)
LEMMA IStep ==
  ASSUME IInv, [INext]_ivars
  PROVE  IInv' /\ ParkStands
<1>1. CASE World
  BY <1>1, WorldStep
<1>2. CASE PollStep
  BY <1>2, BeginStep, AdmissionStep, DoneStep, FailingStep, ExtractionStep, ChargeStep, SaveStep
     DEF PollStep
<1>3. CASE FaultStep
  BY <1>3, FailingStep, ExtractionStep, CutOffStep DEF FaultStep
<1>4. CASE UNCHANGED ivars
  <2> USE <1>4 DEF ivars
  <2>1. Current' = Current /\ Arrived' = Arrived /\ Ids' = Ids
    BY DEF Current, Arrived, Ids
  <2>2. \A m : (Accounted(m)' <=> Accounted(m)) /\ (Parked(m)' <=> Parked(m))
    BY <2>1 DEF Accounted, Parked
  <2>3. TypeOK'
    BY RowsStay DEF IInv, vars
  <2>4. MailTables' /\ Cycle' /\ Admission' /\ Attempts'
    BY <2>1 DEF IInv, MailTables, Cycle, Admission, Attempts, Covered, Parked
  <2>5. Recorded' /\ ParkKept' /\ Underway' /\ CursorPassesNothing'
    BY <2>1, <2>2 DEF IInv, Recorded, InQueue, ParkKept, Underway, Listed, Resolved,
                      CursorPassesNothing, Passed
  <2> QED
    BY <2>2, <2>3, <2>4, <2>5 DEF IInv, ParkStands, Parked
<1> QED
  BY <1>1, <1>2, <1>3, <1>4 DEF INext

(* Before the first poll nothing is listed, passed or parked.              *)
LEMMA IInitInv == IInit => IInv
<1> SUFFICES ASSUME IInit PROVE IInv
  OBVIOUS
<1> USE IntakeAssumption DEF IInit
<1>1. Range(<<>>) = {} /\ IsInjective(<<>>)
  BY DEF Range, IsInjective
<1>2. TypeOK
  BY InitTypeOK
<1>3. MailTables
  BY <1>1 DEF MailTables, Arrived
<1>4. Cycle
  <2>1. <<>> \in Seq(Arrived) /\ 0 \in 0..Len(mailbox)
    OBVIOUS
  <2> QED
    BY <1>1, <2>1 DEF Cycle
<1>5. Admission /\ Attempts /\ Recorded /\ ParkKept /\ Underway
  BY DEF Admission, Attempts, Covered, Recorded, ParkKept, Underway
<1>6. CursorPassesNothing
  BY DEF CursorPassesNothing, Passed
<1> QED
  BY <1>2, <1>3, <1>4, <1>5, <1>6 DEF IInv

(* The invariant holds throughout.                                         *)
LEMMA IInvariant == ISpec => []IInv
BY IInitInv, IStep, PTL DEF ISpec
-----------------------------------------------------------------------------
(* The theorems. *)

(* Each id once: a list is as long as the set of its ids is large.          *)
LEMMA EachOnce ==
  ASSUME NEW S, NEW s \in Seq(S), IsInjective(s)
  PROVE  Len(s) = Cardinality(Range(s))
<1>1. s \in Bijection(1..Len(s), Range(s))
  <2>1. s \in [1..Len(s) -> Range(s)] /\ DOMAIN s = 1..Len(s)
    BY DEF Range
  <2>2. \A x \in Range(s) : \E k \in 1..Len(s) : s[k] = x
    BY <2>1 DEF Range
  <2> QED
    BY <2>1, <2>2 DEF Bijection, Injection, Surjection
<1>2. IsFiniteSet(1..Len(s)) /\ Cardinality(1..Len(s)) = Len(s)
  <2>1. Len(s) \in Nat /\ 1 \in Int /\ Len(s) \in Int
    OBVIOUS
  <2> QED
    BY <2>1, FS_Interval
<1>3. ExistsBijection(1..Len(s), Range(s))
  BY <1>1 DEF ExistsBijection
<1> QED
  BY <1>2, <1>3, FS_Bijection

(* What the invariant is for.                                               *)
LEMMA IInvMeans == IInv => ITypeOK /\ CursorPassesNothing /\ RetriesAreBounded
<1> SUFFICES ASSUME IInv PROVE ITypeOK /\ CursorPassesNothing /\ RetriesAreBounded
  OBVIOUS
<1>1. Len(todo) = Cardinality(Range(todo))
  BY EachOnce DEF IInv, Cycle
<1>2. Range(todo) \subseteq Arrived /\ Arrived \subseteq Msgs
  BY RangeOfSeq DEF IInv, Cycle, MailTables, Arrived
<1>3. ITypeOK
  BY <1>1, <1>2 DEF IInv, ITypeOK, MailTables, Cycle
<1>4. CursorPassesNothing /\ RetriesAreBounded
  BY DEF IInv, Attempts, Covered, RetriesAreBounded
<1> QED
  BY <1>3, <1>4

(* Type correctness of the poll: no message is on the list of a cycle       *)
(* twice, and one admitted as a retry stays parked until its turn comes.    *)
THEOREM IntakeTypeCorrect == ISpec => []ITypeOK
BY IInvMeans, IInvariant, PTL

(* G-1: whatever fails, and in whatever order, a message that the stored    *)
(* history id has passed is in the queue, refused, parked or gone, but for  *)
(* the three exceptions CursorPassesNothing names, whatever each fallback's *)
(* query leaves out (poll.go:75-160, fallback.go:28-37).                    *)
THEOREM CursorIsSafe == ISpec => []CursorPassesNothing
BY IInvMeans, IInvariant, PTL

(* F-79: DeleteMessageFailure lifts a park only for a message nobody has to *)
(* look at again.                                                           *)
THEOREM ParksStand == ISpec => ParkedUntilResolved
<1>1. IInv /\ [INext]_ivars
      => [\A m \in Msgs : Parked(m) /\ failures'[m] = NULL
            => m \in gone \cup torn \/ Accounted(m)]_ivars
  BY IStep DEF ParkStands, Resolved
<1> QED
  BY <1>1, IInvariant, PTL DEF ISpec, ParkedUntilResolved

(* F-75/F-76: a parked message gets no more automatic attempts than its     *)
(* budget and the manual retries allow.                                     *)
THEOREM RetriesBounded == ISpec => []RetriesAreBounded
BY IInvMeans, IInvariant, PTL
-----------------------------------------------------------------------------
(* The spool. *)

(* While a message is extracted, the files of the documents still to come   *)
(* are whole, and either their bytes are new - no item of the queue has     *)
(* them, no other document of the message does - or they are marked as      *)
(* spooled twice.  So no cleanup can take the file of an unmarked item.     *)
Fresh(m, s) == s \in recurred \/ (~Queued(s) /\ s \notin Twice(m))

SpoolInv ==
  /\ SpoolHoldsNewBytes
  /\ phase = "spooled" =>
       \A s \in Files(Current) : spool[s] = "whole" /\ Fresh(Current, s)
  /\ phase = "staging" =>
       \A j \in at..Len(DocsOf[Current]) :
         LET s == DocsOf[Current][j].sha IN
         s \in recurred \/ (spool[s] = "whole" /\ Fresh(Current, s))

(* The files of the message at hand are those of its documents.             *)
LEMMA FilesOfCurrent ==
  ASSUME MailTables, Cycle, todo # <<>>
  PROVE  /\ Files(Current) \subseteq Shas
         /\ \A j \in DOMAIN DocsOf[Current] : DocsOf[Current][j].sha \in Files(Current)
         /\ \A s \in Files(Current) : \E j \in DOMAIN DocsOf[Current] : s = DocsOf[Current][j].sha
<1>1. \A k \in DOMAIN DocsOf[Current] : DocsOf[Current][k] \in Candidates
  BY DocumentsOfCurrent
<1>2. \A d \in Candidates : d.sha \in Shas
  BY QueueAssumption DEF NewItem
<1>3. \A d \in Docs(Current) : \E k \in DOMAIN DocsOf[Current] : d = DocsOf[Current][k]
  BY DEF Docs, Range
<1>4. \A k \in DOMAIN DocsOf[Current] : DocsOf[Current][k] \in Docs(Current)
  BY DEF Docs, Range
<1> QED
  BY <1>1, <1>2, <1>3, <1>4 DEF Files

(* A step that inserts no row, touches no file and starts no extraction.    *)
LEMMA SpoolUntouched ==
  ASSUME SpoolInv, Ids' = Ids, row' = row, UNCHANGED <<spool, recurred>>,
         \A i \in Ids : Pending(i)' => Pending(i),
         phase' \notin {"spooled", "staging"} \/ UNCHANGED <<phase, todo, at>>
  PROVE  SpoolInv'
<1>1. SpoolHoldsNewBytes'
  BY DEF SpoolInv, SpoolHoldsNewBytes
<1>2. CASE phase' \notin {"spooled", "staging"}
  BY <1>1, <1>2 DEF SpoolInv
<1>3. CASE UNCHANGED <<phase, todo, at>>
  BY <1>1, <1>3 DEF SpoolInv, Current, Fresh, Queued, Twice, Files
<1> QED
  BY <1>2, <1>3

(* Such are the steps of Gmail and the human, and most of the poll's.       *)
LEMMA QuietForSpool ==
  ASSUME TypeOK, SpoolInv,
         \/ World \/ HistorySync \/ FallbackSync \/ RecordRetryAttempt
         \/ MessageGone \/ FetchFails \/ SkipSeen \/ ExtractDone \/ GateErrFails
         \/ RecordMessageFailure \/ SaveSyncState
         \/ StageFails \/ PollAborts \/ Crash
         \/ UNCHANGED ivars
  PROVE  SpoolInv'
<1>1. CASE Decide
  <2>1. PICK i \in Ids \cap 1..MaxReviewed : Reject(i)
    BY <1>1 DEF Decide
  <2>2. Move(i, "rejected", "human") /\ "rejected" \in Status /\ "human" \in Actor
    BY <2>1 DEF Reject, Status, Actor
  <2>3. /\ Ids' = Ids /\ row' = row /\ status'[i] = "rejected"
        /\ \A j \in Ids : j # i => status'[j] = status[j]
    BY <2>2, MoveEffect
  <2>4. \A j \in Ids : Pending(j)' => Pending(j)
    BY <2>3 DEF Pending
  <2>5. UNCHANGED <<spool, recurred, phase, todo, at>>
    BY <1>1 DEF Decide, storeVars, pollVars, histVars
  <2> QED
    BY <2>3, <2>4, <2>5, SpoolUntouched
<1>2. CASE /\ UNCHANGED <<vars, spool, recurred>>
           /\ phase' \notin {"spooled", "staging"} \/ UNCHANGED <<phase, todo, at>>
  <2>1. Ids' = Ids /\ row' = row /\ \A i \in Ids : Pending(i)' => Pending(i)
    BY <1>2 DEF vars, Ids, Pending
  <2> QED
    BY <1>2, <2>1, SpoolUntouched
<1>3. CASE World /\ ~Decide
  <2>1. UNCHANGED <<vars, spool, recurred, phase, todo, at>>
    BY <1>3, WorldCases DEF Arrive, Vanish, CooldownEnds, Retry, storeVars, pollVars, histVars
  <2> QED
    BY <1>2, <2>1
<1>4. CASE HistorySync \/ FallbackSync
  <2>1. PICK due, rest : Admit(due, rest)
    BY <1>4 DEF HistorySync, FallbackSync, Begin
  <2>2. phase' \in {"next", "admitting"} /\ UNCHANGED <<vars, spool, recurred>>
    BY <2>1 DEF Admit, storeVars
  <2> QED
    BY <1>2, <2>2
<1>5. CASE RecordRetryAttempt
  BY <1>2, <1>5 DEF RecordRetryAttempt, Goto, histVars
<1>6. CASE MessageGone \/ SkipSeen \/ ExtractDone
  BY <1>2, <1>6 DEF MessageGone, SkipSeen, ExtractDone, Finish, histVars
<1>7. CASE FetchFails \/ GateErrFails \/ StageFails
  BY <1>2, <1>7 DEF FetchFails, GateErrFails, StageFails, Fails, histVars
<1>8. CASE RecordMessageFailure
  BY <1>2, <1>8 DEF RecordMessageFailure, Rest, histVars
<1>9. CASE SaveSyncState \/ PollAborts \/ Crash
  BY <1>2, <1>9 DEF SaveSyncState, PollAborts, Crash, Rest, storeVars
<1>10. CASE UNCHANGED ivars
  BY <1>2, <1>10 DEF ivars, vars
<1> QED
  BY <1>1, <1>3, <1>4, <1>5, <1>6, <1>7, <1>8, <1>9, <1>10

(* Files are written: those of the message at hand and no others, whole or  *)
(* not, and what the queue already had is marked.                           *)
LEMMA Spooling ==
  ASSUME IInv, SpoolInv, todo # <<>>,
         \/ Spool
         \/ \E k \in DOMAIN DocsOf[Current] : SpoolFails(k)
         \/ \E k \in DOMAIN DocsOf[Current] : CrashSpooling(k)
  PROVE  SpoolInv'
<1> DEFINE F == Files(Current)
<1>1. /\ F \subseteq Shas
      /\ \A j \in DOMAIN DocsOf[Current] : DocsOf[Current][j].sha \in F
      /\ \A j \in DOMAIN DocsOf[Current] : 1..j \subseteq DOMAIN DocsOf[Current]
  BY FilesOfCurrent, DocumentsOfCurrent DEF IInv
<1>2. /\ recurred' = recurred \cup {s \in F : s \in Twice(Current) \/ Queued(s)}
      /\ UNCHANGED <<row, status, todo>> \/ (UNCHANGED <<row, status>> /\ phase' # "spooled")
  BY DEF Spool, SpoolFails, CrashSpooling, Recurring, Goto, Rest, Fails, vars
<1>3. \A s \in Shas \ F : spool'[s] = spool[s]
  <2>1. CASE Spool
    BY <2>1 DEF Spool
  <2>2. ASSUME NEW k \in DOMAIN DocsOf[Current], SpoolFails(k) \/ CrashSpooling(k),
               NEW s \in Shas \ F
        PROVE  spool'[s] = spool[s]
    <3> DEFINE before == {DocsOf[Current][j].sha : j \in 1..(k - 1)}
               early == \E j \in 1..(k - 1) : s = DocsOf[Current][j].sha
    <3>1. s \notin before /\ ~early /\ s # DocsOf[Current][k].sha
      BY <1>1, DocumentsOfCurrent DEF IInv
    <3>2. CASE SpoolFails(k)
      <4>1. spool' = [t \in Shas |-> IF t \in before THEN "none"
                                    ELSE IF t = DocsOf[Current][k].sha THEN "torn"
                                    ELSE spool[t]]
        BY <3>2 DEF SpoolFails
      <4> HIDE DEF before
      <4> QED
        BY <3>1, <4>1
    <3>3. CASE CrashSpooling(k)
      <4>1. spool'[s] = IF s = DocsOf[Current][k].sha THEN "torn"
                        ELSE IF early THEN "whole" ELSE spool[s]
        BY <3>3 DEF CrashSpooling
      <4> QED
        BY <3>1, <4>1
    <3> QED
      BY <2>2, <3>2, <3>3
  <2> QED
    BY <2>1, <2>2
<1>4. SpoolHoldsNewBytes'
  <2> SUFFICES ASSUME NEW i \in Ids, Pending(i), row[i].sha \notin recurred'
               PROVE  spool'[row[i].sha] = "whole"
    BY <1>2 DEF SpoolHoldsNewBytes, Pending, Ids
  <2>1. row[i].sha \in Shas /\ row[i].sha \notin F
    BY <1>2, RowFields DEF IInv, Queued
  <2>2. spool[row[i].sha] = "whole"
    BY <1>2 DEF SpoolInv, SpoolHoldsNewBytes
  <2> QED
    BY <1>3, <2>1, <2>2
<1>5. CASE Spool
  <2>1. phase' = "spooled" /\ Current' = Current /\ UNCHANGED row
    BY <1>5 DEF Spool, Goto, Current, vars
  <2>2. \A s \in F : spool'[s] = "whole"
    BY <1>1, <1>5 DEF Spool
  <2>3. \A s \in F : Fresh(Current, s)'
    BY <1>2, <2>1 DEF Fresh, Queued, Ids, Twice, Files
  <2> QED
    BY <1>4, <2>1, <2>2, <2>3 DEF SpoolInv
<1>6. CASE ~Spool
  BY <1>4, <1>6 DEF SpoolInv, SpoolFails, CrashSpooling, Fails, Rest
<1> QED
  BY <1>5, <1>6

(* Between the files and the documents stands the message's record.         *)
LEMMA Recording ==
  ASSUME IInv, SpoolInv, RecordMessageIfNew \/ RecordMessageFails
  PROVE  SpoolInv'
<1>1. /\ phase = "spooled" /\ todo # <<>>
      /\ UNCHANGED <<vars, todo, recurred>>
  BY DEF RecordMessageIfNew, RecordMessageFails, Fails, Goto, Cycle, IInv, histVars
<1>2. /\ Ids' = Ids /\ Current' = Current
      /\ \A i : Pending(i)' <=> Pending(i)
      /\ \A s : Fresh(Current, s)' <=> Fresh(Current, s)
  BY <1>1 DEF vars, Ids, Current, Pending, Fresh, Queued, Twice, Files
<1>3. \A s \in Files(Current) : spool[s] = "whole" /\ Fresh(Current, s)
  BY <1>1 DEF SpoolInv
<1>4. CASE RecordMessageIfNew
  <2>1. phase' = "staging" /\ at' = 1 /\ spool' = spool
    BY <1>4 DEF RecordMessageIfNew, Goto
  <2>2. SpoolHoldsNewBytes'
    BY <1>1, <1>2, <2>1 DEF SpoolInv, SpoolHoldsNewBytes, vars
  <2>3. \A j \in 1..Len(DocsOf[Current]) : DocsOf[Current][j].sha \in Files(Current)
    BY <1>1, FilesOfCurrent, DocumentsOfCurrent DEF IInv
  <2> QED
    BY <1>2, <1>3, <2>1, <2>2, <2>3 DEF SpoolInv
<1>5. CASE RecordMessageFails
  <2>1. phase' = "charging"
    BY <1>5 DEF RecordMessageFails, Fails
  <2>2. \A s \in Shas \ Files(Current) : spool'[s] = spool[s]
    BY <1>5 DEF RecordMessageFails
  <2>3. ASSUME NEW i \in Ids, Pending(i), row[i].sha \notin recurred
        PROVE  spool'[row[i].sha] = "whole"
    <3>1. row[i].sha \in Shas /\ spool[row[i].sha] = "whole"
      BY <2>3, RowFields DEF IInv, SpoolInv, SpoolHoldsNewBytes
    <3>2. row[i].sha \notin Files(Current)
      BY <1>3, <2>3 DEF Fresh, Queued
    <3> QED
      BY <2>2, <3>1, <3>2
  <2> QED
    BY <1>1, <1>2, <2>1, <2>3 DEF SpoolInv, SpoolHoldsNewBytes, vars
<1> QED
  BY <1>4, <1>5

(* One document is refused, and its file removed, or staged.                *)
LEMMA StagingOne ==
  ASSUME IInv, SpoolInv, GateRefuses \/ StageDocument \/ DecisionNotRecorded
  PROVE  SpoolInv'
<1> DEFINE s0 == Document.sha
<1>1. /\ phase = "staging" /\ phase' = "staging" /\ at' = at + 1
      /\ UNCHANGED <<todo, recurred>>
      /\ at <= Len(DocsOf[Current])
  BY DEF GateRefuses, StageDocument, DecisionNotRecorded, Staging, Goto, histVars
<1>2. /\ todo # <<>> /\ Current' = Current
      /\ Len(DocsOf[Current]) \in Nat /\ at \in 1..Len(DocsOf[Current])
      /\ DOMAIN DocsOf[Current] = 1..Len(DocsOf[Current])
      /\ Document \in Candidates
  BY <1>1, DocumentsOfCurrent DEF IInv, Cycle, Current, Document
<1>3. /\ \A j \in at..Len(DocsOf[Current]) :
           \/ DocsOf[Current][j].sha \in recurred
           \/ /\ spool[DocsOf[Current][j].sha] = "whole"
              /\ ~Queued(DocsOf[Current][j].sha) /\ DocsOf[Current][j].sha \notin Twice(Current)
      /\ SpoolHoldsNewBytes
  BY <1>1 DEF SpoolInv, Fresh
<1>4. \A j \in (at + 1)..Len(DocsOf[Current]) :
         DocsOf[Current][j].sha \in recurred \/ DocsOf[Current][j].sha # s0
  <2> SUFFICES ASSUME NEW j \in (at + 1)..Len(DocsOf[Current]), DocsOf[Current][j].sha = s0
               PROVE  s0 \in recurred
    OBVIOUS
  <2>1. j \in DOMAIN DocsOf[Current] /\ at \in DOMAIN DocsOf[Current] /\ j # at
    BY <1>2
  <2>2. s0 \in Twice(Current)
    BY <1>2, <2>1, FilesOfCurrent DEF Twice, Document, IInv
  <2> QED
    BY <1>2, <1>3, <2>2 DEF Document
<1>5. Twice(Current)' = Twice(Current)
  BY <1>2 DEF Twice, Files
<1>6. spool \in [Shas -> {"none", "whole", "torn"}]
  BY DEF IInv, MailTables
<1>7. CASE GateRefuses
  <2>1. UNCHANGED vars /\ spool' = [spool EXCEPT ![s0] = "none"]
    BY <1>7 DEF GateRefuses
  <2>2. Ids' = Ids /\ \A s : Queued(s)' <=> Queued(s)
    BY <2>1 DEF vars, Ids, Queued
  <2>3. \A s \in Shas : s # s0 => spool'[s] = spool[s]
    BY <1>6, <2>1
  <2>4. SpoolHoldsNewBytes'
    <3> SUFFICES ASSUME NEW i \in Ids, Pending(i), row[i].sha \notin recurred
                 PROVE  spool'[row[i].sha] = "whole"
      BY <1>1, <2>1, <2>2 DEF SpoolHoldsNewBytes, Pending, vars
    <3>1. row[i].sha \in Shas /\ spool[row[i].sha] = "whole" /\ Queued(row[i].sha)
      BY <1>3, RowFields DEF IInv, SpoolHoldsNewBytes, Queued
    <3>2. row[i].sha # s0
      BY <1>2, <1>3, <3>1 DEF Document
    <3> QED
      BY <2>3, <3>1, <3>2
  <2>5. ASSUME NEW j \in at'..Len(DocsOf[Current]), NEW s, s = DocsOf[Current][j].sha
        PROVE  \/ s \in recurred'
               \/ spool'[s] = "whole" /\ ~Queued(s)' /\ s \notin Twice(Current)'
    <3>1. j \in at..Len(DocsOf[Current]) /\ j \in DOMAIN DocsOf[Current]
      BY <1>1, <1>2
    <3>2. s \in Shas
      BY <1>2, <2>5, <3>1, FilesOfCurrent DEF IInv
    <3>3. s \in recurred \/ (spool[s] = "whole" /\ ~Queued(s) /\ s \notin Twice(Current))
      BY <1>3, <2>5, <3>1
    <3>4. s \in recurred \/ s # s0
      BY <1>1, <1>4, <2>5
    <3> QED
      BY <1>1, <1>5, <2>2, <2>3, <3>2, <3>3, <3>4
  <2> QED
    BY <1>1, <1>2, <2>4, <2>5 DEF SpoolInv, Fresh
<1>8. CASE (StageDocument \/ DecisionNotRecorded) /\ UNCHANGED vars
  <2>1. spool' = spool
    BY <1>8 DEF StageDocument, DecisionNotRecorded, storeVars
  <2>2. Ids' = Ids /\ \A s : Queued(s)' <=> Queued(s)
    BY <1>8 DEF vars, Ids, Queued
  <2>3. SpoolHoldsNewBytes'
    BY <1>1, <1>3, <1>8, <2>1, <2>2 DEF SpoolHoldsNewBytes, Pending, vars
  <2> QED
    BY <1>1, <1>2, <1>3, <1>5, <2>1, <2>2, <2>3 DEF SpoolInv, Fresh
<1>9. CASE (StageDocument \/ DecisionNotRecorded) /\ StageItem(Document)
  <2> DEFINE n == Len(row) + 1
  <2>1. spool' = spool
    BY <1>9 DEF StageDocument, DecisionNotRecorded, storeVars
  <2>2. /\ Ids' = Ids \cup {n} /\ row'[n].sha = s0
        /\ \A i \in Ids : row'[i] = row[i] /\ status'[i] = status[i]
    BY <1>2, <1>9, StageItemEffect, StagedRowType DEF IInv
  <2>3. \A s : Queued(s)' => Queued(s) \/ s = s0
    BY <2>2 DEF Queued
  <2>4. SpoolHoldsNewBytes'
    <3>1. ASSUME NEW i \in Ids', Pending(i)', row'[i].sha \notin recurred
          PROVE  spool[row'[i].sha] = "whole"
      <4>1. CASE i \in Ids
        BY <1>3, <2>2, <3>1, <4>1 DEF SpoolHoldsNewBytes, Pending
      <4>2. CASE i = n
        BY <1>2, <1>3, <2>2, <3>1, <4>2 DEF Document
      <4> QED
        BY <2>2, <4>1, <4>2
    <3> QED
      BY <1>1, <2>1, <3>1 DEF SpoolHoldsNewBytes
  <2>5. ASSUME NEW j \in at'..Len(DocsOf[Current]), NEW s, s = DocsOf[Current][j].sha
        PROVE  \/ s \in recurred'
               \/ spool'[s] = "whole" /\ ~Queued(s)' /\ s \notin Twice(Current)'
    <3>1. j \in at..Len(DocsOf[Current]) /\ j \in (at + 1)..Len(DocsOf[Current])
      BY <1>1, <1>2
    <3>3. s \in recurred \/ (spool[s] = "whole" /\ ~Queued(s) /\ s \notin Twice(Current))
      BY <1>3, <2>5, <3>1
    <3>4. s \in recurred \/ s # s0
      BY <1>4, <2>5, <3>1
    <3> QED
      BY <1>1, <1>5, <2>1, <2>3, <3>3, <3>4
  <2> QED
    BY <1>1, <1>2, <2>4, <2>5 DEF SpoolInv, Fresh
<1> QED
  BY <1>7, <1>8, <1>9 DEF StageDocument, DecisionNotRecorded, Stage

(* Every step of the intake.                                                *)
LEMMA SpoolStep ==
  ASSUME IInv, SpoolInv, [INext]_ivars
  PROVE  SpoolInv'
<1>1. TypeOK
  BY DEF IInv
<1>2. Spool => todo # <<>>
  BY DEF Spool, Extracting
<1>3. CASE World \/ UNCHANGED ivars
  BY <1>1, <1>3, QuietForSpool
<1>4. CASE PollStep
  BY <1>1, <1>2, <1>4, QuietForSpool, Spooling, Recording, StagingOne DEF PollStep
<1>5. CASE FaultStep
  BY <1>1, <1>5, QuietForSpool, Spooling, Recording, StagingOne DEF FaultStep
<1> QED
  BY <1>3, <1>4, <1>5 DEF INext

(* F-24: whatever fails, and in whatever order, no cleanup takes the file   *)
(* of an item that may still be uploaded, as long as its bytes came once.   *)
THEOREM SpoolIsKept == ISpec => []SpoolHoldsNewBytes
<1>1. IInit => SpoolInv
  BY DEF IInit, Init, SpoolInv, SpoolHoldsNewBytes, Ids
<1>2. IInv /\ SpoolInv /\ [INext]_ivars => SpoolInv'
  BY SpoolStep
<1>3. SpoolInv => SpoolHoldsNewBytes
  BY DEF SpoolInv
<1> QED
  BY <1>1, <1>2, <1>3, IInvariant, PTL DEF ISpec
-----------------------------------------------------------------------------
(* The queue under the poll. *)

(* Whatever the poll, Gmail and the human do is a step of the queue, or     *)
(* leaves it alone.                                                         *)
LEMMA QueueStep ==
  ASSUME IInv, [INext]_ivars
  PROVE  [Next]_vars
<1>1. CASE World
  <2>1. CASE Decide
    <3>1. PICK i \in Ids : Reject(i)
      BY <2>1 DEF Decide
    <3> QED
      BY <3>1 DEF Next, Lifecycle, Review
  <2>2. CASE ~Decide
    BY <1>1, <2>2, WorldCases DEF Arrive, Vanish, CooldownEnds, Retry
  <2> QED
    BY <2>1, <2>2
<1>2. CASE StageDocument \/ DecisionNotRecorded
  BY <1>2, StagedIsInQueue DEF StageDocument, DecisionNotRecorded
<1>3. CASE HistorySync \/ FallbackSync
  <2>1. PICK due, rest : Admit(due, rest)
    BY <1>3 DEF HistorySync, FallbackSync, Begin
  <2> QED
    BY <2>1 DEF Admit
<1>4. CASE (PollStep \/ FaultStep) /\ ~(StageDocument \/ DecisionNotRecorded \/ HistorySync \/ FallbackSync)
  BY <1>4 DEF PollStep, FaultStep, RecordRetryAttempt, MessageGone, FetchFails, SkipSeen, Spool,
              SpoolFails, RecordMessageIfNew, GateRefuses, ExtractDone, GateErrFails,
              RecordMessageFailure, SaveSyncState, RecordMessageFails, StageFails, PollAborts,
              Crash, CrashSpooling
<1>5. CASE UNCHANGED ivars
  BY <1>5 DEF ivars, vars
<1> QED
  BY <1>1, <1>2, <1>3, <1>4, <1>5 DEF INext, PollStep, FaultStep

(* Intake is a refinement of Queue: what is proved of the queue alone is    *)
(* true of it under the poll, through failures, retries and restarts.       *)
THEOREM IntakeKeepsQueue == ISpec => Spec
<1>1. IInit => Init
  BY DEF IInit
<1> QED
  BY <1>1, QueueStep, IInvariant, PTL DEF ISpec, Spec

(* So one document is consented to at most once at a time however often a   *)
(* message is listed, extracted and retried.                                *)
THEOREM IntakeImplementsLedger == ISpec => ImplementsLedger
BY IntakeKeepsQueue, QueueImplementsLedger, PTL
-----------------------------------------------------------------------------
(* The poll among others. *)

(* ISpec, for TLC's sake, lets the human do no more than reject the first   *)
(* items.  In the running system the reviewer and the uploader move items   *)
(* on between any two steps of the poll, along every edge of the lifecycle. *)
Others ==
  /\ \E i \in Ids : Lifecycle(i)
  /\ UNCHANGED <<gmailVars, storeVars, pollVars, histVars>>

OpenISpec == IInit /\ [][INext \/ Others]_ivars

(* Reviewer and uploader touch neither the mail tables nor the cycle.       *)
LEMMA OthersStep ==
  ASSUME IInv, Others
  PROVE  IInv' /\ ParkStands /\ [Next]_vars
<1>1. UNCHANGED <<mailbox, gone, seen, spool, failures, cursor, pollVars, slipped, beyond, torn, asks>>
  BY DEF Others, gmailVars, storeVars, histVars
<1>2. Aside
  BY <1>1 DEF Aside, IInv, MailTables, Arrived
<1>3. RowsLeft
  BY <1>1 DEF RowsLeft, IInv, MailTables
<1>4. [Next]_vars
  BY DEF Others, Next
<1> QED
  BY <1>2, <1>3, <1>4, AsideStep

(* No edge of the lifecycle makes an item pending that was not: nobody      *)
(* needs a file that the poll was free to remove.                           *)
LEMMA OthersKeepSpool ==
  ASSUME TypeOK, SpoolInv, Others
  PROVE  SpoolInv'
<1>1. PICK i \in Ids : Lifecycle(i)
  BY DEF Others
<1>2. PICK to \in Status, actor \in Actor : Move(i, to, actor)
  BY <1>1 DEF Lifecycle, Review, Outcome, HandleApprove, Approve, Reject,
              MarkAlreadyInPortalWithTeaching, OverridePeppolSuppression, MarkUploaded, MarkFailed,
              Status, Actor
<1>3. /\ Ids' = Ids /\ row' = row /\ status'[i] = to
      /\ \A j \in Ids : j # i => status'[j] = status[j]
  BY <1>2, MoveEffect
<1>4. <<status[i], to>> \in AllowedTransitions
  BY <1>2 DEF Move
<1>5. Pending(i)
  BY <1>4 DEF AllowedTransitions, Pending
<1>6. \A j \in Ids : Pending(j)' => Pending(j)
  BY <1>3, <1>5 DEF Pending
<1>7. UNCHANGED <<spool, recurred, phase, todo, at>>
  BY DEF Others, storeVars, pollVars, histVars
<1> QED
  BY <1>3, <1>6, <1>7, SpoolUntouched

(* G-1, F-24, F-75, F-76 and F-79 under everything the rest of the system   *)
(* may do to the queue at any moment, not just under rejections: what the   *)
(* history id has passed is accounted for, but for the three exceptions of  *)
(* CursorPassesNothing, parks are lifted only when they are resolved,       *)
(* automatic retries are bounded, no item that may still be uploaded loses  *)
(* its file - and the queue sees its own steps only.                        *)
THEOREM IntakeAmongOthers ==
  OpenISpec => /\ []ITypeOK
               /\ []CursorPassesNothing
               /\ ParkedUntilResolved
               /\ []RetriesAreBounded
               /\ []SpoolHoldsNewBytes
               /\ Spec
<1>1. IInit => SpoolInv /\ Init
  BY DEF IInit, Init, SpoolInv, SpoolHoldsNewBytes, Ids
<1>2. IInv /\ [INext \/ Others]_ivars => IInv' /\ [ParkStands]_ivars /\ [Next]_vars
  BY IStep, QueueStep, OthersStep
<1>3. IInv /\ SpoolInv /\ [INext \/ Others]_ivars => SpoolInv'
  <2>1. IInv => TypeOK
    BY DEF IInv
  <2> QED
    BY <2>1, SpoolStep, OthersKeepSpool
<1>4. [ParkStands]_ivars => [\A m \in Msgs : Parked(m) /\ failures'[m] = NULL
                               => m \in gone \cup torn \/ Accounted(m)]_ivars
  BY DEF ParkStands, Resolved
<1>5. IInv /\ SpoolInv => ITypeOK /\ CursorPassesNothing /\ RetriesAreBounded /\ SpoolHoldsNewBytes
  BY IInvMeans DEF SpoolInv
<1> QED
  BY <1>1, <1>2, <1>3, <1>4, <1>5, IInitInv, PTL DEF OpenISpec, ParkedUntilResolved, Spec
=============================================================================
