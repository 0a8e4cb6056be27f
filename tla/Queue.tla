------------------------------- MODULE Queue -------------------------------
(***************************************************************************)
(* internal/queue: the item table of Postbode's review queue, with the     *)
(* dedup layers that run when a document is staged (item.go), the F-41     *)
(* lifecycle (lifecycle.go), vendor teaching and the item_transition log.  *)
(*                                                                         *)
(* Every exported method of *queue.DB runs in one transaction on a pool of *)
(* one connection, so each is one action here.  Columns written once by    *)
(* the INSERT are in `row'; the one column the lifecycle updates is        *)
(* `status'.  Ids are positions: the table is AUTOINCREMENT and nothing    *)
(* deletes a row.  Timestamps, file names and MIME types are left out:     *)
(* nothing in this module reads them.                                      *)
(***************************************************************************)
EXTENDS Integers, Sequences, FiniteSets

CONSTANTS
  Msgs,        \* Gmail message ids
  Shas,        \* SHA-256 digests: the identity of a document's bytes
  Keys,        \* L3 identity keys (vendor, invoice number, date, amount)
  Vendors,     \* sender domains
  VendorOf,    \* the sender domain of each message, NULL when From has none
  TaughtOf,    \* the same as the review UI reads it: another function of From
  Candidates,  \* the documents extraction may ask to stage
  MaxItems,    \* bound: rows the model lets the table reach
  NULL         \* SQL NULL

(* A queue.NewItem: what extraction knows of a document.  `suppressed' is *)
(* the F-36 known-Peppol match, `manual' stands for needs_manual_handling *)
(* or unsupported_type: the two flags that bar approval from the UI.      *)
NewItem == [msg : Msgs, sha : Shas, key : Keys \cup {NULL},
            suppressed : BOOLEAN, manual : BOOLEAN]

Status == {"staged", "approved", "rejected", "already_in_portal", "uploaded",
           "failed", "suppressed_peppol", "duplicate_linked"}

Actor == {"human", "daemon"}

DedupLayer == {"L2", "L3"}

(* The statuses the L2/L3 look-ups and the partial unique index range over. *)
ActiveDedupStatuses == {"staged", "approved", "uploaded", "already_in_portal"}

ASSUME QueueAssumption ==
  /\ VendorOf \in [Msgs -> Vendors \cup {NULL}]
  /\ TaughtOf \in [Msgs -> Vendors \cup {NULL}]
  /\ Candidates \subseteq NewItem
  /\ MaxItems \in Nat
  /\ NULL \notin Keys \cup Vendors \cup Status \cup DedupLayer

VARIABLES
  row,       \* item, the columns fixed at staging: a sequence indexed by id
  status,    \* item.status, indexed by id
  teaching,  \* vendor_teaching: the keys that have a row
  log        \* item_transition: every row ever inserted

vars == <<row, status, teaching, log>>

Ids == 1..Len(row)

Row == [msg : Msgs, sha : Shas, key : Keys \cup {NULL}, manual : BOOLEAN,
        layer : DedupLayer \cup {NULL}, linked : Nat, handled : BOOLEAN]

NoLink == 0   \* linked_item_id IS NULL; ids start at 1

Transition == [id : Nat \ {0}, from : Status \cup {NULL}, to : Status, actor : Actor]

Active(i) == status[i] \in ActiveDedupStatuses

Oldest(S) == CHOOSE i \in S : \A j \in S : i <= j
-----------------------------------------------------------------------------
(* StageItem's look-ups. *)

(* Slip: looks at the oldest row of the pair instead of any rejected one.   *)
RejectedByOldestRow(in) ==
  LET pair == {i \in Ids : row[i].msg = in.msg /\ row[i].sha = in.sha}
  IN pair # {} /\ status[Oldest(pair)] = "rejected"

(* F-44 rejection memory. *)
Rejected(in) ==
  \E i \in Ids : /\ row[i].msg = in.msg
                 /\ row[i].sha = in.sha
                 /\ status[i] = "rejected"

(* Slip: a document filed by hand does not count as held by the portal.     *)
SameBytesUnlessFiled(sha) ==
  {i \in Ids : row[i].sha = sha /\ status[i] \in {"staged", "approved", "uploaded"}}

(* Slip: a document the portal already has does not count either.           *)
SameBytesInReview(sha) ==
  {i \in Ids : row[i].sha = sha /\ status[i] \in {"staged", "approved"}}

(* F-31 (L2): active items with the same bytes. *)
SameBytes(sha) == {i \in Ids : row[i].sha = sha /\ Active(i)}

(* Slip: L3 matches rows of any status.                                     *)
SameIdentityAnyStatus(key) == {i \in Ids : key # NULL /\ row[i].key = key}

(* F-32 (L3): active items with the same identity key. *)
SameIdentity(key) == {i \in Ids : key # NULL /\ row[i].key = key /\ Active(i)}

(* Slip: a misspelt status constant; the column is free text without CHECK. *)
InitialStatusMisspelt(in) ==
  IF in.suppressed THEN "suppressed"
  ELSE IF SameBytes(in.sha) # {} THEN "duplicate_linked"
  ELSE "staged"

(* The row StageItem inserts, and the status it inserts it with.  Peppol    *)
(* suppression comes first and skips L2, L3 and L4; an L2 match skips L3    *)
(* and L4; L3 and L4 only annotate.                                         *)
InitialStatus(in) ==
  IF in.suppressed THEN "suppressed_peppol"
  ELSE IF SameBytes(in.sha) # {} THEN "duplicate_linked"
  ELSE "staged"

StagedRow(in) ==
  LET st     == InitialStatus(in)
      layer  == IF st = "duplicate_linked" THEN "L2"
                ELSE IF st = "staged" /\ SameIdentity(in.key) # {} THEN "L3"
                ELSE NULL
  IN [msg     |-> in.msg,
      sha     |-> in.sha,
      key     |-> in.key,
      manual  |-> in.manual,
      layer   |-> layer,
      linked  |-> IF layer = "L2" THEN Oldest(SameBytes(in.sha))
                  ELSE IF layer = "L3" THEN Oldest(SameIdentity(in.key))
                  ELSE NoLink,
      handled |-> st = "staged" /\ VendorOf[in.msg] \in teaching]

LogRow(i, from, to, actor) == [id |-> i, from |-> from, to |-> to, actor |-> actor]

(* StageItem: insert the document unless this (message, sha256) pair was    *)
(* rejected before, and log its birth.                                      *)
StageItem(in) ==
  /\ Len(row) < MaxItems
  /\ ~Rejected(in)
  /\ row' = Append(row, StagedRow(in))
  /\ status' = Append(status, InitialStatus(in))
  /\ log' = log \cup {LogRow(Len(row) + 1, NULL, InitialStatus(in), "daemon")}
  /\ UNCHANGED teaching
-----------------------------------------------------------------------------
(* The F-41 lifecycle. *)

(* Slip: the override's shortcut that lifecycle.go:19-26 rules out.         *)
AllowedTransitionsWithShortcut ==
  {<<"staged", "approved">>, <<"staged", "rejected">>, <<"staged", "already_in_portal">>,
   <<"approved", "uploaded">>, <<"approved", "failed">>,
   <<"suppressed_peppol", "staged">>, <<"suppressed_peppol", "approved">>}

AllowedTransitions ==
  {<<"staged", "approved">>, <<"staged", "rejected">>, <<"staged", "already_in_portal">>,
   <<"approved", "uploaded">>, <<"approved", "failed">>,
   <<"suppressed_peppol", "staged">>}

(* Slip: the migration that creates the index is lost.                      *)
IndexAdmitsAnything(i, to) == TRUE

(* idx_item_sha256_active: an UPDATE fails, and the transaction rolls back, *)
(* when it would leave two active rows with the same bytes.  (The INSERT of *)
(* StageItem never meets the index: L2 looks for the same rows first.       *)
(* OneActivePerSha says so.)                                                *)
IndexAdmits(i, to) ==
  to \in ActiveDedupStatuses => SameBytes(row[i].sha) \subseteq {i}

(* Slip: `from' is read after the update.                                   *)
MoveThenRead(i, to, actor) ==
  /\ i \in Ids
  /\ <<status[i], to>> \in AllowedTransitions
  /\ IndexAdmits(i, to)
  /\ status' = [status EXCEPT ![i] = to]
  /\ log' = log \cup {LogRow(i, to, to, actor)}
  /\ UNCHANGED row

(* db.transition: check the edge, update the status, log the row.           *)
Move(i, to, actor) ==
  /\ i \in Ids
  /\ <<status[i], to>> \in AllowedTransitions
  /\ IndexAdmits(i, to)
  /\ status' = [status EXCEPT ![i] = to]
  /\ log' = log \cup {LogRow(i, status[i], to, actor)}
  /\ UNCHANGED row

Approve(i) == Move(i, "approved", "human") /\ UNCHANGED teaching

Reject(i) == Move(i, "rejected", "human") /\ UNCHANGED teaching

(* The key that the handler falls back to without a sender domain.          *)
ItemKey(i) == <<"unknown-vendor-item", i>>

(* What a mark on the item may teach: the domain that the review UI reads   *)
(* in the header of its message, or the item's own key when it finds none   *)
(* there or the message could not be loaded.                                *)
KeysTaught(i) == ({TaughtOf[row[i].msg]} \ {NULL}) \cup {ItemKey(i)}

(* Slip: status and teaching written by two calls, and the second is lost.  *)
MarkAlreadyInPortalCutShort(i) ==
  /\ Move(i, "already_in_portal", "human")
  /\ UNCHANGED teaching

(* The status and the vendor_teaching row are written in one transaction.   *)
MarkAlreadyInPortalWithTeaching(i) ==
  /\ Move(i, "already_in_portal", "human")
  /\ \E key \in KeysTaught(i) : teaching' = teaching \cup {key}

OverridePeppolSuppression(i) == Move(i, "staged", "human") /\ UNCHANGED teaching

MarkUploaded(i) == Move(i, "uploaded", "daemon") /\ UNCHANGED teaching

MarkFailed(i) == Move(i, "failed", "daemon") /\ UNCHANGED teaching
-----------------------------------------------------------------------------
Init ==
  /\ row = <<>>
  /\ status = <<>>
  /\ teaching = {}
  /\ log = {}

(* handleApprove and handleApproveAll refuse the items that need manual     *)
(* handling, which the lifecycle itself does not know of.                   *)
HandleApprove(i) == i \in Ids /\ ~row[i].manual /\ Approve(i)

(* What the review UI's handlers call, and what the uploader calls.         *)
Review(i) ==
  \/ HandleApprove(i)
  \/ Reject(i)
  \/ MarkAlreadyInPortalWithTeaching(i)
  \/ OverridePeppolSuppression(i)

Outcome(i) ==
  \/ MarkUploaded(i)
  \/ MarkFailed(i)

Lifecycle(i) == Review(i) \/ Outcome(i)

Next ==
  \/ \E in \in Candidates : StageItem(in)
  \/ \E i \in Ids : Lifecycle(i)

Spec == Init /\ [][Next]_vars
-----------------------------------------------------------------------------
(* Properties. *)

(* Type invariant: the four tables hold rows of their declared shape and    *)
(* every item has a status.                                                 *)
TypeOK ==
  /\ row \in Seq(Row)
  /\ status \in Seq(Status)
  /\ Len(status) = Len(row)
  /\ teaching \subseteq Vendors \cup {ItemKey(i) : i \in Ids}
  /\ log \subseteq Transition

(* At most one row with given bytes is active.  For UPDATE the partial      *)
(* unique index enforces it; for INSERT it says that StageItem's L2 look-up *)
(* and the index agree on what "active" is, so that staging never fails on  *)
(* the index (item.go:82-100, schema.go:84-85).                             *)
OneActivePerSha ==
  \A i, j \in Ids :
    Active(i) /\ Active(j) /\ row[i].sha = row[j].sha => i = j

Entries(i, from, to, actor) == LogRow(i, from, to, actor) \in log

(* G-3 and F-36: an item past review was approved by a human and never by   *)
(* the daemon, and one that was born suppressed was first released by an    *)
(* override of its own: there is no hidden path from suppressed to approved *)
(* (lifecycle.go:19-26).  AC-7: none of them is an item that needs manual   *)
(* handling (handlers.go:90-94).                                            *)
NothingPassesUnreviewed ==
  \A i \in Ids : status[i] \in {"approved", "uploaded", "failed"} =>
    /\ Entries(i, "staged", "approved", "human")
    /\ ~Entries(i, "staged", "approved", "daemon")
    /\ Entries(i, NULL, "suppressed_peppol", "daemon")
         => Entries(i, "suppressed_peppol", "staged", "human")
    /\ ~row[i].manual

(* item_transition tells each item's whole story: one birth, and from it an *)
(* unbroken chain of moves that ends in the status the item has now - every *)
(* status entered is the present one or was left, every status left was     *)
(* entered, and the present one was not left (lifecycle.go:52-57: an update *)
(* and its log row commit together).                                        *)
LogTellsTheStory ==
  \A i \in Ids :
    LET story == {e \in log : e.id = i} IN
    /\ \E birth \in story : {e \in story : e.from = NULL} = {birth}
    /\ \A e \in story : e.to = status[i] \/ \E f \in story : f.from = e.to
    /\ \A e \in story : e.from = NULL \/ \E f \in story : f.to = e.from
    /\ \E e \in story : e.to = status[i]
    /\ \A e \in story : e.from # status[i]

(* linked_item_id points back in time, at an item with the same bytes (L2)  *)
(* or the same identity key (L3) that has been in review: never at itself,  *)
(* at a copy or at a suppressed item, and a staged copy never hides bytes   *)
(* that nobody was shown (item.go:83-122).                                  *)
LinksPointBack ==
  \A i \in Ids :
    /\ row[i].layer = NULL <=> row[i].linked = NoLink
    /\ status[i] = "duplicate_linked" <=> row[i].layer = "L2"
    /\ row[i].linked # NoLink =>
         LET l == row[i].linked IN
         /\ l < i
         /\ status[l] \notin {"suppressed_peppol", "duplicate_linked"}
         /\ IF row[i].layer = "L2" THEN row[l].sha = row[i].sha
                                   ELSE row[l].key = row[i].key /\ row[i].key # NULL

(* F-44: what a human rejected for a message is not put before anybody      *)
(* again for that message, unless a human overrides the Peppol suppression  *)
(* of another row for it (item.go:57-71).                                   *)
RejectionIsRemembered ==
  \A i, j \in Ids :
    /\ status[i] = "rejected"
    /\ row[i].msg = row[j].msg
    /\ row[i].sha = row[j].sha
    /\ Active(j)
    => Entries(j, "suppressed_peppol", "staged", "human")

(* F-34/F-35: the "probably already handled" badge is shown only where a    *)
(* human had marked an earlier item as already in the portal whose mark may *)
(* have taught the very domain that this item was staged under, although    *)
(* the two are read from the headers in different ways; every mark left a   *)
(* row behind, and no row is there without its mark (lifecycle.go:126-156). *)
Filed == {i \in Ids : status[i] = "already_in_portal"}

TeachingIsEarned ==
  /\ \A i \in Ids : row[i].handled =>
       \E j \in Filed : j < i /\ VendorOf[row[i].msg] \in KeysTaught(j)
  /\ \A j \in Filed : KeysTaught(j) \cap teaching # {}
  /\ \A key \in teaching : \E j \in Filed : key \in KeysTaught(j)

(* The queue implements the ledger of documents: a consent is a row in      *)
(* status approved, a settled document one that was uploaded or marked as   *)
(* already in the portal.  So a second human approval of the same bytes is  *)
(* impossible while one stands and after the portal has them, through       *)
(* whatever message, copy or override they come back (F-31, ADR-001).       *)
DocsIn(P) == {row[i].sha : i \in {k \in Ids : status[k] \in P}}

Consented == DocsIn({"approved"})
Settled == DocsIn({"uploaded", "already_in_portal"})

DocumentLedger == INSTANCE Ledger WITH
  Docs <- Shas, consented <- Consented, settled <- Settled

ImplementsLedger == DocumentLedger!LedgerSpec
=============================================================================
