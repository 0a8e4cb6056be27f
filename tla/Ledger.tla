------------------------------ MODULE Ledger ------------------------------
(***************************************************************************)
(* What the review queue promises about a document's bytes, whatever       *)
(* messages carry them and however many rows they get.  A document may be  *)
(* given consent once at a time; a delivery or a terminal failure uses the *)
(* consent up; a document the portal holds - because Postbode delivered it *)
(* or because the human filed it as already there - is settled for good:   *)
(* it is never consented to again and never delivered again.               *)
(***************************************************************************)
CONSTANT Docs

VARIABLES
  consented,  \* documents with a standing human consent
  settled     \* documents the portal is known to hold

ledgerVars == <<consented, settled>>

LedgerInit == consented = {} /\ settled = {}

Consent(d) ==
  /\ d \notin consented \cup settled
  /\ consented' = consented \cup {d}
  /\ UNCHANGED settled

Deliver(d) ==
  /\ d \in consented \ settled
  /\ consented' = consented \ {d}
  /\ settled' = settled \cup {d}

GiveUp(d) ==
  /\ d \in consented
  /\ consented' = consented \ {d}
  /\ UNCHANGED settled

File(d) ==
  /\ d \notin consented \cup settled
  /\ settled' = settled \cup {d}
  /\ UNCHANGED consented

LedgerNext == \E d \in Docs : Consent(d) \/ Deliver(d) \/ GiveUp(d) \/ File(d)

LedgerSpec == LedgerInit /\ [][LedgerNext]_ledgerVars
=============================================================================
