------------------------------ MODULE MCIntake ------------------------------
(***************************************************************************)
(* Instances of Intake: a message with two documents, and one that brings  *)
(* the first of them again.                                                *)
(***************************************************************************)
EXTENDS Intake

CONSTANTS m1, m2, s1, s2

MCVendorOf == (m1 :> NULL) @@ (m2 :> NULL)

Doc(msg, sha) ==
  [msg |-> msg, sha |-> sha, key |-> NULL, suppressed |-> FALSE, manual |-> FALSE]

MCDocsOf == (m1 :> <<Doc(m1, s1), Doc(m1, s2)>>) @@ (m2 :> <<Doc(m2, s1)>>)

MCCandidates == {Doc(m1, s1), Doc(m1, s2), Doc(m2, s1)}

RefusedCopy == {Doc(m2, s1)}

(* The bound of the run MCIntake: with mail that a fallback has left out,   *)
(* nobody uses `postbode retry' or rejects an item.                         *)
Bound == beyond' # {} => asks' = 0 /\ \A i \in Ids' : status'[i] # "rejected"

(* FairISpec within the bound: no step of the poll uses the two, and with   *)
(* them there is always the fallback that leaves nothing out.               *)
BoundedISpec == IInit /\ [][INext /\ Bound]_ivars /\ WF_ivars(PollStep /\ Bound)
=============================================================================
