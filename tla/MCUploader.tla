----------------------------- MODULE MCUploader -----------------------------
(***************************************************************************)
(* Instances of Uploader: one message with two documents, and the first of *)
(* them again in a second message.                                         *)
(***************************************************************************)
EXTENDS Uploader, TLC

CONSTANTS m1, m2, s1, s2, u1, u2

MCVendorOf == (m1 :> NULL) @@ (m2 :> NULL)

Doc(msg, sha) ==
  [msg |-> msg, sha |-> sha, key |-> NULL, suppressed |-> FALSE, manual |-> FALSE]

MCCandidates == {Doc(m1, s1), Doc(m1, s2), Doc(m2, s1)}

OneDocument == {Doc(m1, s1)}

(* The bound of the run MCUploader: the first item is m1's s1; two daemons  *)
(* and two faults with that item alone, one daemon and one fault with a     *)
(* second item.  Both without faults, where two daemons can get in each     *)
(* other's way over two items: when the first was given up under u2, a copy *)
(* of it comes in and u1 uploads it at the first attempt, and when the      *)
(* message's other document comes in behind the first.                      *)
Bound ==
  /\ row' # <<>> => row'[1].msg = m1 /\ row'[1].sha = s1
  /\ \/ Len(row') <= 1
     \/ pc'[u2] = "down" /\ faults' <= 1
     \/ /\ faults' = 0
        /\ \/ /\ status'[1] = "failed" /\ row'[2].sha = s1 /\ held'[u2] = 1
              /\ held'[u1] = 2 => pc'[u1] # "retryable"
           \/ status'[1] = "uploaded" /\ row'[2].msg = m1 /\ status'[2] = "staged"

(* FairUSpec within the bound.  Only steps within it are owed, so fairness  *)
(* asks for nothing that the next-state relation forbids.                   *)
BoundedUSpec ==
  /\ UInit /\ [][UNext /\ Bound]_uvars
  /\ \A p \in Procs : WF_uvars(Step(p) /\ Bound) /\ WF_uvars(Start(p) /\ Bound)
  /\ WF_uvars(Tick)

====
