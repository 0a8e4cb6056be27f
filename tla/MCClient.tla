------------------------------ MODULE MCClient ------------------------------
(***************************************************************************)
(* Instances of Client: three callers and the one slot that the program    *)
(* asks for; one status of each class Classify tells apart.                *)
(***************************************************************************)
EXTENDS Client

CONSTANTS c1, c2, c3

MCStatuses == {200, 304, 400, 401, 429, 503}
=============================================================================
