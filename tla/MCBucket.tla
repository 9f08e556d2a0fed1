------------------------------- MODULE MCBucket -------------------------------
(***************************************************************************)
(* Small instances of BucketController for TLC.                            *)
(***************************************************************************)
EXTENDS BucketController, TLC

CONSTANT b1

AllFaults ==
  {"finalizer", "status", "connection", "call", "reply", "crash", "drift", "use",
   "notFound", "late"}

NoFaults == {}

Limited ==
  [connection |-> "ok", name |-> b1, versioning |-> TRUE, quota |-> 5,
   deletion |-> "Delete"]

(***************************************************************************)
(* Attributes managed, changed and left alone; an outage.                  *)
(***************************************************************************)
EditedSpecs ==
  {Limited, [Limited EXCEPT !.versioning = FALSE, !.quota = 0],
   [Limited EXCEPT !.versioning = None, !.connection = "invalid"]}

OneSpec == {Limited}
=============================================================================
