----------------------------- MODULE MCAccessKey -----------------------------
(***************************************************************************)
(* Small instances of AccessKeyController for TLC.                         *)
(***************************************************************************)
EXTENDS AccessKeyController, TLC

CONSTANTS c1, u1, u2, k1

AllFaults ==
  {"finalizer", "status", "connection", "call", "reply", "secretRead",
   "secretWrite", "crash", "drift"}

(***************************************************************************)
(* The same and answers that mention "not found" of an object that exists. *)
(***************************************************************************)
LiveFaults == AllFaults \union {"notFound"}

(***************************************************************************)
(* The faults after which a generated key can still be found, and which    *)
(* do not part the server's copy of a pair from the Secret's: none that    *)
(* comes between CreateKey and the status patch that records its id.       *)
(***************************************************************************)
TraceableFaults == {"finalizer", "connection", "call", "drift"}

Valid ==
  [connection |-> "ok", user |-> u1, accessKey |-> k1,
   passwordRef |-> FALSE, deletion |-> "Delete"]

Generated == [Valid EXCEPT !.accessKey = None]

(***************************************************************************)
(* Specs a user may alternate between while the pinned id stays the same.  *)
(***************************************************************************)
PinnedSpecs ==
  {Valid, [Valid EXCEPT !.connection = "invalid"], [Valid EXCEPT !.passwordRef = TRUE]}

(***************************************************************************)
(* Every kind of spec: pinned, generated, colliding with the owner or with *)
(* another user, retained.                                                 *)
(***************************************************************************)
MixedSpecs ==
  {Valid, Generated, [Valid EXCEPT !.accessKey = u1], [Valid EXCEPT !.accessKey = u2],
   [Valid EXCEPT !.deletion = "Retain"], [Valid EXCEPT !.connection = "invalid"]}

(***************************************************************************)
(* A pinned and a generated id, one the server refuses, and an outage.     *)
(***************************************************************************)
PairSpecs ==
  {Valid, Generated, [Valid EXCEPT !.accessKey = u2],
   [Valid EXCEPT !.connection = "invalid"]}

GeneratedOnly == {Generated}
PinnedOnly == {Valid}

(***************************************************************************)
(* The single faults that refute what the code or its documents say.       *)
(***************************************************************************)
NoFaults == {}
UnwritableSecret == {"secretWrite", "drift"}
UnrecordedKey == {"reply", "secretWrite", "status", "crash"}

RandomSymmetry == Permutations(SecretKeys) \union Permutations(GeneratedIds)
=============================================================================
