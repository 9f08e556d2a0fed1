-------------------------- MODULE PolicyController --------------------------
(***************************************************************************)
(* The Policy controller (src/reconcile/policy.rs).                        *)
(*                                                                         *)
(* Specs and server hold documents by name; Text has their JSON.           *)
(***************************************************************************)
EXTENDS IamServer, PolicyDocuments

CONSTANTS
  Text,      \* the JSON of every document
  Requests   \* the requests documents are told apart by

ASSUME TextAssumption ==
  Documents \subseteq DOMAIN Text /\ \A d \in Documents : Text[d] \in Json

PolicyName(o, c) == obj[o][c].spec.name

DocumentOf(o, c) == obj[o][c].spec.document

(***************************************************************************)
(* Whether the server's answer for document d counts as document e.        *)
(***************************************************************************)
Verdicts ==
  [d, e \in Documents |-> {DocumentsEquivalent(a, Text[e]) : a \in Answers(Text[d])}]

GetPolicy(o, c) ==
  LET d == policies[PolicyName(o, c)].document
  IN /\ pc[o][c] = "getPolicy"
     /\ \E inSync \in IF d = None THEN {FALSE} ELSE Verdicts[d, DocumentOf(o, c)] :
          Query(o, c, IF inSync THEN "status" ELSE "putPolicy")
     /\ SameServer

PutPolicy(o, c) ==
  LET p == PolicyName(o, c)
      owner == IF policies[p].document = None THEN c ELSE policies[p].by
  IN /\ pc[o][c] = "putPolicy"
     /\ Call(o, c, TRUE, SetPolicy(p, [document |-> DocumentOf(o, c), by |-> owner]),
             SameServer, "status")

DeletePolicy(o, c) ==
  Delete(o, c, ~Attached(PolicyName(o, c)), SetPolicy(PolicyName(o, c), NoPolicy),
         SameServer)

ReconcilePolicy(o, c) ==
  \/ (LocalStep(o, c) \/ Connect(o, c, "apply", "getPolicy")) /\ SameServer
  \/ GetPolicy(o, c) \/ PutPolicy(o, c)
  \/ DeletePolicy(o, c)

(***************************************************************************)
(* A misleading answer.  A document of the server's that does not parse,   *)
(* which only another tool can have put there, has the same outcome: it    *)
(* counts as out of sync and the document of the spec is put.              *)
(***************************************************************************)
DeniedPolicy(o, c) ==
  /\ Denied(o, c, "getPolicy", "putPolicy") \/ Denied(o, c, "delete", "removeFinalizer")
  /\ SameServer

(***************************************************************************)
(* What a document means: the requests it allows.                          *)
(***************************************************************************)
Allowed == [d \in Documents |-> {r \in Requests : Allows(Text[d], r)}]

(***************************************************************************)
(* Another tool replaces or removes a policy the server lets it remove.    *)
(***************************************************************************)
DriftPolicy(p) ==
  /\ Drift
  /\ policies[p].document # None
  /\ \/ \E d \in Documents : SetPolicy(p, [policies[p] EXCEPT !.document = d])
     \/ ~Attached(p) /\ SetPolicy(p, NoPolicy)
=============================================================================
