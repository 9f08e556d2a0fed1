-------------------------------- MODULE MCIam --------------------------------
(***************************************************************************)
(* Small instances of IamControllers for TLC.                              *)
(***************************************************************************)
EXTENDS IamControllers, TLC

CONSTANTS u1, p1

AllFaults ==
  {"finalizer", "status", "connection", "call", "reply", "secretRead", "crash", "drift"}

NoFaults == {}

IamFaults == {"call", "crash", "drift", "notFound"}

-----------------------------------------------------------------------------
(***************************************************************************)
(* Documents: one statement that allows reading and writing; the same with *)
(* its actions the other way around; with writing denied; for some keys    *)
(* only; and for requests whose prefix is the empty one.                   *)
(***************************************************************************)
Statement(effect, actions) ==
  [Effect |-> Str(effect), Action |-> Arr(actions), Resource |-> Arr(<<Str("demo")>>)]

Document(statements) ==
  Obj([Version |-> Str("2012-10-17"),
       Statement |-> Arr([i \in DOMAIN statements |-> Obj(statements[i])])])

ReadWrite == Statement("Allow", <<Str("get"), Str("put")>>)

OnPrefix(prefix) ==
  ReadWrite @@ [Condition |-> Obj([StringEquals |-> Obj([prefix |-> Str(prefix)])])]

Texts ==
  [read     |-> Document(<<ReadWrite>>),
   reversed |-> Document(<<Statement("Allow", <<Str("put"), Str("get")>>)>>),
   denied   |-> Document(<<ReadWrite, Statement("Deny", <<Str("put")>>)>>),
   scoped   |-> Document(<<OnPrefix("home")>>),
   root     |-> Document(<<OnPrefix("")>>)]

AllRequests ==
  [action : {"get", "put"}, resource : {"demo", "other"},
   keys : [{"prefix"} -> {"", "home"}]]

(***************************************************************************)
(* The documents, what the server makes of them, and their parts.          *)
(***************************************************************************)
WithParts(values) == values \union UNION {Components(v) : v \in values}

Whole == UNION {{Texts[d]} \union Answers(Texts[d]) : d \in DOMAIN Texts}

AllJson == WithParts(WithParts(WithParts(WithParts(WithParts(WithParts(WithParts(Whole)))))))

-----------------------------------------------------------------------------
UserSpec ==
  [connection |-> "ok", name |-> u1, enabled |-> TRUE, policies |-> {p1},
   deletion |-> "Delete"]

PolicySpec ==
  [connection |-> "ok", name |-> p1, document |-> "read", deletion |-> "Delete"]

(***************************************************************************)
(* A user alone: disabled and re-enabled, without its policy, an outage.   *)
(***************************************************************************)
ManyUsers ==
  {UserSpec, [UserSpec EXCEPT !.enabled = FALSE, !.policies = {}],
   [UserSpec EXCEPT !.connection = "invalid"]}

(***************************************************************************)
(* A policy alone: rewritten, reordered, restricted.                       *)
(***************************************************************************)
ManyPolicies == {[PolicySpec EXCEPT !.document = d] : d \in Documents}

(***************************************************************************)
(* One resource at a time.                                                 *)
(***************************************************************************)
OneKind == \A c, d \in CRs : c = d \/ cr[c].uid = 0 \/ cr[d].uid = 0

(***************************************************************************)
(* A user with or without the policy, which may be retained.               *)
(***************************************************************************)
LiveUsers == {UserSpec, [UserSpec EXCEPT !.enabled = FALSE, !.policies = {}]}

LivePolicies == {PolicySpec, [PolicySpec EXCEPT !.deletion = "Retain"]}

OneUser == {UserSpec}

(***************************************************************************)
(* A policy restricted to the empty prefix by an edit.                     *)
(***************************************************************************)
RestrictedPolicies == {PolicySpec, [PolicySpec EXCEPT !.document = "root"]}

IamSpecs == UserSpecs \union PolicySpecs
=============================================================================
