------------------------------ MODULE IamServer ------------------------------
(***************************************************************************)
(* The part of RustFS the User and Policy controllers share: users with    *)
(* their attached policies, and the policies.  The server is external; it  *)
(* is modelled from the calls src/provider.rs makes and what docs/ records *)
(* of its answers.                                                         *)
(***************************************************************************)
EXTENDS ResourceController

CONSTANTS
  UserCRs, PolicyCRs,       \* the resources of each kind, together CRs
  UserSpecs, PolicySpecs,   \* the specs of each kind, together Specs
  UserNames, PolicyNames,   \* names on the server
  Documents,                \* names of policy documents
  Passwords,
  AttachChecked             \* does the server refuse to attach an unknown policy?

ASSUME KindsAssumption ==
  CRs = UserCRs \union PolicyCRs /\ UserCRs \intersect PolicyCRs = {}

UserSpecRecords ==
  [connection : {"ok", "invalid"}, name : UserNames, enabled : BOOLEAN,
   policies : SUBSET PolicyNames, deletion : DeletionPolicies]

PolicySpecRecords ==
  [connection : {"ok", "invalid"}, name : PolicyNames, document : Documents,
   deletion : DeletionPolicies]

ASSUME SpecsAssumption ==
  /\ Specs = UserSpecs \union PolicySpecs
  /\ UserSpecs \subseteq UserSpecRecords /\ PolicySpecs \subseteq PolicySpecRecords

ASSUME NoneIsNoDocument == None \notin Documents

VARIABLES
  users,     \* users[u]: the server's user, and the resource it was created for
  policies   \* policies[p]: the server's policy; document = None: absent

NoUser ==
  [exists |-> FALSE, password |-> None, enabled |-> FALSE, policies |-> {}, by |-> None]

NoPolicy == [document |-> None, by |-> None]

UserRecords ==
  [exists : BOOLEAN, password : Passwords \union {None}, enabled : BOOLEAN,
   policies : SUBSET PolicyNames, by : CRs \union {None}]

PolicyRecords == [document : Documents \union {None}, by : CRs \union {None}]

ServerInit ==
  /\ users = [u \in UserNames |-> NoUser]
  /\ policies = [p \in PolicyNames |-> NoPolicy]

SetUser(u, r) == users' = [users EXCEPT ![u] = r] /\ UNCHANGED policies

SetPolicy(p, r) == policies' = [policies EXCEPT ![p] = r] /\ UNCHANGED users

SameServer == UNCHANGED <<users, policies>>

(***************************************************************************)
(* A policy in use is not deleted; an unknown one may not be attached.     *)
(***************************************************************************)
Attached(p) == \E u \in UserNames : p \in users[u].policies

Attachable(ps) == AttachChecked => \A p \in ps : policies[p].document # None
=============================================================================
