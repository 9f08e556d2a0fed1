--------------------------- MODULE UserController ---------------------------
(***************************************************************************)
(* The User controller (src/reconcile/user.rs).                            *)
(*                                                                         *)
(* apply() reads the password Secret before anything else and the user     *)
(* once; everything it then writes is decided from that one answer.        *)
(***************************************************************************)
EXTENDS IamServer

VARIABLES
  passwords,   \* passwords[c]: the password Secret of c, None if missing
  seen         \* seen[o][c]: what the running apply() has read

userVars == <<passwords, seen>>

NothingSeen == [password |-> None, enabled |-> FALSE, policies |-> {}]

SeenRecords ==
  [password : Passwords \union {None}, enabled : BOOLEAN, policies : SUBSET PolicyNames]

UserInit ==
  /\ passwords \in [UserCRs -> Passwords]
  /\ seen = [o \in Operators |-> [c \in UserCRs |-> NothingSeen]]

UserName(o, c) == obj[o][c].spec.name

RemoteUser(o, c) == users[UserName(o, c)]

(***************************************************************************)
(* What was read is dropped with the Result that was reached from it.      *)
(***************************************************************************)
See(o, c, r) ==
  seen' = [seen EXCEPT ![o][c] = IF pc'[o][c] = "status" THEN NothingSeen ELSE r]

-----------------------------------------------------------------------------
ReadPassword(o, c) ==
  /\ pc[o][c] = "apply"
  /\ \/ /\ passwords[c] # None /\ NoFault
        /\ Proceed(o, c, "connect")
        /\ See(o, c, [NothingSeen EXCEPT !.password = passwords[c]])
     \/ passwords[c] = None /\ NoFault /\ Fail(o, c, "config") /\ UNCHANGED seen
     \/ Fault("secretRead") /\ Fail(o, c, "config") /\ UNCHANGED seen
  /\ SameServer /\ UNCHANGED passwords

(***************************************************************************)
(* The order of ensure_user: existence, enabled, policies.  A user just    *)
(* created counts as enabled and without policies.                         *)
(***************************************************************************)
NeedsCreationToRotate(u, password) ==   \* mutant: applies a new password
  u.password # password

NeedsCreation(u, password) == ~u.exists

AfterEnabledAdditive(x, attached) ==   \* mutant: extra attachments stay
  IF x.spec.policies \subseteq attached THEN "status" ELSE "setPolicies"

AfterEnabled(x, attached) ==
  IF attached # x.spec.policies THEN "setPolicies" ELSE "status"

AfterExistenceAlone(x, enabled, attached) ==   \* mutant: policies forgotten
  IF enabled # x.spec.enabled THEN "setStatus" ELSE "status"

AfterExistence(x, enabled, attached) ==
  IF enabled # x.spec.enabled THEN "setStatus" ELSE AfterEnabled(x, attached)

GetUser(o, c) ==
  LET u == RemoteUser(o, c)
  IN /\ pc[o][c] = "getUser"
     /\ Query(o, c, IF NeedsCreation(u, seen[o][c].password)
                   THEN "createUser" ELSE AfterExistence(obj[o][c], u.enabled, u.policies))
     /\ See(o, c, [seen[o][c] EXCEPT !.enabled = u.enabled, !.policies = u.policies])
     /\ SameServer /\ UNCHANGED passwords

(***************************************************************************)
(* The server takes the creation of a user that exists as a new password.  *)
(***************************************************************************)
Created(o, c) ==
  IF RemoteUser(o, c).exists
    THEN [RemoteUser(o, c) EXCEPT !.password = seen[o][c].password]
    ELSE [exists |-> TRUE, password |-> seen[o][c].password, enabled |-> TRUE,
          policies |-> {}, by |-> c]

CreateUser(o, c) ==
  /\ pc[o][c] = "createUser"
  /\ Call(o, c, TRUE, SetUser(UserName(o, c), Created(o, c)), SameServer,
          AfterExistence(obj[o][c], TRUE, {}))
  /\ See(o, c, [seen[o][c] EXCEPT !.enabled = TRUE, !.policies = {}])
  /\ UNCHANGED passwords

SetUserStatus(o, c) ==
  /\ pc[o][c] = "setStatus"
  /\ Call(o, c, RemoteUser(o, c).exists,
          SetUser(UserName(o, c), [RemoteUser(o, c) EXCEPT !.enabled = obj[o][c].spec.enabled]),
          SameServer, AfterEnabled(obj[o][c], seen[o][c].policies))
  /\ See(o, c, seen[o][c])
  /\ UNCHANGED passwords

(***************************************************************************)
(* The endpoint replaces the whole attachment set.                         *)
(***************************************************************************)
SetUserPolicies(o, c) ==
  LET ps == obj[o][c].spec.policies
  IN /\ pc[o][c] = "setPolicies"
     /\ Call(o, c, RemoteUser(o, c).exists /\ Attachable(ps),
             SetUser(UserName(o, c), [RemoteUser(o, c) EXCEPT !.policies = ps]),
             SameServer, "status")
     /\ See(o, c, seen[o][c])
     /\ UNCHANGED passwords

DeleteUser(o, c) ==
  /\ Delete(o, c, TRUE, SetUser(UserName(o, c), NoUser), SameServer)
  /\ UNCHANGED userVars

ReconcileUser(o, c) ==
  \/ ReadPassword(o, c)
  \/ LocalStep(o, c) /\ SameServer /\ UNCHANGED userVars
  \/ /\ Connect(o, c, "connect", "getUser") /\ See(o, c, seen[o][c])
     /\ SameServer /\ UNCHANGED passwords
  \/ GetUser(o, c) \/ CreateUser(o, c) \/ SetUserStatus(o, c) \/ SetUserPolicies(o, c)
  \/ DeleteUser(o, c)

(***************************************************************************)
(* A user that seems to be absent is created anew.                         *)
(***************************************************************************)
DeniedUser(o, c) ==
  /\ \/ Denied(o, c, "getUser", "createUser") /\ See(o, c, seen[o][c])
     \/ Denied(o, c, "delete", "removeFinalizer") /\ UNCHANGED seen
  /\ SameServer /\ UNCHANGED passwords

-----------------------------------------------------------------------------
(***************************************************************************)
(* People edit and lose password Secrets, and create users themselves.     *)
(***************************************************************************)
EditPassword(c) ==
  /\ \E p \in Passwords \ {passwords[c]} : passwords' = [passwords EXCEPT ![c] = p]
  /\ SameServer /\ UNCHANGED <<controllerVars, seen>>

LosePassword(c) ==
  /\ Fault("drift")
  /\ passwords' = [passwords EXCEPT ![c] = None]
  /\ SameServer /\ UNCHANGED <<cr, cache, obj, pc, wake, result, meddled, seen>>

DriftUser(u) ==
  /\ Drift
  /\ \/ ~users[u].exists /\ \E p \in Passwords :
          SetUser(u, [NoUser EXCEPT !.exists = TRUE, !.password = p, !.enabled = TRUE])
     \/ users[u].exists /\ \E e \in BOOLEAN, ps \in SUBSET PolicyNames :
          Attachable(ps) /\ SetUser(u, [users[u] EXCEPT !.enabled = e, !.policies = ps])
     \/ users[u].exists /\ SetUser(u, NoUser)
  /\ UNCHANGED userVars
=============================================================================
