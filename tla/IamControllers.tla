--------------------------- MODULE IamControllers ---------------------------
(***************************************************************************)
(* The User and Policy controllers side by side on one server, as run_all  *)
(* joins them: they share no state of their own, but a policy cannot go    *)
(* before the attachments of every user let it, and a user cannot have a   *)
(* policy before it is there.                                              *)
(***************************************************************************)
EXTENDS UserController, PolicyController

vars == <<controllerVars, users, policies, userVars>>

Init == ControllerInit /\ ServerInit /\ UserInit

ForgetSeen(o) == seen' = [seen EXCEPT ![o] = [c \in UserCRs |-> NothingSeen]]

Reconcile(o, c) ==
  \/ c \in UserCRs /\ ReconcileUser(o, c) /\ NoMeddling
  \/ c \in PolicyCRs /\ ReconcilePolicy(o, c) /\ UNCHANGED userVars /\ NoMeddling
  \/ c \in UserCRs /\ DeniedUser(o, c)
  \/ c \in PolicyCRs /\ DeniedPolicy(o, c) /\ UNCHANGED userVars

SpecsOf(c) == IF c \in UserCRs THEN UserSpecs ELSE PolicySpecs

Environment ==
  \/ \E c \in CRs : UserStep(c, SpecsOf(c)) /\ SameServer /\ UNCHANGED userVars
  \/ \E c \in UserCRs : EditPassword(c) \/ LosePassword(c)
  \/ \E u \in UserNames : DriftUser(u)
  \/ \E p \in PolicyNames : DriftPolicy(p) /\ UNCHANGED userVars

WatchCR(o, c) == Watch(o, c) /\ SameServer /\ UNCHANGED userVars

Next ==
  \/ \E o \in Operators, c \in CRs : Reconcile(o, c) \/ WatchCR(o, c)
  \/ \E o \in Operators : Crash(o) /\ ForgetSeen(o) /\ SameServer /\ UNCHANGED passwords
  \/ Environment

SafetySpec == Init /\ [][Next]_vars

Fairness ==
  \A o \in Operators, c \in CRs : WF_vars(Reconcile(o, c)) /\ WF_vars(WatchCR(o, c))

Spec == SafetySpec /\ Fairness

-----------------------------------------------------------------------------
(***************************************************************************)
(* Properties.                                                             *)
(***************************************************************************)
Steps == {"connect", "getUser", "createUser", "setStatus", "setPolicies",
          "getPolicy", "putPolicy"}

(***************************************************************************)
(* Every variable has its type, and a status is written with a Result.     *)
(***************************************************************************)
TypeOK ==
  /\ ControllerTypeOK(ResourceStatus, Steps)
  /\ users \in [UserNames -> UserRecords]
  /\ policies \in [PolicyNames -> PolicyRecords]
  /\ passwords \in [UserCRs -> Passwords \union {None}]
  /\ seen \in [Operators -> [UserCRs -> SeenRecords]]

(***************************************************************************)
(* A reconciliation never works for another incarnation of the resource    *)
(* than the one it found, nor on a generation older than .status reports.  *)
(***************************************************************************)
SnapshotInv == ControllerSnapshotsOK(Steps)

(***************************************************************************)
(* When a resource with deletionPolicy Delete is gone, so is the user or   *)
(* policy that was created for it.                                         *)
(***************************************************************************)
GoneMeansRemoved ==
  \A c \in CRs :
    ~Exists(cr[c]) /\ cr[c].spec.deletion = "Delete" =>
      /\ \A u \in UserNames : users[u].by # c
      /\ \A p \in PolicyNames : policies[p].by # c

(***************************************************************************)
(* The server has what the spec declares; a policy, by what it allows.     *)
(***************************************************************************)
Declared(c) ==
  LET s == cr[c].spec
  IN IF c \in UserCRs
       THEN /\ users[s.name].exists
            /\ users[s.name].enabled = s.enabled
            /\ users[s.name].policies = s.policies
       ELSE /\ policies[s.name].document # None
            /\ Allowed[policies[s.name].document] = Allowed[s.document]

(***************************************************************************)
(* Unless another tool interferes, ready with the current generation means *)
(* that the server has exactly what this very spec declares, although it   *)
(* was established call by call across failures, restarts and edits.       *)
(***************************************************************************)
ReadyMeansDeclared == ~meddled => \A c \in CRs : Ready(c) => Declared(c)

(***************************************************************************)
(* Every User and every Policy resource is managed as ManagedResources has *)
(* it, each beside the other.                                              *)
(***************************************************************************)
Remote(c) ==
  \/ \E u \in UserNames : users[u].by = c
  \/ \E p \in PolicyNames : policies[p].by = c

Managing == [c \in CRs |-> AsManaged(c, Exists(cr[c]) /\ Declared(c), Remote(c))]

Resources == INSTANCE ManagedResources WITH state <- Managing, meddled <- meddled

Managed == Resources!Spec

(***************************************************************************)
(* Unless another tool interferes, the password of a user that exists is   *)
(* never replaced, whatever becomes of the password Secret.                *)
(***************************************************************************)
PasswordsStick ==
  [][~meddled =>
       \A u \in UserNames :
         users[u].exists /\ users'[u].exists => users'[u].password = users[u].password]_vars

(***************************************************************************)
(* Unless another tool interferes, a policy that was put as the spec has   *)
(* it is not put again, however the server normalizes what it stores.      *)
(***************************************************************************)
InSyncUntouched ==
  [][~meddled =>
       \A o \in Operators, c \in PolicyCRs :
         pc[o][c] = "getPolicy" /\ pc'[o][c] = "putPolicy"
           => policies[PolicyName(o, c)].document # DocumentOf(o, c)]_vars

(***************************************************************************)
(* Nothing but time stands between the resource and the server.            *)
(***************************************************************************)
Applicable(c) ==
  /\ cr[c].spec.connection = "ok"
  /\ c \in UserCRs => passwords[c] # None /\ Attachable(cr[c].spec.policies)

(***************************************************************************)
(* Once users and faults are quiet, every resource that can be applied is, *)
(* and .status says so: in particular users wait for their policies.       *)
(***************************************************************************)
Converges ==
  <>[](\A c \in CRs :
         cr[c].phase = "live" => IF Applicable(c) THEN Ready(c) /\ Declared(c) ELSE ~Ready(c))

(***************************************************************************)
(* A deleted resource goes away unless its connection is unusable or it is *)
(* a policy some user keeps attached: a rejected deletion is retried until *)
(* the last attachment is gone.                                            *)
(***************************************************************************)
DeletedEventuallyGone ==
  <>[](\A c \in CRs :
         cr[c].phase = "deleting" =>
           /\ cr[c].spec.deletion = "Delete"
           /\ \/ cr[c].spec.connection # "ok"
              \/ c \in PolicyCRs /\ Attached(cr[c].spec.name))
=============================================================================
