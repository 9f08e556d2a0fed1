------------------------- MODULE ResourceController -------------------------
(***************************************************************************)
(* What the Bucket, User and Policy controllers have in common: they share *)
(* ResourceStatus, resolve the connection before anything else, stop at    *)
(* the first call that fails and report the outcome in .status.            *)
(***************************************************************************)
EXTENDS Naturals

CONSTANTS
  CRs, Operators, MaxGeneration, MaxIncarnation, FaultKinds, MaxFaults,
  CacheMayLag,     \* see OperatorRuntime
  Specs,           \* the specs users may apply, records of the kinds' fields
  None             \* Option::None

ASSUME SpecsNonempty == Specs # {}
ASSUME BoundsAssumption ==
  MaxGeneration \in Nat /\ MaxIncarnation \in Nat /\ MaxFaults \in Nat
ASSUME LagAssumption == CacheMayLag \in BOOLEAN

VARIABLES
  cr, cache, obj, pc, wake, faults,   \* see OperatorRuntime
  result,  \* result[o][c]: the Result of the running apply(), once known
  meddled  \* history: has another tool changed the server, or has an answer
           \* or a request gone astray?

(***************************************************************************)
(* message stands for the pair (ready, message): ready is true exactly     *)
(* with the message "reconciled".                                          *)
(***************************************************************************)
Messages == {"reconciled", "config", "retry"}

ResourceStatus == [message : Messages \union {None}, observed : Nat]

DeletionPolicies == {"Delete", "Retain"}

ASSUME NoneIsNoMessage == None \notin Messages

ASSUME NoneIsNoResource == None \notin CRs

Blank ==
  [phase |-> "absent", finalizer |-> FALSE, gen |-> 0, uid |-> 0,
   spec |-> CHOOSE s \in Specs : TRUE,
   status |-> [message |-> None, observed |-> 0]]

INSTANCE OperatorRuntime

controllerVars == <<cr, cache, obj, pc, wake, faults, result, meddled>>

ControllerInit ==
  /\ RuntimeInit
  /\ result = [o \in Operators |-> [c \in CRs |-> None]]
  /\ meddled = FALSE

NoMeddling == UNCHANGED meddled

-----------------------------------------------------------------------------
(***************************************************************************)
(* A call fails: `?` leaves the rest of the reconciliation undone.         *)
(***************************************************************************)
FailSilently(o, c, e) ==   \* mutant: the error is swallowed
  /\ Goto(o, c, "status")
  /\ UNCHANGED result

Fail(o, c, e) ==
  /\ Goto(o, c, "status")
  /\ result' = [result EXCEPT ![o][c] = e]

(***************************************************************************)
(* The reconciliation goes on; reaching the end of it is Ok.               *)
(***************************************************************************)
Proceed(o, c, l) ==
  /\ Goto(o, c, l)
  /\ result' = [result EXCEPT ![o][c] = IF l = "status" THEN "reconciled" ELSE @]

(***************************************************************************)
(* A call to RustFS that would have this effect if the server accepts it.  *)
(* Its reply, or the call itself, may be lost.                             *)
(***************************************************************************)
Call(o, c, accepted, effect, nothing, l) ==
  \/ accepted /\ effect /\ NoFault /\ Proceed(o, c, l)
  \/ accepted /\ effect /\ Fault("reply") /\ Fail(o, c, "retry")
  \/ ~accepted /\ nothing /\ NoFault /\ Fail(o, c, "retry")
  \/ nothing /\ Fault("call") /\ Fail(o, c, "retry")

Query(o, c, l) ==
  \/ NoFault /\ Proceed(o, c, l)
  \/ Fault("call") /\ Fail(o, c, "retry")

(***************************************************************************)
(* absent() and optional(): an error that mentions "not found", whatever   *)
(* it is that was not found, is taken for the absence of the object asked  *)
(* for, with which l is next.                                              *)
(***************************************************************************)
Denied(o, c, l0, l) ==
  /\ pc[o][c] = l0
  /\ Fault("notFound")
  /\ meddled' = TRUE
  /\ Proceed(o, c, l)

(***************************************************************************)
(* provider_for, called at label l0 with l next.                           *)
(***************************************************************************)
Connect(o, c, l0, l) ==
  LET valid == obj[o][c].spec.connection = "ok"
  IN /\ pc[o][c] = l0
     /\ \/ valid /\ Query(o, c, l)
        \/ ~valid /\ NoFault /\ Fail(o, c, "config")
        \/ valid /\ Fault("connection") /\ Fail(o, c, "config")

(***************************************************************************)
(* The generation reported is the snapshot's, the one apply() acted upon.  *)
(***************************************************************************)
ObservedGenerationLatest(o, c) == cr[c].gen   \* mutant: the server's

ObservedGeneration(o, c) == obj[o][c].gen

RequeueOnError(e) ==   \* mutant: success is not re-checked
  IF e = "reconciled" THEN "none" ELSE ErrorPolicy(e)

Requeue(e) == IF e = "reconciled" THEN "ok" ELSE ErrorPolicy(e)

UpdateStatus(o, c) ==
  /\ pc[o][c] = "status"
  /\ PatchStatus(o, c, [message |-> result[o][c], observed |-> ObservedGeneration(o, c)],
                 Requeue(result[o][c]))
  /\ result' = [result EXCEPT ![o][c] = None]

-----------------------------------------------------------------------------
(***************************************************************************)
(* cleanup(): a retained resource is released untouched; an error goes to  *)
(* error_policy only.                                                      *)
(***************************************************************************)
CleanupFails(o, c, e) == Finish(o, c, ErrorPolicy(e)) /\ UNCHANGED <<cr, result>>

Retained(o, c) ==
  /\ pc[o][c] = "cleanup" /\ obj[o][c].spec.deletion = "Retain"
  /\ NoFault /\ Proceed(o, c, "removeFinalizer")

Cleanup(o, c) ==
  LET valid == obj[o][c].spec.connection = "ok"
  IN /\ pc[o][c] = "cleanup" /\ obj[o][c].spec.deletion = "Delete"
     /\ \/ valid /\ NoFault /\ Proceed(o, c, "delete")
        \/ ~valid /\ NoFault /\ CleanupFails(o, c, "config")
        \/ valid /\ Fault("connection") /\ CleanupFails(o, c, "config")
        \/ valid /\ Fault("call") /\ CleanupFails(o, c, "retry")

DeleteQuietly(o, c, accepted, effect, nothing) ==   \* mutant: ignores refusals
  /\ pc[o][c] = "delete"
  /\ IF accepted THEN effect ELSE nothing
  /\ NoFault /\ Proceed(o, c, "removeFinalizer")

(***************************************************************************)
(* Deleting the remote object; an object that is absent counts as deleted. *)
(***************************************************************************)
Delete(o, c, accepted, effect, nothing) ==
  /\ pc[o][c] = "delete"
  /\ \/ accepted /\ effect /\ NoFault /\ Proceed(o, c, "removeFinalizer")
     \/ accepted /\ effect /\ Fault("reply") /\ CleanupFails(o, c, "retry")
     \/ ~accepted /\ nothing /\ NoFault /\ CleanupFails(o, c, "retry")
     \/ nothing /\ Fault("call") /\ CleanupFails(o, c, "retry")

-----------------------------------------------------------------------------
(***************************************************************************)
(* The steps that concern the resource alone; those that touch no remote   *)
(* object.                                                                 *)
(***************************************************************************)
OwnStep(o, c) ==
  \/ (Start(o, c) \/ AddFinalizer(o, c) \/ RemoveFinalizer(o, c)) /\ UNCHANGED result
  \/ UpdateStatus(o, c)
  \/ Retained(o, c)

LocalStep(o, c) == OwnStep(o, c) \/ Cleanup(o, c)

Watch(o, c) == Deliver(o, c) /\ UNCHANGED <<result, meddled>>

Crash(o) ==
  /\ Restart(o)
  /\ result' = [result EXCEPT ![o] = [c \in CRs |-> None]]
  /\ NoMeddling

UserStep(c, specs) ==
  /\ \/ \E s \in specs : CreateCR(c, s) \/ EditCR(c, s)
     \/ DeleteCR(c)
  /\ UNCHANGED <<result, meddled>>

Drift ==
  /\ Fault("drift")
  /\ meddled' = TRUE
  /\ UNCHANGED <<cr, cache, obj, pc, wake, result>>

(***************************************************************************)
(* ready with the current generation: what .status claims of the spec.     *)
(***************************************************************************)
Ready(c) ==
  /\ Exists(cr[c])
  /\ cr[c].status.message = "reconciled"
  /\ cr[c].status.observed = cr[c].gen

(***************************************************************************)
(* The resource as ManagedResources has it.                                *)
(***************************************************************************)
Request(c) ==
  [absent |-> "none", live |-> "wanted", deleting |-> "dying"][cr[c].phase]

Kept(c) == cr[c].spec.deletion = "Retain"

AsManaged(c, fits, remote) ==
  [request |-> Request(c), keep |-> Kept(c), ready |-> Ready(c), fits |-> fits,
   remote |-> remote]

ResourceSteps ==
  {"idle", "addFinalizer", "apply", "status", "cleanup", "delete", "removeFinalizer"}

CleanupSteps == {"cleanup", "delete", "removeFinalizer"}

(***************************************************************************)
(* SnapshotsOK for a controller whose apply() has these steps of its own.  *)
(***************************************************************************)
ControllerSnapshotsOK(steps) ==
  SnapshotsOK(steps \union {"apply", "status"}, CleanupSteps)

ControllerTypeOK(statuses, steps) ==
  /\ RuntimeTypeOK(Objects(Specs, statuses), steps \union ResourceSteps)
  /\ result \in [Operators -> [CRs -> Messages \union {None}]]
  /\ meddled \in BOOLEAN
  /\ \A o \in Operators, c \in CRs : pc[o][c] = "status" => result[o][c] # None
=============================================================================
