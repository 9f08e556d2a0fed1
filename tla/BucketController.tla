-------------------------- MODULE BucketController --------------------------
(***************************************************************************)
(* The Bucket controller (src/reconcile/bucket.rs).                        *)
(*                                                                         *)
(* ensure_bucket reads one attribute of the remote bucket at a time and    *)
(* writes it if it differs from the spec; an attribute the spec does not   *)
(* set is not managed.                                                     *)
(***************************************************************************)
EXTENDS ResourceController

CONSTANTS
  Buckets,   \* bucket names
  Quotas     \* the quotas a spec or another tool may set, 0 meaning none

BucketSpecs ==
  [connection : {"ok", "invalid"}, name : Buckets, versioning : BOOLEAN \union {None},
   quota : Quotas \union {None}, deletion : DeletionPolicies]

ASSUME SpecsAssumption == Specs \subseteq BucketSpecs /\ Quotas \subseteq Nat

VARIABLES
  buckets,   \* the server's buckets, and who created each
  inFlight   \* requests whose senders gave them up before they were carried out

vars == <<controllerVars, buckets, inFlight>>

Server == <<buckets, inFlight>>

NoBucket ==
  [exists |-> FALSE, versioning |-> None, quota |-> None, objects |-> FALSE, by |-> None]

BucketRecords ==
  [exists : BOOLEAN, versioning : BOOLEAN \union {None}, quota : Quotas \union {None},
   objects : BOOLEAN, by : CRs \union {None}]

WriteSteps == {"create", "setVersioning", "setQuota", "delete"}

BucketRequests == [op : WriteSteps, bucket : Buckets, by : CRs, spec : BucketSpecs]

Init == ControllerInit /\ buckets = [b \in Buckets |-> NoBucket] /\ inFlight = {}

-----------------------------------------------------------------------------
BucketName(o, c) == obj[o][c].spec.name

Bucket(o, c) == buckets[BucketName(o, c)]

Set(b, r) == buckets' = [buckets EXCEPT ![b] = r]

(***************************************************************************)
(* A request, which of them the server accepts, and what it makes of the   *)
(* bucket: one with objects is not deleted, an existing one not created.   *)
(***************************************************************************)
BucketRequest(o, c, op) ==
  [op |-> op, bucket |-> BucketName(o, c), by |-> c, spec |-> obj[o][c].spec]

Accepted(r) ==
  LET b == buckets[r.bucket]
  IN CASE r.op = "create" -> ~b.exists
       [] r.op = "delete" -> ~b.objects
       [] OTHER           -> b.exists

Effect(r) ==
  LET b == buckets[r.bucket]
  IN Set(r.bucket, CASE r.op = "create" -> [NoBucket EXCEPT !.exists = TRUE, !.by = r.by]
                     [] r.op = "delete" -> NoBucket
                     [] r.op = "setVersioning" -> [b EXCEPT !.versioning = r.spec.versioning]
                     [] r.op = "setQuota"      -> [b EXCEPT !.quota = r.spec.quota])

Write(o, c, op, l) ==
  LET r == BucketRequest(o, c, op)
  IN /\ pc[o][c] = op
     /\ Call(o, c, Accepted(r), Effect(r), UNCHANGED buckets, l)
     /\ UNCHANGED inFlight

(***************************************************************************)
(* The sender gives up a request that is still on the way.                 *)
(***************************************************************************)
GiveUp(o, c, op) ==
  /\ pc[o][c] = op
  /\ Fault("late")
  /\ meddled' = TRUE
  /\ IF op = "delete" THEN CleanupFails(o, c, "retry") ELSE Fail(o, c, "retry")
  /\ inFlight' = inFlight \union {BucketRequest(o, c, op)}
  /\ UNCHANGED buckets

Land(r) ==
  /\ inFlight' = inFlight \ {r}
  /\ IF Accepted(r) THEN Effect(r) ELSE UNCHANGED buckets
  /\ UNCHANGED controllerVars

(***************************************************************************)
(* The order of ensure_bucket: existence, versioning, quota.               *)
(***************************************************************************)
AfterVersioning(x) == IF x.spec.quota # None THEN "getQuota" ELSE "status"

AfterExistence(x) ==
  IF x.spec.versioning # None THEN "getVersioning" ELSE AfterVersioning(x)

HeadBucket(o, c) ==
  /\ pc[o][c] = "head"
  /\ Query(o, c, IF Bucket(o, c).exists THEN AfterExistence(obj[o][c]) ELSE "create")
  /\ UNCHANGED Server

CreateBucket(o, c) == Write(o, c, "create", AfterExistence(obj[o][c]))

(***************************************************************************)
(* A bucket that was never versioned counts as not versioned.              *)
(***************************************************************************)
VersioningOf(b) == IF b.versioning = None THEN FALSE ELSE b.versioning

GetVersioning(o, c) ==
  LET b == Bucket(o, c)
      x == obj[o][c]
  IN /\ pc[o][c] = "getVersioning"
     /\ Call(o, c, b.exists, UNCHANGED Server, UNCHANGED Server,
             IF VersioningOf(b) # x.spec.versioning
               THEN "setVersioning" ELSE AfterVersioning(x))

SetVersioning(o, c) == Write(o, c, "setVersioning", AfterVersioning(obj[o][c]))

(***************************************************************************)
(* get_bucket_quota: a quota of 0 reads as none, as does a missing bucket. *)
(***************************************************************************)
QuotaUnread(b) == None   \* mutant: the quota in force is never seen

QuotaOf(b) == IF b.exists /\ b.quota # 0 THEN b.quota ELSE None

GetQuota(o, c) ==
  /\ pc[o][c] = "getQuota"
  /\ Query(o, c, IF QuotaOf(Bucket(o, c)) # obj[o][c].spec.quota
                   THEN "setQuota" ELSE "status")
  /\ UNCHANGED Server

SetQuota(o, c) == Write(o, c, "setQuota", "status")

DeleteBucket(o, c) ==
  LET r == BucketRequest(o, c, "delete")
  IN Delete(o, c, Accepted(r), Effect(r), UNCHANGED buckets) /\ UNCHANGED inFlight

-----------------------------------------------------------------------------
(***************************************************************************)
(* Other tools change and remove buckets, applications fill and empty them.*)
(***************************************************************************)
DriftBucket(b) ==
  /\ buckets[b].exists
  /\ Drift
  /\ \/ \E v \in BOOLEAN, q \in Quotas :
          Set(b, [buckets[b] EXCEPT !.versioning = v, !.quota = q])
     \/ Set(b, NoBucket)

FillBucket(b) ==
  /\ buckets[b].exists /\ ~buckets[b].objects
  /\ Fault("use")
  /\ Set(b, [buckets[b] EXCEPT !.objects = TRUE])
  /\ UNCHANGED <<cr, cache, obj, pc, wake, result, meddled>>

EmptyBucket(b) ==
  /\ buckets[b].objects
  /\ Set(b, [buckets[b] EXCEPT !.objects = FALSE])
  /\ UNCHANGED controllerVars

-----------------------------------------------------------------------------
Ensure(o, c) ==
  \/ HeadBucket(o, c) \/ CreateBucket(o, c)
  \/ GetVersioning(o, c) \/ SetVersioning(o, c)
  \/ GetQuota(o, c) \/ SetQuota(o, c)

DeniedBucket(o, c) ==
  /\ Denied(o, c, "getQuota", "setQuota") \/ Denied(o, c, "delete", "removeFinalizer")
  /\ UNCHANGED Server

Reconcile(o, c) ==
  \/ (LocalStep(o, c) \/ Connect(o, c, "apply", "head")) /\ UNCHANGED Server /\ NoMeddling
  \/ (Ensure(o, c) \/ DeleteBucket(o, c)) /\ NoMeddling
  \/ DeniedBucket(o, c)
  \/ \E op \in WriteSteps : GiveUp(o, c, op)

Next ==
  \/ \E o \in Operators, c \in CRs :
       Reconcile(o, c) \/ (Watch(o, c) /\ UNCHANGED Server)
  \/ \E o \in Operators : Crash(o) /\ UNCHANGED Server
  \/ \E c \in CRs : UserStep(c, Specs) /\ UNCHANGED Server
  \/ \E b \in Buckets :
       (DriftBucket(b) \/ FillBucket(b) \/ EmptyBucket(b)) /\ UNCHANGED inFlight
  \/ \E r \in inFlight : Land(r)

SafetySpec == Init /\ [][Next]_vars

Fairness ==
  \A o \in Operators, c \in CRs :
    WF_vars(Reconcile(o, c)) /\ WF_vars(Watch(o, c) /\ UNCHANGED Server)

Spec == SafetySpec /\ Fairness

-----------------------------------------------------------------------------
(***************************************************************************)
(* Properties.                                                             *)
(***************************************************************************)
Steps == {"head", "create", "getVersioning", "setVersioning", "getQuota", "setQuota"}

(***************************************************************************)
(* Every variable has its type, and a status is written with a Result.     *)
(***************************************************************************)
TypeOK ==
  /\ ControllerTypeOK(ResourceStatus, Steps)
  /\ buckets \in [Buckets -> BucketRecords]
  /\ inFlight \subseteq BucketRequests

(***************************************************************************)
(* A reconciliation never works for another incarnation of the resource    *)
(* than the one it found, nor on a generation older than .status reports.  *)
(***************************************************************************)
SnapshotInv == ControllerSnapshotsOK(Steps)

(***************************************************************************)
(* Unless an answer or a request goes astray, a resource that is gone with *)
(* deletionPolicy Delete has taken along the bucket created for it.        *)
(***************************************************************************)
GoneMeansRemoved ==
  ~meddled =>
    \A c \in CRs, b \in Buckets :
      ~Exists(cr[c]) /\ cr[c].spec.deletion = "Delete" => buckets[b].by # c

(***************************************************************************)
(* The bucket has every attribute that the spec manages.                   *)
(***************************************************************************)
Declared(c) ==
  LET s == cr[c].spec
      b == buckets[s.name]
  IN /\ b.exists
     /\ s.versioning # None => VersioningOf(b) = s.versioning
     /\ s.quota # None => b.quota = s.quota

(***************************************************************************)
(* Unless another tool interferes, ready with the current generation means *)
(* that the bucket is as this very spec declares it: read attribute by     *)
(* attribute, across failures, restarts and edits.                         *)
(***************************************************************************)
ReadyMeansDeclared == ~meddled => \A c \in CRs : Ready(c) => Declared(c)

(***************************************************************************)
(* Every Bucket resource is managed as ManagedResources has it: no step,   *)
(* by whatever snapshot and after whatever failure, makes, changes or      *)
(* removes a bucket when the resource does not ask for it.                 *)
(***************************************************************************)
Remote(c) == \E b \in Buckets : buckets[b].by = c

Managing == [c \in CRs |-> AsManaged(c, Exists(cr[c]) /\ Declared(c), Remote(c))]

Resources == INSTANCE ManagedResources WITH state <- Managing, meddled <- meddled

Managed == Resources!Spec

(***************************************************************************)
(* The step of a reconciliation that makes the call labelled l.            *)
(***************************************************************************)
Calls(o, c, l) == pc[o][c] = l /\ pc'[o][c] # l /\ faults' = faults

(***************************************************************************)
(* Unless another tool interferes, a reconciliation writes nothing to a    *)
(* bucket that is already as declared, however it came to be so; only a    *)
(* quota of 0, which the server answers like no quota, is written again.   *)
(***************************************************************************)
MatchingUntouched ==
  [][~meddled =>
       \A o \in Operators, c \in CRs :
         LET b == Bucket(o, c)
             s == obj[o][c].spec
         IN /\ Calls(o, c, "setVersioning") => VersioningOf(b) # s.versioning
            /\ Calls(o, c, "setQuota") /\ s.quota # 0 => b.quota # s.quota]_vars

(***************************************************************************)
(* The live resource is as it should end up.                               *)
(***************************************************************************)
Settled(c) ==
  IF cr[c].spec.connection = "ok"
    THEN Ready(c) /\ Declared(c)
    ELSE /\ cr[c].status.message = "config"
         /\ cr[c].status.observed = cr[c].gen

(***************************************************************************)
(* Once users and faults are quiet, the bucket is as declared and .status  *)
(* says so, or .status has the error that needs an edit.                   *)
(***************************************************************************)
Converges == <>[](\A c \in CRs : cr[c].phase = "live" => Settled(c))

(***************************************************************************)
(* A deleted resource goes away unless its bucket cannot be deleted.       *)
(***************************************************************************)
DeletedEventuallyGone ==
  <>[](\A c \in CRs :
         cr[c].phase = "deleting" =>
           /\ cr[c].spec.deletion = "Delete"
           /\ cr[c].spec.connection # "ok" \/ buckets[cr[c].spec.name].objects)
=============================================================================
