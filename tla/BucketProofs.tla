------------------------------ MODULE BucketProofs ------------------------------
(***************************************************************************)
(* Theorems about BucketController, for every number of resources, buckets *)
(* and faults, and every choice of the specs users apply.                  *)
(***************************************************************************)
EXTENDS BucketController, ResourceProofs

\* The calls of apply() are its own.
LEMMA StepsApart == Steps \intersect ResourceSteps = {}
BY DEF Steps, ResourceSteps

\* What a step of a reconciliation writes to the server's buckets.
Writes(o, c) ==
  \E op \in WriteSteps :
    pc[o][c] = op /\ Accepted(BucketRequest(o, c, op)) /\ Effect(BucketRequest(o, c, op))

Served(o, c) == (UNCHANGED buckets \/ Writes(o, c)) /\ UNCHANGED inFlight

\* The label that follows each is a call of apply() or its end.
LEMMA NextCalls ==
  \A x : AfterExistence(x) \in Steps \union {"status"}
         /\ AfterVersioning(x) \in Steps \union {"status"}
BY DEF AfterExistence, AfterVersioning, Steps

\* What every step of ensure_bucket is.
LEMMA EnsureMoves ==
  ASSUME TypeOK, NEW o \in Operators, NEW c \in CRs, Ensure(o, c), NoMeddling
  PROVE  Moves(Steps, o, c) /\ Served(o, c)
<1>1. faults' \in Nat /\ meddled' \in BOOLEAN
  BY DEF TypeOK, ControllerTypeOK, RuntimeTypeOK, NoMeddling, Ensure, HeadBucket, CreateBucket,
     GetVersioning, SetVersioning, GetQuota, SetQuota, Write, Call, Query, Fault, NoFault
<1>2. /\ Served(o, c) /\ pc[o][c] \in Steps
      /\ \/ \E m \in Steps \union {"status"} : Proceed(o, c, m)
         \/ Fail(o, c, "retry")
  <2>1. CASE HeadBucket(o, c)
    <3>1. Served(o, c) /\ pc[o][c] \in Steps
      BY <2>1 DEF HeadBucket, Server, Served, Steps
    <3>2. (IF Bucket(o, c).exists THEN AfterExistence(obj[o][c]) ELSE "create")
            \in Steps \union {"status"}
      BY NextCalls DEF Steps
    <3> QED
      BY <2>1, <3>1, <3>2 DEF HeadBucket, Query
  <2>2. ASSUME NEW op \in WriteSteps \ {"delete"}, NEW l \in Steps \union {"status"},
               Write(o, c, op, l)
        PROVE  /\ Served(o, c) /\ pc[o][c] \in Steps
               /\ Proceed(o, c, l) \/ Fail(o, c, "retry")
    <3>1. Served(o, c)
      BY <2>2 DEF Write, Call, Served, Writes
    <3> QED
      BY <2>2, <3>1 DEF Write, Call, Steps, WriteSteps
  <2>3. CASE CreateBucket(o, c)
    BY <2>2, <2>3, NextCalls DEF CreateBucket, WriteSteps
  <2>4. CASE GetVersioning(o, c)
    <3>1. Served(o, c) /\ pc[o][c] \in Steps
      BY <2>4 DEF GetVersioning, Call, Server, Served, Steps
    <3>2. (IF VersioningOf(Bucket(o, c)) # obj[o][c].spec.versioning
             THEN "setVersioning" ELSE AfterVersioning(obj[o][c])) \in Steps \union {"status"}
      BY NextCalls DEF Steps
    <3> QED
      BY <2>4, <3>1, <3>2 DEF GetVersioning, Call
  <2>5. CASE SetVersioning(o, c)
    BY <2>2, <2>5, NextCalls DEF SetVersioning, WriteSteps
  <2>6. CASE GetQuota(o, c)
    BY <2>6 DEF GetQuota, Query, Server, Served, Steps
  <2>7. CASE SetQuota(o, c)
    BY <2>2, <2>7 DEF SetQuota, WriteSteps
  <2> QED
    BY <2>1, <2>3, <2>4, <2>5, <2>6, <2>7 DEF Ensure
<1>3. "delete" \notin Steps \union {"status"}
  BY DEF Steps
<1> QED
  BY <1>1, <1>2, <1>3 DEF Moves, Onward

\* So is the deletion of the bucket.
LEMMA DeleteMoves ==
  ASSUME TypeOK, NEW o \in Operators, NEW c \in CRs, DeleteBucket(o, c), NoMeddling
  PROVE  Moves(Steps, o, c) /\ Served(o, c)
<1>1. faults' \in Nat /\ meddled' \in BOOLEAN
  BY DEF TypeOK, ControllerTypeOK, RuntimeTypeOK, NoMeddling, DeleteBucket, Delete, Fault, NoFault
<1>2. Served(o, c)
  BY DEF DeleteBucket, Delete, Served, Writes, WriteSteps
<1>3. Proceed(o, c, "removeFinalizer") \/ \E e : CleanupFails(o, c, e)
  BY DEF DeleteBucket, Delete
<1> QED
  BY <1>1, <1>2, <1>3 DEF Moves, Onward, DeleteBucket, Delete

\* An answer that is wrong, and a request that is given up.
LEMMA StrayMoves ==
  ASSUME TypeOK, NEW o \in Operators, NEW c \in CRs,
         DeniedBucket(o, c) \/ \E op \in WriteSteps : GiveUp(o, c, op)
  PROVE  /\ Moves(Steps, o, c)
         /\ UNCHANGED buckets /\ meddled' /\ inFlight' \subseteq BucketRequests
<1>0. TypeOK!1
  BY DEF TypeOK
<1>1. CASE DeniedBucket(o, c)
  <2>1. faults' \in Nat /\ meddled' = TRUE /\ UNCHANGED Server
    BY <1>0, <1>1 DEF ControllerTypeOK, RuntimeTypeOK, DeniedBucket, Denied, Fault
  <2>2. \E m : Onward(Steps, pc[o][c], m) /\ Proceed(o, c, m) /\ m # "delete"
    BY <1>1 DEF DeniedBucket, Denied, Onward, Steps
  <2> QED
    BY <2>1, <2>2 DEF Moves, TypeOK, Server
<1>2. ASSUME NEW op \in WriteSteps, GiveUp(o, c, op)
      PROVE  /\ Moves(Steps, o, c)
             /\ UNCHANGED buckets /\ meddled' /\ inFlight' \subseteq BucketRequests
  <2>1. faults' \in Nat /\ meddled' = TRUE
    BY <1>0, <1>2 DEF ControllerTypeOK, RuntimeTypeOK, GiveUp, Fault
  <2>2. obj[o][c].spec \in BucketSpecs
    BY <1>0, SpecsAssumption DEF ControllerTypeOK, RuntimeTypeOK, Objects
  <2>3. BucketRequest(o, c, op) \in BucketRequests
    BY <2>2 DEF BucketRequest, BucketRequests, BucketName, BucketSpecs
  <2>4. \/ pc[o][c] \in Steps \union {"apply"} /\ Fail(o, c, "retry")
        \/ \E e : CleanupFails(o, c, e)
    BY <1>2 DEF GiveUp, Steps, WriteSteps
  <2> QED
    BY <1>2, <2>1, <2>3, <2>4 DEF Moves, GiveUp, TypeOK
<1> QED
  BY <1>1, <1>2

-----------------------------------------------------------------------------
(***************************************************************************)
(* Every step of the system is of one of these kinds.                      *)
(***************************************************************************)
OwnKind(o, c) == OwnStep(o, c) /\ NoMeddling /\ UNCHANGED Server

ControllerKind ==
  /\ UNCHANGED Server
  /\ \/ \E o \in Operators, c \in CRs : Watch(o, c)
     \/ \E o \in Operators : Crash(o)
     \/ \E c \in CRs : UserStep(c, Specs)

MoveKind(o, c) ==
  /\ Moves(Steps, o, c)
  /\ \/ NoMeddling /\ Served(o, c)
     \/ UNCHANGED buckets /\ meddled' /\ inFlight' \subseteq BucketRequests

OthersKind ==
  /\ UNCHANGED <<cr, cache, obj, pc, wake, result>> /\ faults' \in Nat
  /\ \/ meddled' /\ UNCHANGED inFlight /\ \E b \in Buckets : DriftBucket(b)
     \/ UNCHANGED <<meddled, inFlight>> /\ \E b \in Buckets : FillBucket(b) \/ EmptyBucket(b)
     \/ UNCHANGED meddled /\ \E r \in inFlight : Land(r)

\* The step of a reconciliation is of two of them.
LEMMA ReconcileKinds ==
  ASSUME TypeOK, NEW o \in Operators, NEW c \in CRs, Reconcile(o, c)
  PROVE  OwnKind(o, c) \/ MoveKind(o, c)
<1>0. Typed(Steps)
  BY DEF TypeOK, Typed
<1>1. CASE Connect(o, c, "apply", "head") /\ UNCHANGED Server /\ NoMeddling
  BY <1>0, <1>1, StepsApart, ConnectMoves DEF MoveKind, Served, Server, Steps
<1>2. CASE Cleanup(o, c) /\ UNCHANGED Server /\ NoMeddling
  BY <1>0, <1>2, CleanupMoves DEF MoveKind, Served, Server
<1>3. CASE Ensure(o, c) /\ NoMeddling
  BY <1>3, EnsureMoves DEF MoveKind
<1>4. CASE DeleteBucket(o, c) /\ NoMeddling
  BY <1>4, DeleteMoves DEF MoveKind
<1>5. CASE DeniedBucket(o, c) \/ \E op \in WriteSteps : GiveUp(o, c, op)
  BY <1>5, StrayMoves DEF MoveKind
<1>6. CASE OwnStep(o, c) /\ UNCHANGED Server /\ NoMeddling
  BY <1>6 DEF OwnKind
<1> QED
  BY <1>1, <1>2, <1>3, <1>4, <1>5, <1>6 DEF Reconcile, LocalStep

\* All of them.
LEMMA Kinds ==
  ASSUME TypeOK, [Next]_vars
  PROVE  \/ \E o \in Operators, c \in CRs : OwnKind(o, c)
         \/ ControllerKind
         \/ \E o \in Operators, c \in CRs : Reconcile(o, c) /\ MoveKind(o, c)
         \/ OthersKind
         \/ UNCHANGED vars
<1>0. Typed(Steps) /\ faults \in Nat
  BY DEF TypeOK, Typed, ControllerTypeOK, RuntimeTypeOK
<1>1. ASSUME NEW o \in Operators, NEW c \in CRs, Reconcile(o, c)
      PROVE  OwnKind(o, c) \/ MoveKind(o, c)
  BY <1>1, ReconcileKinds
<1>2. ASSUME NEW b \in Buckets, DriftBucket(b) \/ FillBucket(b) \/ EmptyBucket(b),
             UNCHANGED inFlight
      PROVE  OthersKind
  <2>1. UNCHANGED <<cr, cache, obj, pc, wake, result>> /\ faults' \in Nat
    <3>1. CASE DriftBucket(b)
      <4>1. Drift
        BY <3>1 DEF DriftBucket
      <4> QED
        BY <1>0, <4>1 DEF Drift, Fault
    <3>2. CASE FillBucket(b)
      BY <1>0, <3>2 DEF FillBucket, Fault
    <3>3. CASE EmptyBucket(b)
      BY <1>0, <3>3 DEF EmptyBucket, controllerVars
    <3> QED
      BY <1>2, <3>1, <3>2, <3>3
  <2>2. DriftBucket(b) => meddled'
    BY DEF DriftBucket, Drift
  <2>3. FillBucket(b) \/ EmptyBucket(b) => UNCHANGED meddled
    BY DEF FillBucket, EmptyBucket, controllerVars
  <2> QED
    BY <1>2, <2>1, <2>2, <2>3 DEF OthersKind
<1>3. ASSUME NEW r \in inFlight, Land(r)
      PROVE  OthersKind
  BY <1>0, <1>3 DEF OthersKind, Land, controllerVars
<1> QED
  BY <1>1, <1>2, <1>3 DEF Next, ControllerKind

-----------------------------------------------------------------------------
(***************************************************************************)
(* The variables have their types.                                         *)
(***************************************************************************)
LEMMA EffectTyped ==
  ASSUME TypeOK, NEW r \in BucketRequests, Effect(r)
  PROVE  buckets' \in [Buckets -> BucketRecords]
<1>1. /\ r.op \in WriteSteps /\ r.bucket \in Buckets /\ r.by \in CRs
      /\ r.spec.versioning \in BOOLEAN \union {None} /\ r.spec.quota \in Quotas \union {None}
  BY DEF BucketRequests, BucketSpecs
<1>2. buckets \in [Buckets -> BucketRecords] /\ buckets[r.bucket] \in BucketRecords
  BY <1>1 DEF TypeOK
<1>3. NoBucket \in BucketRecords
  BY DEF NoBucket, BucketRecords
<1>4. CASE r.op = "create"
  <2>1. [NoBucket EXCEPT !.exists = TRUE, !.by = r.by] \in BucketRecords
    BY <1>1 DEF NoBucket, BucketRecords
  <2> QED
    BY <1>2, <1>4, <2>1 DEF Effect, Set
<1>5. CASE r.op = "delete"
  BY <1>2, <1>3, <1>5 DEF Effect, Set
<1>6. CASE r.op = "setVersioning"
  <2>1. [buckets[r.bucket] EXCEPT !.versioning = r.spec.versioning] \in BucketRecords
    BY <1>1, <1>2 DEF BucketRecords
  <2> QED
    BY <1>2, <1>6, <2>1 DEF Effect, Set
<1>7. CASE r.op = "setQuota"
  <2>1. [buckets[r.bucket] EXCEPT !.quota = r.spec.quota] \in BucketRecords
    BY <1>1, <1>2 DEF BucketRecords
  <2> QED
    BY <1>2, <1>7, <2>1 DEF Effect, Set
<1> QED
  BY <1>1, <1>4, <1>5, <1>6, <1>7 DEF WriteSteps

\* The request a reconciliation sends is one that may be in flight.
LEMMA RequestTyped ==
  ASSUME TypeOK, NEW o \in Operators, NEW c \in CRs, NEW op \in WriteSteps
  PROVE  BucketRequest(o, c, op) \in BucketRequests
<1>1. obj[o][c].spec \in BucketSpecs
  BY SpecsAssumption DEF TypeOK, ControllerTypeOK, RuntimeTypeOK, Objects
<1> QED
  BY <1>1 DEF BucketRequest, BucketRequests, BucketName, BucketSpecs

\* Other tools and applications leave buckets that are typed.
LEMMA OthersTyped ==
  ASSUME TypeOK, NEW b \in Buckets, DriftBucket(b) \/ FillBucket(b) \/ EmptyBucket(b)
  PROVE  buckets' \in [Buckets -> BucketRecords]
<1>1. buckets \in [Buckets -> BucketRecords]
  BY DEF TypeOK
<1>2. PICK x \in BucketRecords : buckets' = [buckets EXCEPT ![b] = x]
  <2>1. /\ NoBucket \in BucketRecords
        /\ \A v \in BOOLEAN, q \in Quotas :
             [buckets[b] EXCEPT !.versioning = v, !.quota = q] \in BucketRecords
        /\ \A f \in BOOLEAN : [buckets[b] EXCEPT !.objects = f] \in BucketRecords
    BY <1>1 DEF BucketRecords, NoBucket
  <2>2. CASE DriftBucket(b)
    BY <2>1, <2>2 DEF DriftBucket, Set
  <2>3. CASE FillBucket(b) \/ EmptyBucket(b)
    BY <2>1, <2>3 DEF FillBucket, EmptyBucket, Set
  <2> QED
    BY <2>2, <2>3
<1> QED
  BY <1>1, <1>2

\* At first every variable has its type;
LEMMA InitTypeOK == Init => TypeOK
<1>1. NoBucket \in BucketRecords
  BY DEF NoBucket, BucketRecords
<1> QED
  BY <1>1, InitTyped DEF Init, TypeOK, Typed

\* every step keeps it.
LEMMA NextTypeOK == TypeOK /\ [Next]_vars => TypeOK'
<1> SUFFICES ASSUME TypeOK, [Next]_vars
             PROVE  TypeOK'
  OBVIOUS
<1>0. Typed(Steps) /\ (Typed(Steps)' /\ buckets' \in [Buckets -> BucketRecords]
                        /\ inFlight' \subseteq BucketRequests => TypeOK')
  BY DEF TypeOK, Typed
<1>1. ASSUME NEW o \in Operators, NEW c \in CRs, OwnKind(o, c)
      PROVE  TypeOK'
  BY <1>0, <1>1, OwnStepTyped DEF OwnKind, Server, TypeOK
<1>2. CASE ControllerKind
  BY <1>0, <1>2, WatchTyped, CrashTyped, UserStepTyped DEF ControllerKind, Server, TypeOK
<1>3. ASSUME NEW o \in Operators, NEW c \in CRs, MoveKind(o, c)
      PROVE  TypeOK'
  <2>1. Typed(Steps)'
    BY <1>0, <1>3, MovesTyped DEF MoveKind
  <2>2. inFlight' \subseteq BucketRequests
    BY <1>3 DEF MoveKind, Served, TypeOK
  <2>3. buckets' \in [Buckets -> BucketRecords]
    BY <1>3, EffectTyped, RequestTyped DEF MoveKind, Served, Writes, TypeOK
  <2> QED
    BY <1>0, <2>1, <2>2, <2>3
<1>4. CASE OthersKind
  <2>1. Typed(Steps)'
    BY <1>0, <1>4 DEF OthersKind, Typed, ControllerTypeOK, RuntimeTypeOK
  <2>2. inFlight' \subseteq BucketRequests
    BY <1>4 DEF OthersKind, Land, TypeOK
  <2>3. buckets' \in [Buckets -> BucketRecords]
    <3>1. ASSUME NEW r \in inFlight, Land(r)
          PROVE  buckets' \in [Buckets -> BucketRecords]
      BY <3>1, EffectTyped DEF Land, TypeOK
    <3> QED
      BY <1>4, <3>1, OthersTyped DEF OthersKind
  <2> QED
    BY <1>0, <2>1, <2>2, <2>3
<1>5. CASE UNCHANGED vars
  BY <1>5 DEF vars, controllerVars, TypeOK, ControllerTypeOK, RuntimeTypeOK
<1> QED
  BY <1>1, <1>2, <1>3, <1>4, <1>5, Kinds

(***************************************************************************)
(* Every variable has its type.                                            *)
(***************************************************************************)
THEOREM TypeCorrect == SafetySpec => []TypeOK
BY InitTypeOK, NextTypeOK, PTL DEF SafetySpec

-----------------------------------------------------------------------------
(***************************************************************************)
(* One operator may trust its snapshots, and forgets no resource.          *)
(***************************************************************************)
LEMMA NextRuntime ==
  SoleOperator /\ TypeOK /\ RuntimeInv(Steps) /\ [Next]_vars => RuntimeInv(Steps)'
<1> SUFFICES ASSUME SoleOperator, TypeOK, RuntimeInv(Steps), [Next]_vars
             PROVE  RuntimeInv(Steps)'
  OBVIOUS
<1>0. Typed(Steps)
  BY DEF TypeOK, Typed
<1>1. CASE OthersKind \/ UNCHANGED vars
  BY <1>1 DEF OthersKind, vars, controllerVars, RuntimeInv, ControllerSnapshotsOK, SnapshotsOK,
     ServerOK, CacheOK, RunOK, NeverForgotten
<1> QED
  BY <1>0, <1>1, Kinds, StepsApart, OwnStepRuntime, MovesRuntime, WatchRuntime, CrashRuntime, UserRuntime
  DEF OwnKind, ControllerKind, MoveKind

\* What a single operator relies on holds at first;
LEMMA InitRuntimeInv == Init => RuntimeInv(Steps)
BY InitRuntime, StepsApart DEF Init

\* it does so in every state.
LEMMA RuntimeCorrect == SoleOperator /\ SafetySpec => []RuntimeInv(Steps)
<1> SUFFICES ASSUME SoleOperator
             PROVE  SafetySpec => []RuntimeInv(Steps)
  OBVIOUS
<1> QED
  BY InitRuntimeInv, NextRuntime, TypeCorrect, PTL DEF SafetySpec

(***************************************************************************)
(* With one operator a reconciliation never works for another incarnation  *)
(* of the resource than the server has, nor on a generation older than the *)
(* one .status reports: stale stores, crashes and lost replies included.   *)
(***************************************************************************)
THEOREM SnapshotsCorrect == SoleOperator /\ SafetySpec => []SnapshotInv
<1>1. RuntimeInv(Steps) => SnapshotInv
  BY DEF RuntimeInv, SnapshotInv
<1> QED
  BY <1>1, RuntimeCorrect, PTL

(***************************************************************************)
(* With one operator no Bucket resource that exists is ever forgotten.     *)
(***************************************************************************)
THEOREM NothingForgotten == SoleOperator /\ SafetySpec => []NeverForgotten
<1>1. RuntimeInv(Steps) => NeverForgotten
  BY DEF RuntimeInv
<1> QED
  BY <1>1, RuntimeCorrect, PTL

-----------------------------------------------------------------------------
(***************************************************************************)
(* No two resources are about one bucket.  bucket.rs:18 keeps nobody from  *)
(* naming the bucket of another resource; what is proved below of buckets  *)
(* is proved as long as nobody does.                                       *)
(***************************************************************************)
Names(c, b) ==
  \/ Exists(cr[c]) /\ cr[c].spec.name = b
  \/ \E o \in Operators : pc[o][c] # "idle" /\ obj[o][c].spec.name = b

Apart == \A c, d \in CRs, b \in Buckets : Names(c, b) /\ Names(d, b) => c = d

(***************************************************************************)
(* A step leaves of the bucket b all but whether it has objects.           *)
(***************************************************************************)
Same(b) == buckets'[b] = [buckets[b] EXCEPT !.objects = buckets'[b].objects]

\* Requests are given up only by a step that is said to meddle.
LateInv == inFlight # {} => meddled

\* Nobody takes back an interference.
LEMMA MeddledStays ==
  ASSUME TypeOK, LateInv, [Next]_vars
  PROVE  (meddled => meddled') /\ LateInv'
<1>1. ASSUME NEW o \in Operators, NEW c \in CRs, MoveKind(o, c)
      PROVE  (meddled => meddled') /\ LateInv'
  BY <1>1 DEF MoveKind, NoMeddling, Served, LateInv
<1>2. CASE ControllerKind
  BY <1>2 DEF ControllerKind, Watch, Crash, NoMeddling, UserStep, Server, LateInv
<1>3. CASE OthersKind
  BY <1>3 DEF OthersKind, LateInv, Land
<1> QED
  BY <1>1, <1>2, <1>3, Kinds DEF OwnKind, NoMeddling, Server, LateInv, vars, controllerVars

\* Without meddling, only a reconciliation that names the bucket changes it.
LEMMA BucketCases ==
  ASSUME TypeOK, LateInv, [Next]_vars, ~meddled', NEW b \in Buckets
  PROVE  \/ Same(b)
         \/ \E o \in Operators, c \in CRs :
              Reconcile(o, c) /\ MoveKind(o, c) /\ Writes(o, c) /\ BucketName(o, c) = b
<1>0. buckets \in [Buckets -> BucketRecords] /\ buckets[b] \in BucketRecords
  BY DEF TypeOK
<1>1. UNCHANGED buckets => Same(b)
  BY <1>0 DEF Same, BucketRecords
<1>2. ASSUME NEW o \in Operators, NEW c \in CRs, MoveKind(o, c)
      PROVE  Same(b) \/ (Writes(o, c) /\ BucketName(o, c) = b)
  <2>1. ASSUME NEW op \in WriteSteps, Effect(BucketRequest(o, c, op)), BucketName(o, c) # b
        PROVE  Same(b)
    <3>1. BucketRequest(o, c, op).bucket # b
      BY <2>1 DEF BucketRequest
    <3>2. buckets'[b] = buckets[b]
      BY <1>0, <2>1, <3>1 DEF Effect, Set
    <3> QED
      BY <1>0, <3>2 DEF Same, BucketRecords
  <2> QED
    BY <1>1, <1>2, <2>1 DEF MoveKind, Served, Writes
<1>3. CASE OthersKind
  <2>1. ASSUME NEW a \in Buckets, FillBucket(a) \/ EmptyBucket(a)
        PROVE  Same(b)
    BY <1>0, <2>1 DEF FillBucket, EmptyBucket, Set, Same, BucketRecords
  <2>2. inFlight = {}
    BY MeddledStays DEF LateInv
  <2> QED
    BY <1>3, <2>1, <2>2 DEF OthersKind
<1> QED
  BY <1>1, <1>2, <1>3, Kinds DEF OwnKind, ControllerKind, Server, vars

-----------------------------------------------------------------------------
(***************************************************************************)
(* What ensure_bucket has established of the bucket b with the spec s when *)
(* it makes the call labelled l, or ends with result r.                    *)
(***************************************************************************)
DeclaredAs(s, b) ==
  /\ b.exists
  /\ s.versioning # None => VersioningOf(b) = s.versioning
  /\ s.quota # None => b.quota = s.quota

Established(l, s, b, r) ==
  /\ l \in {"getVersioning", "setVersioning"} => s.versioning # None /\ b.exists
  /\ l = "setVersioning" => VersioningOf(b) # s.versioning
  /\ l \in {"getQuota", "setQuota"} =>
       /\ s.quota # None /\ b.exists
       /\ s.versioning # None => VersioningOf(b) = s.versioning
  /\ l = "setQuota" => QuotaOf(b) # s.quota
  /\ l = "status" /\ r = "reconciled" => DeclaredAs(s, b)

Progress(o, c) == Established(pc[o][c], obj[o][c].spec, Bucket(o, c), result[o][c])

ProgressInv == ~meddled => \A o \in Operators, c \in CRs : Progress(o, c)

\* What the order of the calls rests on.
LEMMA AfterEstablishes ==
  ASSUME NEW x, NEW b, b.exists
  PROVE  /\ Established(AfterExistence(x), x.spec, b, "reconciled")
         /\ (x.spec.versioning # None => VersioningOf(b) = x.spec.versioning)
              => Established(AfterVersioning(x), x.spec, b, "reconciled")
BY DEF AfterExistence, AfterVersioning, Established, DeclaredAs

\* A label that nothing rests on.
LEMMA NothingEstablished ==
  \A l, s, b, r :
    l \notin {"getVersioning", "setVersioning", "getQuota", "setQuota", "status"}
      => Established(l, s, b, r)
BY DEF Established

\* The objects of a bucket have no part in it.
LEMMA SameEstablished ==
  ASSUME TypeOK, NEW b \in Buckets, Same(b)
  PROVE  /\ \A l, s, r : Established(l, s, buckets[b], r) => Established(l, s, buckets'[b], r)
         /\ \A s : DeclaredAs(s, buckets[b]) => DeclaredAs(s, buckets'[b])
<1>1. /\ buckets'[b].exists = buckets[b].exists
      /\ buckets'[b].versioning = buckets[b].versioning
      /\ buckets'[b].quota = buckets[b].quota
  BY DEF Same, TypeOK, BucketRecords
<1>2. \A s : DeclaredAs(s, buckets[b]) => DeclaredAs(s, buckets'[b])
  BY <1>1 DEF DeclaredAs, VersioningOf
<1>3. /\ VersioningOf(buckets'[b]) = VersioningOf(buckets[b])
      /\ QuotaOf(buckets'[b]) = QuotaOf(buckets[b])
  BY <1>1 DEF VersioningOf, QuotaOf
<1> QED
  BY <1>1, <1>2, <1>3 DEF Established

\* How a move ends: with the call l next, or as a failure.
LEMMA ProceedEstablishes ==
  ASSUME TypeOK, NEW o \in Operators, NEW c \in CRs, NEW l, Proceed(o, c, l),
         Established(l, obj[o][c].spec, buckets'[BucketName(o, c)], "reconciled")
  PROVE  Progress(o, c)'
<1>1. /\ pc'[o][c] = l /\ obj' = obj
      /\ l = "status" => result'[o][c] = "reconciled"
  BY DEF TypeOK, ControllerTypeOK, RuntimeTypeOK, Proceed, Goto
<1> QED
  BY <1>1 DEF Progress, Established, Bucket, BucketName

\* A reconciliation that fails reports no success,
LEMMA FailEstablishes ==
  ASSUME TypeOK, NEW o \in Operators, NEW c \in CRs, NEW e \in {"config", "retry"}, Fail(o, c, e)
  PROVE  Progress(o, c)'
<1>1. pc'[o][c] = "status" /\ result'[o][c] # "reconciled"
  BY DEF TypeOK, ControllerTypeOK, RuntimeTypeOK, Fail, Goto
<1> QED
  BY <1>1 DEF Progress, Established

\* nor does one that is over.
LEMMA FinishEstablishes ==
  ASSUME TypeOK, NEW o \in Operators, NEW c \in CRs, pc'[o][c] \in ResourceSteps \ {"status"}
  PROVE  Progress(o, c)'
<1>1. pc'[o][c] \notin {"getVersioning", "setVersioning", "getQuota", "setQuota", "status"}
  BY DEF ResourceSteps
<1> QED
  BY <1>1 DEF Progress, Established

-----------------------------------------------------------------------------
(***************************************************************************)
(* What a request that is accepted makes of its bucket, with snapshot s.   *)
(***************************************************************************)
Written(op, c, s, b, bb) ==
  /\ op = "create" => ~b.exists /\ bb = [NoBucket EXCEPT !.exists = TRUE, !.by = c]
  /\ op = "setVersioning" => b.exists /\ bb = [b EXCEPT !.versioning = s.versioning]
  /\ op = "setQuota" => b.exists /\ bb = [b EXCEPT !.quota = s.quota]
  /\ op = "delete" => ~b.objects /\ bb = NoBucket

\* What a request makes of its bucket.
LEMMA RequestWrites ==
  ASSUME TypeOK, NEW o \in Operators, NEW c \in CRs, NEW op \in WriteSteps,
         Accepted(BucketRequest(o, c, op)), Effect(BucketRequest(o, c, op))
  PROVE  Written(op, c, obj[o][c].spec, Bucket(o, c), buckets'[BucketName(o, c)])
<1> DEFINE r == BucketRequest(o, c, op)
<1>1. /\ r.op = op /\ r.bucket = BucketName(o, c) /\ r.by = c /\ r.spec = obj[o][c].spec
      /\ r.bucket \in Buckets
  BY RequestTyped DEF BucketRequest, BucketRequests
<1>2. buckets \in [Buckets -> BucketRecords] /\ Accepted(r) /\ Effect(r)
  BY DEF TypeOK
<1> HIDE DEF r
<1>3. CASE op = "create"
  BY <1>1, <1>2, <1>3 DEF Accepted, Effect, Set, Written, Bucket
<1>4. CASE op = "setVersioning"
  <2>1. /\ buckets[r.bucket].exists
        /\ buckets' = [buckets EXCEPT ![r.bucket] = [buckets[r.bucket] EXCEPT !.versioning = r.spec.versioning]]
    BY <1>1, <1>2, <1>4 DEF Accepted, Effect, Set
  <2>2. buckets'[r.bucket] = [buckets[r.bucket] EXCEPT !.versioning = r.spec.versioning]
    BY <1>1, <1>2, <2>1
  <2> QED
    BY <1>1, <1>4, <2>1, <2>2 DEF Written, Bucket
<1>5. CASE op = "setQuota"
  <2>1. /\ buckets[r.bucket].exists
        /\ buckets' = [buckets EXCEPT ![r.bucket] = [buckets[r.bucket] EXCEPT !.quota = r.spec.quota]]
    BY <1>1, <1>2, <1>5 DEF Accepted, Effect, Set
  <2>2. buckets'[r.bucket] = [buckets[r.bucket] EXCEPT !.quota = r.spec.quota]
    BY <1>1, <1>2, <2>1
  <2> QED
    BY <1>1, <1>5, <2>1, <2>2 DEF Written, Bucket
<1>6. CASE op = "delete"
  BY <1>1, <1>2, <1>6 DEF Accepted, Effect, Set, Written, Bucket
<1> QED
  BY <1>3, <1>4, <1>5, <1>6 DEF WriteSteps

\* How a call of apply() that writes ends.
LEMMA WriteEnds ==
  ASSUME TypeOK, NEW o \in Operators, NEW c \in CRs, NEW op \in WriteSteps, NEW l,
         Write(o, c, op, l)
  PROVE  \/ Fail(o, c, "retry")
         \/ /\ Proceed(o, c, l)
            /\ Written(op, c, obj[o][c].spec, Bucket(o, c), buckets'[BucketName(o, c)])
BY RequestWrites DEF Write, Call

\* Each call of ensure_bucket establishes what the next one rests on.
LEMMA EnsureEstablishes ==
  ASSUME TypeOK, NEW o \in Operators, NEW c \in CRs, Ensure(o, c), Progress(o, c)
  PROVE  Progress(o, c)'
<1> DEFINE x == obj[o][c]
           b == Bucket(o, c)
           bb == buckets'[BucketName(o, c)]
<1>1. b \in BucketRecords
  BY SpecsAssumption DEF TypeOK, ControllerTypeOK, RuntimeTypeOK, Objects, BucketSpecs, Bucket,
     BucketName
<1>2. /\ Fail(o, c, "retry") => Progress(o, c)'
      /\ \A l : /\ Proceed(o, c, l)
                /\ Established(l, x.spec, bb, "reconciled")
                => Progress(o, c)'
  BY FailEstablishes, ProceedEstablishes
<1>3. Established(pc[o][c], x.spec, b, result[o][c])
  BY DEF Progress
<1>4. UNCHANGED buckets => bb = b
  BY DEF Bucket
<1> HIDE DEF x, b, bb
<1>5. CASE HeadBucket(o, c)
  <2>1. Established("create", x.spec, b, "reconciled")
    BY DEF Established
  <2> QED
    BY <1>2, <1>4, <1>5, <2>1, AfterEstablishes DEF HeadBucket, Query, Server, x, b
<1>6. CASE CreateBucket(o, c)
  <2>1. \/ Fail(o, c, "retry")
        \/ Proceed(o, c, AfterExistence(x)) /\ Written("create", c, x.spec, b, bb)
    BY <1>6, WriteEnds DEF CreateBucket, WriteSteps, x, b, bb
  <2>2. Written("create", c, x.spec, b, bb) => bb.exists
    BY DEF Written, NoBucket
  <2> QED
    BY <1>2, <2>1, <2>2, AfterEstablishes
<1>7. CASE GetVersioning(o, c)
  <2>1. pc[o][c] = "getVersioning" /\ bb = b
    BY <1>4, <1>7 DEF GetVersioning, Call, Server
  <2>2. b.exists /\ x.spec.versioning # None
    BY <1>3, <2>1 DEF Established
  <2>3. Fail(o, c, "retry")
        \/ Proceed(o, c, IF VersioningOf(b) # x.spec.versioning
                           THEN "setVersioning" ELSE AfterVersioning(x))
    BY <1>7 DEF GetVersioning, Call, x, b
  <2>4. VersioningOf(b) # x.spec.versioning => Established("setVersioning", x.spec, b, "reconciled")
    BY <2>2 DEF Established
  <2> QED
    BY <1>2, <2>1, <2>2, <2>3, <2>4, AfterEstablishes
<1>8. CASE SetVersioning(o, c)
  <2>1. \/ Fail(o, c, "retry")
        \/ Proceed(o, c, AfterVersioning(x)) /\ Written("setVersioning", c, x.spec, b, bb)
    BY <1>8, WriteEnds DEF SetVersioning, WriteSteps, x, b, bb
  <2>2. x.spec.versioning # None
    BY <1>3, <1>8 DEF SetVersioning, Write, Established
  <2>3. Written("setVersioning", c, x.spec, b, bb)
          => bb.exists /\ bb.versioning = x.spec.versioning
    BY <1>1 DEF Written, BucketRecords
  <2>4. Written("setVersioning", c, x.spec, b, bb)
          => bb.exists /\ VersioningOf(bb) = x.spec.versioning
    BY <2>2, <2>3 DEF VersioningOf
  <2> QED
    BY <1>2, <2>1, <2>4, AfterEstablishes
<1>9. CASE GetQuota(o, c)
  <2>1. pc[o][c] = "getQuota" /\ bb = b
    BY <1>4, <1>9 DEF GetQuota, Server
  <2>2. /\ b.exists /\ x.spec.quota # None
        /\ x.spec.versioning # None => VersioningOf(b) = x.spec.versioning
    BY <1>3, <2>1 DEF Established
  <2>3. Fail(o, c, "retry")
        \/ Proceed(o, c, IF QuotaOf(b) # x.spec.quota THEN "setQuota" ELSE "status")
    BY <1>9 DEF GetQuota, Query, x, b
  <2>4. QuotaOf(b) # x.spec.quota => Established("setQuota", x.spec, b, "reconciled")
    BY <2>2 DEF Established
  <2>5. QuotaOf(b) = x.spec.quota => Established("status", x.spec, b, "reconciled")
    BY <2>2 DEF Established, DeclaredAs, QuotaOf
  <2> QED
    BY <1>2, <2>1, <2>3, <2>4, <2>5
<1>10. CASE SetQuota(o, c)
  <2>1. \/ Fail(o, c, "retry")
        \/ Proceed(o, c, "status") /\ Written("setQuota", c, x.spec, b, bb)
    BY <1>10, WriteEnds DEF SetQuota, WriteSteps, x, b, bb
  <2>2. x.spec.versioning # None => VersioningOf(b) = x.spec.versioning
    BY <1>3, <1>10 DEF SetQuota, Write, Established
  <2>3. Written("setQuota", c, x.spec, b, bb)
          => bb.exists /\ bb.quota = x.spec.quota /\ VersioningOf(bb) = VersioningOf(b)
    BY <1>1 DEF Written, BucketRecords, VersioningOf
  <2>4. Written("setQuota", c, x.spec, b, bb) => Established("status", x.spec, bb, "reconciled")
    BY <2>2, <2>3 DEF Established, DeclaredAs
  <2> QED
    BY <1>2, <2>1, <2>4
<1> QED
  BY <1>5, <1>6, <1>7, <1>8, <1>9, <1>10 DEF Ensure

-----------------------------------------------------------------------------
\* Every reconciliation but the one that takes the step stays where it is.
LEMMA Elsewhere ==
  ASSUME TypeOK, [Next]_vars, NEW p \in Operators, NEW d \in CRs
  PROVE  Reconcile(p, d) \/ pc'[p][d] = "idle" \/ Stays(p, d)
<1>0. Typed(Steps)
  BY DEF TypeOK, Typed
<1>1. ASSUME NEW o \in Operators, NEW c \in CRs, Reconcile(o, c), p # o \/ d # c
      PROVE  Stays(p, d)
  BY <1>0, <1>1, ReconcileKinds, OwnStepStays, MovesStay DEF OwnKind, MoveKind
<1>2. CASE \E b \in Buckets : DriftBucket(b) \/ FillBucket(b) \/ EmptyBucket(b)
  BY <1>2 DEF DriftBucket, Drift, FillBucket, EmptyBucket, controllerVars, Stays
<1>3. CASE \E r \in inFlight : Land(r)
  BY <1>3 DEF Land, controllerVars, Stays
<1>4. CASE UNCHANGED vars
  BY <1>4 DEF vars, controllerVars, Stays
<1> QED
  BY <1>0, <1>1, <1>2, <1>3, <1>4, OutsideStays DEF Next

\* A step of its own that is not meddled with establishes what follows.
LEMMA OwnEstablishes ==
  ASSUME TypeOK, NEW o \in Operators, NEW c \in CRs, Reconcile(o, c), ~meddled', Progress(o, c)
  PROVE  Progress(o, c)'
<1>0. Typed(Steps) /\ pc \in [Operators -> [CRs -> Steps \union ResourceSteps]]
  BY DEF TypeOK, Typed, ControllerTypeOK, RuntimeTypeOK
<1>1. CASE OwnStep(o, c)
  BY <1>0, <1>1, OwnStepLeads, FinishEstablishes
<1>2. ASSUME NEW e, CleanupFails(o, c, e)
      PROVE  Progress(o, c)'
  BY <1>0, <1>2, FinishEstablishes DEF CleanupFails, Finish, ResourceSteps
<1>3. ASSUME NEW l \in {"head", "delete", "removeFinalizer"}, Proceed(o, c, l)
      PROVE  Progress(o, c)'
  BY <1>3, ProceedEstablishes, NothingEstablished
<1>4. CASE Cleanup(o, c)
  BY <1>2, <1>3, <1>4 DEF Cleanup
<1>5. CASE Connect(o, c, "apply", "head")
  BY <1>3, <1>5, FailEstablishes DEF Connect, Query
<1>6. CASE DeleteBucket(o, c)
  BY <1>2, <1>3, <1>6 DEF DeleteBucket, Delete
<1>7. ~DeniedBucket(o, c) /\ \A op : ~GiveUp(o, c, op)
  BY DEF DeniedBucket, Denied, GiveUp
<1> QED
  BY <1>1, <1>4, <1>5, <1>6, <1>7, EnsureEstablishes DEF Reconcile, LocalStep

\* With one operator and a bucket of one's own, no other step disturbs it.
LEMMA ProgressStep ==
  SoleOperator /\ TypeOK /\ LateInv /\ Apart /\ ProgressInv /\ [Next]_vars => ProgressInv'
<1> SUFFICES ASSUME SoleOperator, TypeOK, LateInv, Apart, ProgressInv, [Next]_vars, ~meddled',
                    NEW p \in Operators, NEW d \in CRs
             PROVE  Progress(p, d)'
  BY DEF ProgressInv
<1> DEFINE b == BucketName(p, d)
<1>1. Progress(p, d) /\ b \in Buckets
  BY MeddledStays, SpecsAssumption
  DEF ProgressInv, TypeOK, ControllerTypeOK, RuntimeTypeOK, Objects, BucketSpecs, BucketName
<1>2. CASE Reconcile(p, d)
  BY <1>1, <1>2, OwnEstablishes
<1>3. CASE pc'[p][d] = "idle"
  BY <1>3, FinishEstablishes DEF ResourceSteps
<1>4. CASE pc[p][d] # "idle" /\ Stays(p, d) /\ ~Reconcile(p, d)
  <2>1. ASSUME NEW o \in Operators, NEW c \in CRs, Reconcile(o, c), Writes(o, c),
               BucketName(o, c) = b
        PROVE  FALSE
    <3>1. o = p
      BY DEF SoleOperator
    <3>2. pc[o][c] # "idle"
      BY <2>1 DEF Writes, WriteSteps
    <3>3. Names(c, b) /\ Names(d, b)
      BY <1>4, <2>1, <3>2 DEF Names, BucketName
    <3>4. c = d
      BY <1>1, <3>3 DEF Apart
    <3> QED
      BY <1>4, <2>1, <3>1, <3>4
  <2>2. Same(b)
    BY <1>1, <2>1, BucketCases
  <2> QED
    BY <1>1, <1>4, <2>2, SameEstablished DEF Progress, Stays, Bucket, BucketName
<1>5. CASE pc[p][d] = "idle" /\ Stays(p, d)
  BY <1>5, FinishEstablishes DEF Stays, ResourceSteps
<1> QED
  BY <1>2, <1>3, <1>4, <1>5, Elsewhere

\* At first nothing is established and no request is late.
LEMMA InitProgress == Init => LateInv /\ ProgressInv
<1> SUFFICES ASSUME Init
             PROVE  LateInv /\ ProgressInv
  OBVIOUS
<1>1. LateInv /\ \A o \in Operators, c \in CRs : pc[o][c] = "idle"
  BY DEF Init, ControllerInit, RuntimeInit, LateInv
<1> QED
  BY <1>1 DEF ProgressInv, Progress, Established

\* What a reconciliation has established so far, in every state.
LEMMA ProgressCorrect == SoleOperator /\ SafetySpec /\ []Apart => [](LateInv /\ ProgressInv)
<1> SUFFICES ASSUME SoleOperator
             PROVE  SafetySpec /\ []Apart => [](LateInv /\ ProgressInv)
  OBVIOUS
<1>1. TypeOK /\ LateInv /\ [Next]_vars => LateInv'
  BY MeddledStays
<1> QED
  BY <1>1, InitProgress, ProgressStep, TypeCorrect, PTL DEF SafetySpec

\* What a reconciliation that is about to write has found.
LEMMA MatchingStep ==
  ASSUME TypeOK, ProgressInv, ~meddled,
         NEW o \in Operators, NEW c \in CRs
  PROVE  LET b == Bucket(o, c)
             s == obj[o][c].spec
         IN /\ Calls(o, c, "setVersioning") => VersioningOf(b) # s.versioning
            /\ Calls(o, c, "setQuota") /\ s.quota # 0 => b.quota # s.quota
<1>1. Progress(o, c)
  BY DEF ProgressInv
<1>2. pc[o][c] = "setVersioning" => VersioningOf(Bucket(o, c)) # obj[o][c].spec.versioning
  BY <1>1 DEF Progress, Established
<1>3. pc[o][c] = "setQuota" /\ obj[o][c].spec.quota # 0 => Bucket(o, c).quota # obj[o][c].spec.quota
  BY <1>1 DEF Progress, Established, QuotaOf
<1> QED
  BY <1>2, <1>3 DEF Calls

(***************************************************************************)
(* As long as one operator runs and no two resources are about one bucket, *)
(* a bucket that is already as declared is written to only by other tools. *)
(***************************************************************************)
THEOREM MatchingCorrect == SoleOperator /\ SafetySpec /\ []Apart => MatchingUntouched
<1>1. TypeOK /\ ProgressInv =>
        [~meddled =>
           \A o \in Operators, c \in CRs :
             LET b == Bucket(o, c)
                 s == obj[o][c].spec
             IN /\ Calls(o, c, "setVersioning") => VersioningOf(b) # s.versioning
                /\ Calls(o, c, "setQuota") /\ s.quota # 0 => b.quota # s.quota]_vars
  BY MatchingStep
<1> QED
  BY <1>1, TypeCorrect, ProgressCorrect, PTL DEF MatchingUntouched

-----------------------------------------------------------------------------
(***************************************************************************)
(* Ready means that the bucket is as the spec declares it.                 *)
(***************************************************************************)
LEMMA DeclaredIs == \A c : Declared(c) <=> DeclaredAs(cr[c].spec, buckets[cr[c].spec.name])
BY DEF Declared, DeclaredAs

\* What the steps make of the server's copy of a resource.
LEMMA CopyCases ==
  ASSUME TypeOK, [Next]_vars, NEW c \in CRs
  PROVE  \/ Rewritten(cr[c], cr'[c])
         \/ \E o \in Operators : Reports(o, c) /\ UNCHANGED buckets
<1>0. Typed(Steps)
  BY DEF TypeOK, Typed
<1>1. ASSUME NEW o \in Operators, NEW d \in CRs, OwnKind(o, d)
      PROVE  /\ UNCHANGED buckets
             /\ Rewritten(cr[c], cr'[c]) \/ Reports(o, c)
  BY <1>0, <1>1, OwnStepWrites DEF OwnKind, Server, Rewritten
<1>2. ASSUME NEW d \in CRs, UserStep(d, Specs)
      PROVE  Rewritten(cr[c], cr'[c])
  BY <1>0, <1>2, UserWrites DEF Rewritten
<1>3. ASSUME NEW o, NEW d, Moves(Steps, o, d)
      PROVE  cr' = cr
  BY <1>3 DEF Moves, Proceed, Fail, Goto, CleanupFails
<1>4. CASE cr' = cr
  BY <1>4 DEF Rewritten
<1>5. (\E o, d : Watch(o, d)) \/ (\E o : Crash(o)) \/ OthersKind \/ UNCHANGED vars => cr' = cr
  BY DEF Watch, Deliver, Crash, Restart, OthersKind, vars, controllerVars
<1> QED
  BY <1>1, <1>2, <1>3, <1>4, <1>5, Kinds DEF ControllerKind, MoveKind, Rewritten

\* What a resource that is ready lets its own reconciliation write.
LEMMA ReadyWrites ==
  ASSUME TypeOK, SnapshotInv, NEW o \in Operators, NEW c \in CRs, Writes(o, c),
         Claims(cr[c]), BucketName(o, c) = cr[c].spec.name, Declared(c)
  PROVE  DeclaredAs(cr[c].spec, buckets'[cr[c].spec.name])
<1>0. /\ Typed(Steps) /\ cr[c] \in ApiObjects /\ ServerOK(cr[c])
      /\ RunOK(pc[o][c], obj[o][c], cache[o][c], cr[c], ApplyLabels(Steps), CleanupSteps)
  BY DEF TypeOK, Typed, ControllerTypeOK, RuntimeTypeOK, ApiObjects,
     SnapshotInv, ControllerSnapshotsOK, SnapshotsOK, ApplyLabels
<1>1. PICK op \in WriteSteps :
        pc[o][c] = op /\ Accepted(BucketRequest(o, c, op)) /\ Effect(BucketRequest(o, c, op))
  BY DEF Writes
<1>2. op # "delete"
  <2>1. Held(cr[c])
    BY <1>0, ClaimsHeld
  <2> QED
    BY <1>0, <1>1, <2>1 DEF RunOK, CleanupSteps
<1>3. obj[o][c].spec = cr[c].spec
  <2>1. pc[o][c] \in ApplyLabels(Steps)
    BY <1>1, <1>2 DEF ApplyLabels, Steps, WriteSteps
  <2> QED
    BY <1>0, <2>1, ApplyCurrent DEF Claims, SnapshotInv
<1> DEFINE s == cr[c].spec
           b == buckets[s.name]
           bb == buckets'[s.name]
<1>4. Written(op, c, s, b, bb) /\ DeclaredAs(s, b) /\ b \in BucketRecords
  BY <1>1, <1>3, RequestWrites, DeclaredIs, SpecsAssumption
  DEF Bucket, BucketName, TypeOK, ControllerTypeOK, RuntimeTypeOK, Objects, BucketSpecs
<1> HIDE DEF s, b, bb
<1>5. DeclaredAs(s, bb)
  BY <1>2, <1>4 DEF Written, DeclaredAs, WriteSteps, BucketRecords, VersioningOf
<1> QED
  BY <1>5 DEF s, bb

\* A step leaves a resource ready only if its bucket is as declared.
LEMMA ReadyStep ==
  ASSUME TypeOK, SnapshotInv, LateInv, ProgressInv, Apart, ReadyMeansDeclared, [Next]_vars,
         ~meddled', NEW c \in CRs, Ready(c)'
  PROVE  Declared(c)'
<1>0. /\ Typed(Steps) /\ cr[c] \in ApiObjects /\ ServerOK(cr[c]) /\ ~meddled
      /\ cr[c].spec.name \in Buckets
  BY MeddledStays, SpecsAssumption
  DEF TypeOK, Typed, ControllerTypeOK, RuntimeTypeOK, ApiObjects, Objects, BucketSpecs,
      SnapshotInv, ControllerSnapshotsOK, SnapshotsOK
<1>1. Claims(cr'[c])
  BY DEF Ready, Claims, Exists
<1> DEFINE b == cr[c].spec.name
<1>2. SUFFICES cr'[c].spec = cr[c].spec /\ DeclaredAs(cr[c].spec, buckets'[b])
  BY DEF Declared, DeclaredAs, VersioningOf
<1>3. CASE \E o \in Operators : Reports(o, c) /\ UNCHANGED buckets
  <2>1. PICK o \in Operators : Reports(o, c) /\ UNCHANGED buckets
    BY <1>3
  <2>2. cr'[c].spec = cr[c].spec /\ result[o][c] = "reconciled" /\ obj[o][c].spec = cr[c].spec
    BY <1>0, <1>1, <2>1, StepsApart, ReportClaims DEF SnapshotInv
  <2>3. Established("status", obj[o][c].spec, Bucket(o, c), "reconciled")
    BY <1>0, <2>1, <2>2 DEF ProgressInv, Progress, Reports
  <2> QED
    BY <2>1, <2>2, <2>3 DEF Established, Bucket, BucketName
<1>4. CASE Rewritten(cr[c], cr'[c])
  <2>1. Claims(cr[c]) /\ cr'[c].spec = cr[c].spec
    BY <1>0, <1>1, <1>4, RewrittenClaims
  <2>2. Declared(c) /\ DeclaredAs(cr[c].spec, buckets[b])
    BY <1>0, <2>1, ReadyClaims, DeclaredIs DEF ReadyMeansDeclared
  <2>3. Same(b) => DeclaredAs(cr[c].spec, buckets'[b])
    BY <1>0, <2>2, SameEstablished
  <2>4. ASSUME NEW o \in Operators, NEW d \in CRs, Writes(o, d), BucketName(o, d) = b
        PROVE  DeclaredAs(cr[c].spec, buckets'[b])
    <3>1. Names(d, b)
      BY <2>4 DEF Names, BucketName, Writes, WriteSteps
    <3>2. Names(c, b)
      BY <2>1 DEF Names, Claims
    <3>3. d = c
      BY <1>0, <3>1, <3>2 DEF Apart
    <3> QED
      BY <2>1, <2>2, <2>4, <3>3, ReadyWrites
  <2> QED
    BY <1>0, <2>1, <2>3, <2>4, BucketCases
<1> QED
  BY <1>3, <1>4, CopyCases DEF Rewritten

(***************************************************************************)
(* As long as one operator runs and no two resources are about one bucket, *)
(* ready with the current generation means that the bucket is as declared. *)
(***************************************************************************)
THEOREM ReadyCorrect == SoleOperator /\ SafetySpec /\ []Apart => []ReadyMeansDeclared
<1> SUFFICES ASSUME SoleOperator
             PROVE  SafetySpec /\ []Apart => []ReadyMeansDeclared
  OBVIOUS
<1>1. Init => ReadyMeansDeclared
  BY DEF Init, ControllerInit, RuntimeInit, Blank, ReadyMeansDeclared, Ready, Exists
<1>2. TypeOK /\ SnapshotInv /\ LateInv /\ ProgressInv /\ Apart /\ ReadyMeansDeclared
        /\ [Next]_vars => ReadyMeansDeclared'
  BY ReadyStep DEF ReadyMeansDeclared
<1> QED
  BY <1>1, <1>2, TypeCorrect, SnapshotsCorrect, ProgressCorrect, PTL DEF SafetySpec

-----------------------------------------------------------------------------
(***************************************************************************)
(* A bucket that was made for a resource stays in its hands.               *)
(***************************************************************************)
LEMMA NextLeaves ==
  ASSUME TypeOK, [Next]_vars, NEW p \in Operators, NEW d \in CRs
  PROVE  Leaves(Steps, p, d)
<1>0. Typed(Steps)
  BY DEF TypeOK, Typed
<1>1. CASE UNCHANGED <<cr, cache, obj, pc>>
  BY <1>1 DEF Leaves, Copies, Caches, Continues
<1>2. OthersKind \/ UNCHANGED vars => UNCHANGED <<cr, cache, obj, pc>>
  BY DEF OthersKind, vars, controllerVars
<1> QED
  BY <1>0, <1>1, <1>2, Kinds, StepsApart, OwnStepLeaves, MovesLeave, OutsideLeaves
  DEF OwnKind, MoveKind, ControllerKind

\* The copies of a resource stay alike.
LEMMA IdentityStep ==
  TypeOK /\ SnapshotInv /\ IdentityInv(Steps) /\ [Next]_vars /\ Steady => IdentityInv(Steps)'
BY StepsApart, NextLeaves, LeavesIdentical DEF TypeOK, Typed, SnapshotInv, IdentityInv

MadeInv == \A b \in Buckets : buckets[b].by # None => buckets[b].exists

\* A bucket made for a resource is one that exists, still after a step.
LEMMA MadeStep == TypeOK /\ MadeInv /\ [Next]_vars => MadeInv'
<1> SUFFICES ASSUME TypeOK, MadeInv, [Next]_vars
             PROVE  MadeInv'
  OBVIOUS
<1>0. buckets \in [Buckets -> BucketRecords]
  BY DEF TypeOK
<1>1. ASSUME NEW b \in Buckets, NEW x, buckets' = [buckets EXCEPT ![b] = x],
             x.by # None => x.exists
      PROVE  MadeInv'
  BY <1>0, <1>1 DEF MadeInv
<1>2. ASSUME NEW r \in BucketRequests, Accepted(r), Effect(r)
      PROVE  MadeInv'
  <2>1. r.bucket \in Buckets /\ r.op \in WriteSteps /\ buckets[r.bucket] \in BucketRecords
    BY <1>0 DEF BucketRequests
  <2>2. CASE r.op = "create"
    BY <1>1, <1>2, <2>1, <2>2 DEF Effect, Set, NoBucket
  <2>3. CASE r.op = "delete"
    BY <1>1, <1>2, <2>1, <2>3 DEF Effect, Set, NoBucket
  <2>4. CASE r.op = "setVersioning"
    BY <1>1, <1>2, <2>1, <2>4 DEF Accepted, Effect, Set, BucketRecords
  <2>5. CASE r.op = "setQuota"
    BY <1>1, <1>2, <2>1, <2>5 DEF Accepted, Effect, Set, BucketRecords
  <2> QED
    BY <2>1, <2>2, <2>3, <2>4, <2>5 DEF WriteSteps
<1>3. ASSUME NEW o \in Operators, NEW c \in CRs, MoveKind(o, c)
      PROVE  MadeInv'
  BY <1>2, <1>3, RequestTyped DEF MoveKind, Served, Writes, MadeInv
<1>4. ASSUME NEW b \in Buckets, DriftBucket(b) \/ FillBucket(b) \/ EmptyBucket(b)
      PROVE  MadeInv'
  <2>0. buckets[b] \in BucketRecords
    BY <1>0
  <2>1. CASE DriftBucket(b)
    BY <1>0, <1>1, <2>0, <2>1 DEF DriftBucket, Set, NoBucket, BucketRecords
  <2>2. CASE FillBucket(b)
    BY <1>1, <2>0, <2>2 DEF FillBucket, Set, BucketRecords, MadeInv
  <2>3. CASE EmptyBucket(b)
    BY <1>1, <2>0, <2>3 DEF EmptyBucket, Set, BucketRecords, MadeInv
  <2> QED
    BY <1>4, <2>1, <2>2, <2>3
<1>5. ASSUME NEW r \in inFlight, Land(r)
      PROVE  MadeInv'
  BY <1>2, <1>5 DEF Land, MadeInv, TypeOK
<1>6. UNCHANGED buckets => MadeInv'
  BY DEF MadeInv
<1> QED
  BY <1>3, <1>4, <1>5, <1>6, Kinds DEF OwnKind, ControllerKind, Server, OthersKind, vars

(***************************************************************************)
(* The finalizer is asked off only for a bucket that is kept, or gone.     *)
(***************************************************************************)
LEMMA LeadsToRemoval ==
  ASSUME TypeOK, NEW o \in Operators, NEW c \in CRs, Reconcile(o, c), ~meddled',
         pc'[o][c] = "removeFinalizer"
  PROVE  /\ pc[o][c] \in CleanupSteps
         /\ \/ obj[o][c].spec.deletion = "Retain"
            \/ buckets'[BucketName(o, c)] = NoBucket
<1>0. pc \in [Operators -> [CRs -> Steps \union ResourceSteps]]
  BY DEF TypeOK, ControllerTypeOK, RuntimeTypeOK
<1>1. ASSUME NEW e, Finish(o, c, e)
      PROVE  FALSE
  BY <1>0, <1>1 DEF Finish
<1>2. ASSUME NEW m, Goto(o, c, m)
      PROVE  m = "removeFinalizer"
  BY <1>0, <1>2 DEF Goto
<1>3. CASE Start(o, c)
  BY <1>0, <1>3 DEF Start, FinalizerEvent
<1>4. CASE Retained(o, c)
  BY <1>4 DEF Retained, CleanupSteps
<1>5. CASE AddFinalizer(o, c) \/ RemoveFinalizer(o, c) \/ UpdateStatus(o, c)
  BY <1>1, <1>5 DEF AddFinalizer, RemoveFinalizer, UpdateStatus, PatchStatus
<1>6. CASE Cleanup(o, c)
  BY <1>1, <1>2, <1>6 DEF Cleanup, Proceed, CleanupFails
<1>7. CASE Connect(o, c, "apply", "head")
  BY <1>2, <1>7 DEF Connect, Query, Proceed, Fail
<1>8. CASE Ensure(o, c)
  <2>1. \A x : AfterExistence(x) # "removeFinalizer" /\ AfterVersioning(x) # "removeFinalizer"
    BY NextCalls DEF Steps
  <2>2. ASSUME NEW op, NEW l, Write(o, c, op, l), l # "removeFinalizer"
        PROVE  FALSE
    BY <1>2, <2>2 DEF Write, Call, Proceed, Fail
  <2>3. CASE CreateBucket(o, c) \/ SetVersioning(o, c) \/ SetQuota(o, c)
    BY <2>1, <2>2, <2>3 DEF CreateBucket, SetVersioning, SetQuota
  <2>4. CASE HeadBucket(o, c)
    BY <1>2, <2>1, <2>4 DEF HeadBucket, Query, Proceed, Fail
  <2>5. CASE GetVersioning(o, c)
    BY <1>2, <2>1, <2>5 DEF GetVersioning, Call, Proceed, Fail
  <2>6. CASE GetQuota(o, c)
    BY <1>2, <2>6 DEF GetQuota, Query, Proceed, Fail
  <2> QED
    BY <1>8, <2>3, <2>4, <2>5, <2>6 DEF Ensure
<1>9. CASE DeleteBucket(o, c)
  <2>1. Accepted(BucketRequest(o, c, "delete")) /\ Effect(BucketRequest(o, c, "delete"))
    BY <1>1, <1>9 DEF DeleteBucket, Delete, CleanupFails
  <2>2. Written("delete", c, obj[o][c].spec, Bucket(o, c), buckets'[BucketName(o, c)])
    BY <2>1, RequestWrites DEF WriteSteps
  <2> QED
    BY <1>9, <2>2 DEF Written, DeleteBucket, Delete, CleanupSteps
<1>10. ~DeniedBucket(o, c) /\ \A op : ~GiveUp(o, c, op)
  BY DEF DeniedBucket, Denied, GiveUp
<1> QED
  BY <1>3, <1>4, <1>5, <1>6, <1>7, <1>8, <1>9, <1>10 DEF Reconcile, LocalStep, OwnStep

\* How a step writes a resource.
LEMMA NextCopies ==
  ASSUME TypeOK, [Next]_vars, NEW d \in CRs
  PROVE  Copies(d)
<1>1. CASE \E p : p \in Operators
  BY <1>1, NextLeaves DEF Leaves
<1>2. CASE ~\E p : p \in Operators
  <2>1. ASSUME NEW c \in CRs, UserStep(c, Specs)
        PROVE  Copies(d)
    BY <2>1, UserWrites DEF Copies, TypeOK, Typed
  <2>2. OthersKind \/ UNCHANGED vars => cr' = cr
    BY DEF OthersKind, vars, controllerVars
  <2> QED
    BY <1>2, <2>1, <2>2, Kinds DEF ControllerKind, Copies
<1> QED
  BY <1>1, <1>2

OwnedInv ==
  ~meddled => \A c \in CRs, b \in Buckets : buckets[b].by = c => Owned(c, b)

\* A bucket stays in the hands of its resource.
LEMMA OwnedStep ==
  SoleOperator /\ TypeOK /\ SnapshotInv /\ LateInv /\ IdentityInv(Steps) /\ OwnedInv
    /\ [Next]_vars /\ Steady => OwnedInv'
<1> SUFFICES ASSUME SoleOperator, TypeOK, SnapshotInv, LateInv, IdentityInv(Steps), OwnedInv,
                    [Next]_vars, Steady, ~meddled',
                    NEW c \in CRs, NEW b \in Buckets, buckets'[b].by = c
             PROVE  Owned(c, b)'
  BY DEF OwnedInv
<1>0. /\ Typed(Steps) /\ ControllerSnapshotsOK(Steps) /\ ~meddled
      /\ buckets[b] \in BucketRecords /\ c # None
  BY MeddledStays, NoneIsNoResource DEF TypeOK, Typed, SnapshotInv
<1>1. CASE buckets[b].by = c
  <2>1. Owned(c, b)
    BY <1>0, <1>1 DEF OwnedInv
  <2>2. ASSUME NEW p \in Operators, pc'[p][c] = "removeFinalizer"
        PROVE  Kept(c)
    <3>1. CASE Reconcile(p, c)
      <4>1. Alike(obj[p][c], cr[c]) /\ cr[c].spec.name = b
        BY <2>1, <2>2, <3>1, LeadsToRemoval DEF Owned
      <4>2. buckets'[BucketName(p, c)] # NoBucket
        BY <1>0, <4>1 DEF Alike, BucketName, NoBucket
      <4> QED
        BY <2>2, <3>1, <4>1, <4>2, LeadsToRemoval DEF Kept, Alike
    <3>2. CASE Stays(p, c)
      BY <2>1, <2>2, <3>2 DEF Stays, Owned
    <3> QED
      BY <2>2, <3>1, <3>2, Elsewhere
  <2> QED
    BY <1>0, <2>1, <2>2, NextLeaves, NextCopies, StepsApart, OwnedKept
<1>2. CASE buckets[b].by # c
  <2>1. ~Same(b)
    BY <1>0, <1>2 DEF Same, BucketRecords
  <2>2. PICK o \in Operators, d \in CRs :
          MoveKind(o, d) /\ Writes(o, d) /\ BucketName(o, d) = b
    BY <2>1, BucketCases
  <2>3. PICK op \in WriteSteps :
          pc[o][d] = op /\ Written(op, d, obj[o][d].spec, buckets[b], buckets'[b])
    BY <2>2, RequestWrites DEF Writes, Bucket
  <2>4. op = "create" /\ d = c
    <3>1. CASE op = "create"
      BY <1>0, <2>3, <3>1 DEF Written, NoBucket
    <3>2. CASE op = "delete"
      BY <1>0, <2>3, <3>2 DEF Written, NoBucket
    <3>3. CASE op = "setVersioning"
      BY <1>0, <1>2, <2>3, <3>3 DEF Written, BucketRecords
    <3>4. CASE op = "setQuota"
      BY <1>0, <1>2, <2>3, <3>4 DEF Written, BucketRecords
    <3> QED
      BY <3>1, <3>2, <3>3, <3>4 DEF WriteSteps
  <2>5. pc'[o][c] \notin CleanupSteps /\ cr' = cr /\ cache' = cache
    <3>1. \/ \E m : Onward(Steps, pc[o][c], m) /\ Proceed(o, c, m)
          \/ Fail(o, c, "retry") \/ Fail(o, c, "config")
          \/ \E e : CleanupFails(o, c, e)
      BY <2>2, <2>4 DEF MoveKind, Moves
    <3>2. pc \in [Operators -> [CRs -> Steps \union ResourceSteps]]
      BY <1>0 DEF Typed, ControllerTypeOK, RuntimeTypeOK
    <3>3. ASSUME NEW m, Onward(Steps, pc[o][c], m), Proceed(o, c, m)
          PROVE  pc'[o][c] \notin CleanupSteps
      BY <2>3, <2>4, <3>2, <3>3 DEF Onward, Proceed, Goto, Steps, CleanupSteps
    <3>4. (\E e : CleanupFails(o, c, e) \/ Fail(o, c, e)) => pc'[o][c] \notin CleanupSteps
      BY <3>2 DEF CleanupFails, Finish, Fail, Goto, CleanupSteps
    <3>5. cr' = cr /\ cache' = cache
      BY <3>1 DEF CleanupFails, Finish, Fail, Proceed, Goto
    <3> QED
      BY <3>1, <3>3, <3>4, <3>5
  <2>6. pc[o][c] \in ApplyLabels(Steps)
    BY <2>3, <2>4 DEF ApplyLabels, Steps
  <2> QED
    BY <1>0, <2>2, <2>4, <2>5, <2>6, StepsApart, OwnedMade DEF BucketName
<1> QED
  BY <1>1, <1>2

\* It does so in every state.
LEMMA OwnedCorrect ==
  SoleOperator /\ SafetySpec /\ [][Steady]_vars
    => [](LateInv /\ IdentityInv(Steps) /\ MadeInv /\ OwnedInv)
<1> SUFFICES ASSUME SoleOperator
             PROVE  SafetySpec /\ [][Steady]_vars
                      => [](LateInv /\ IdentityInv(Steps) /\ MadeInv /\ OwnedInv)
  OBVIOUS
<1>1. Init => IdentityInv(Steps) /\ MadeInv /\ OwnedInv
  BY StepsApart, InitIdentity, NoneIsNoResource DEF Init, MadeInv, OwnedInv, NoBucket
<1>2. TypeOK /\ LateInv /\ [Next]_vars => LateInv'
  BY MeddledStays
<1>3. UNCHANGED vars => Steady
  BY DEF vars, controllerVars, Steady, Alike
<1> QED
  BY <1>1, <1>2, <1>3, InitProgress, IdentityStep, MadeStep, OwnedStep, TypeCorrect,
     SnapshotsCorrect, PTL DEF SafetySpec

(***************************************************************************)
(* As long as one operator runs, and users leave the name and the deletion *)
(* policy of their resources alone, a resource that is gone with           *)
(* deletionPolicy Delete has taken along the bucket created for it.        *)
(***************************************************************************)
THEOREM GoneCorrect == SoleOperator /\ SafetySpec /\ [][Steady]_vars => []GoneMeansRemoved
<1>1. TypeOK /\ SnapshotInv /\ OwnedInv => GoneMeansRemoved
  <2> SUFFICES ASSUME TypeOK, SnapshotInv, OwnedInv, ~meddled,
                      NEW c \in CRs, NEW b \in Buckets,
                      ~Exists(cr[c]), cr[c].spec.deletion = "Delete", buckets[b].by = c
               PROVE  FALSE
    BY DEF GoneMeansRemoved
  <2>1. Owned(c, b)
    BY DEF OwnedInv
  <2>2. ~cr[c].finalizer
    BY DEF SnapshotInv, ControllerSnapshotsOK, SnapshotsOK, ServerOK, Exists
  <2> QED
    BY <2>1, <2>2 DEF Owned, Kept
<1> QED
  BY <1>1, TypeCorrect, SnapshotsCorrect, OwnedCorrect, PTL

-----------------------------------------------------------------------------
(***************************************************************************)
(* The refinement.  A bucket is claimed by the resource that names it, or  *)
(* did and left it there; no two resources claim one.                      *)
(***************************************************************************)
Claimed(c, b) == Names(c, b) \/ (Holds(c) /\ cr[c].spec.name = b)

Distinct == \A c, d \in CRs, b \in Buckets : Claimed(c, b) /\ Claimed(d, b) => c = d

Abs == INSTANCE ManagedProofs WITH state <- Managing, meddled <- meddled

Fits(c) == Exists(cr[c]) /\ Declared(c)

\* ManagedProofs speaks of the specification that is implemented.
LEMMA SameAbstract ==
  /\ Abs!Init <=> Resources!Init
  /\ Abs!Next <=> Resources!Next
  /\ [Abs!Next]_(Abs!vars) <=> [Resources!Next]_(Resources!vars)
BY DEF Abs!Init, Abs!vars, Resources!Init, Abs!Next, Resources!Next, Resources!vars,
  Abs!Ask, Resources!Ask, Abs!Edit, Resources!Edit, Abs!Drop, Resources!Drop,
  Abs!Make, Resources!Make, Abs!Adjust, Resources!Adjust, Abs!Acknowledge, Resources!Acknowledge,
  Abs!Retract, Resources!Retract, Abs!Remove, Resources!Remove, Abs!Release, Resources!Release,
  Abs!Meddle, Resources!Meddle, Abs!Becomes, Resources!Becomes, Abs!MayLeave, Resources!MayLeave,
  Abs!Pending, Resources!Pending

\* The fields of a resource as ManagedResources has it.
LEMMA ManagedFields ==
  ASSUME NEW c \in CRs
  PROVE  /\ Managing[c].request = Request(c) /\ Managing[c].keep = Kept(c)
         /\ Managing[c].ready = Ready(c) /\ Managing[c].fits = Fits(c)
         /\ Managing[c].remote = Remote(c)
BY DEF Managing, AsManaged, Fits

\* The fields after a step.
LEMMA ManagedFieldsNext ==
  ASSUME NEW c \in CRs
  PROVE  /\ Managing'[c].request = Request(c)' /\ Managing'[c].keep = Kept(c)'
         /\ Managing'[c].ready = Ready(c)' /\ Managing'[c].fits = Fits(c)'
         /\ Managing'[c].remote = Remote(c)'
BY DEF Managing, AsManaged, Fits

\* They have their types.
LEMMA ManagedTyped == TypeOK => Abs!TypeOK
<1>1. ASSUME TypeOK, NEW c \in CRs
      PROVE  AsManaged(c, Fits(c), Remote(c)) \in Abs!States
  <2>1. Request(c) \in {"none", "wanted", "dying"}
    BY <1>1, RequestIs DEF TypeOK, ControllerTypeOK, RuntimeTypeOK, Objects, Phases
  <2>2. Kept(c) \in BOOLEAN /\ Ready(c) \in BOOLEAN /\ Fits(c) \in BOOLEAN
        /\ Remote(c) \in BOOLEAN
    BY DEF Kept, Ready, Fits, Remote, Exists, Declared
  <2> QED
    BY <2>1, <2>2 DEF AsManaged, Abs!States
<1>2. TypeOK => meddled \in BOOLEAN
  BY DEF TypeOK, ControllerTypeOK
<1>3. Managing = [c \in CRs |-> AsManaged(c, Fits(c), Remote(c))]
  BY DEF Managing, Fits
<1> QED
  BY <1>1, <1>2, <1>3 DEF Abs!TypeOK

\* After a step, too.
LEMMA ManagedTypedNext == TypeOK' => Abs!TypeOK'
BY ManagedTyped, PTL

\* A resource nobody writes, and a server that has of it what it had.
LEMMA SameManaged ==
  ASSUME NEW d \in CRs, cr'[d] = cr[d], Remote(d)' = Remote(d), Fits(d)' = Fits(d)
  PROVE  Managing'[d] = Managing[d]
<1>1. Request(d)' = Request(d) /\ Kept(d)' = Kept(d) /\ Ready(d)' = Ready(d)
  BY DEF Request, Kept, Ready, Exists
<1> QED
  BY <1>1 DEF Managing, AsManaged, Fits

\* What it has of a resource is told by the buckets.
LEMMA SameServer ==
  ASSUME TypeOK, \A b \in Buckets : Same(b), NEW d \in CRs
  PROVE  /\ Remote(d)' = Remote(d)
         /\ cr'[d].spec = cr[d].spec => (Declared(d)' <=> Declared(d))
<1>1. ASSUME NEW b \in Buckets
      PROVE  /\ buckets'[b].by = buckets[b].by
             /\ buckets'[b].exists = buckets[b].exists
             /\ buckets'[b].versioning = buckets[b].versioning
             /\ buckets'[b].quota = buckets[b].quota
  <2>1. Same(b) /\ buckets[b] \in BucketRecords
    BY DEF TypeOK
  <2> QED
    BY <2>1 DEF Same, BucketRecords
<1>2. Remote(d)' = Remote(d)
  BY <1>1 DEF Remote
<1>3. cr[d].spec.name \in Buckets
  BY SpecsAssumption DEF TypeOK, ControllerTypeOK, RuntimeTypeOK, Objects, BucketSpecs
<1>4. ASSUME cr'[d].spec = cr[d].spec
      PROVE  Declared(d)' <=> Declared(d)
  <2>1. VersioningOf(buckets[cr[d].spec.name])' = VersioningOf(buckets[cr[d].spec.name])
    BY <1>1, <1>3, <1>4 DEF VersioningOf
  <2> QED
    BY <1>1, <1>3, <1>4, <2>1 DEF Declared
<1> QED
  BY <1>2, <1>4

\* Interference concerns the server only.
LEMMA Meddling ==
  ASSUME TypeOK, TypeOK', cr' = cr, meddled' = TRUE
  PROVE  Abs!Next
<1>1. \A c \in CRs : Request(c)' = Request(c) /\ Kept(c)' = Kept(c) /\ Ready(c)' = Ready(c)
  BY DEF Request, Kept, Ready, Exists
<1>2. Abs!TypeOK /\ Abs!TypeOK'
  BY ManagedTyped, ManagedTypedNext
<1> QED
  BY <1>1, <1>2, ManagedFields, ManagedFieldsNext, Abs!MeddlingSteps DEF Abs!Unasked

(***************************************************************************)
(* What holds before and after every step.                                 *)
(***************************************************************************)
AllInv ==
  /\ TypeOK /\ SnapshotInv /\ LateInv /\ IdentityInv(Steps) /\ MadeInv /\ OwnedInv
  /\ ReadyMeansDeclared /\ Distinct

\* Whoever has a bucket claims it.
LEMMA OwnerClaims ==
  ASSUME AllInv, ~meddled, NEW c \in CRs, NEW b \in Buckets, buckets[b].by = c
  PROVE  Owned(c, b) /\ Claimed(c, b)
<1>1. Owned(c, b)
  BY DEF AllInv, OwnedInv
<1>2. ServerOK(cr[c])
  BY DEF AllInv, SnapshotInv, ControllerSnapshotsOK, SnapshotsOK
<1> QED
  BY <1>1, <1>2 DEF Owned, Claimed, Holds, ServerOK, Exists

\* A request concerns one bucket.
LEMMA WritesElsewhere ==
  ASSUME TypeOK, NEW o \in Operators, NEW c \in CRs, NEW op, Effect(BucketRequest(o, c, op)),
         NEW b \in Buckets, b # BucketName(o, c)
  PROVE  buckets'[b] = buckets[b]
<1>1. BucketRequest(o, c, op).bucket = BucketName(o, c)
  BY DEF BucketRequest
<1>2. \E x : buckets' = [buckets EXCEPT ![BucketName(o, c)] = x]
  BY <1>1 DEF Effect, Set
<1> QED
  BY <1>2 DEF TypeOK

\* A resource that exists asks for something.
LEMMA ExistsAsks ==
  ASSUME TypeOK, NEW c \in CRs
  PROVE  Exists(cr[c]) <=> Request(c) # "none"
BY RequestIs DEF TypeOK, ControllerTypeOK, RuntimeTypeOK, Objects, Phases, Exists

\* Still after a step.
LEMMA ExistsAsksNext ==
  ASSUME TypeOK', NEW c \in CRs
  PROVE  Exists(cr'[c]) <=> Request(c)' # "none"
BY RequestBecomes DEF TypeOK, ControllerTypeOK, RuntimeTypeOK, Objects, Phases, Exists

\* An apply() works for a resource that exists and names the same bucket.
LEMMA ApplyNames ==
  ASSUME AllInv, NEW o \in Operators, NEW c \in CRs, pc[o][c] \in ApplyLabels(Steps)
  PROVE  Exists(cr[c]) /\ cr[c].spec.name = BucketName(o, c)
<1>1. /\ ServerOK(cr[c]) /\ Identical(Steps, o, c)
      /\ RunOK(pc[o][c], obj[o][c], cache[o][c], cr[c], ApplyLabels(Steps), CleanupSteps)
  BY DEF AllInv, SnapshotInv, ControllerSnapshotsOK, SnapshotsOK, ApplyLabels, IdentityInv
<1> QED
  BY <1>1 DEF ServerOK, RunOK, Identical, Alike, AllSteps, BucketName, Exists

\* Its name is one of a bucket.
LEMMA NameTyped ==
  ASSUME TypeOK, NEW o \in Operators, NEW c \in CRs
  PROVE  BucketName(o, c) \in Buckets /\ cr[c].spec.name \in Buckets
BY SpecsAssumption
DEF TypeOK, ControllerTypeOK, RuntimeTypeOK, Objects, BucketSpecs, BucketName

\* A request of a reconciliation of c changes nothing for another resource.
LEMMA OthersUnconcerned ==
  ASSUME AllInv, ~meddled, NEW o \in Operators, NEW c \in CRs, NEW op \in WriteSteps,
         pc[o][c] = op, Effect(BucketRequest(o, c, op)), cr' = cr,
         Written(op, c, obj[o][c].spec, Bucket(o, c), buckets'[BucketName(o, c)]),
         NEW d \in CRs, d # c
  PROVE  Managing'[d] = Managing[d]
<1> DEFINE n == BucketName(o, c)
<1>0. TypeOK /\ n \in Buckets /\ buckets[n] \in BucketRecords /\ d # None
  BY NameTyped, NoneIsNoResource DEF AllInv, TypeOK
<1>1. Claimed(c, n)
  BY DEF Claimed, Names, BucketName, WriteSteps
<1>2. ~Claimed(d, n)
  BY <1>0, <1>1 DEF AllInv, Distinct
<1>3. \A b \in Buckets : b # n => buckets'[b] = buckets[b]
  BY <1>0, WritesElsewhere
<1>4. buckets[n].by # d
  BY <1>0, <1>2, OwnerClaims
<1>5. buckets'[n].by # d
  <2>1. Written(op, c, obj[o][c].spec, buckets[n], buckets'[n])
    BY DEF Bucket
  <2>2. CASE op = "create"
    BY <1>0, <2>1, <2>2 DEF Written, NoBucket
  <2>4. CASE op = "delete"
    <3>1. buckets'[n] = NoBucket
      BY <2>1, <2>4 DEF Written
    <3> QED
      BY <1>0, <3>1 DEF NoBucket
  <2>3. CASE op = "setVersioning" \/ op = "setQuota"
    BY <1>0, <1>4, <2>1, <2>3 DEF Written, BucketRecords
  <2> QED
    BY <2>2, <2>3, <2>4 DEF WriteSteps
<1>6. Remote(d)' = Remote(d)
  BY <1>0, <1>3, <1>4, <1>5 DEF Remote
<1>7. Exists(cr[d]) => cr[d].spec.name # n
  BY <1>2 DEF Claimed, Names
<1>8. Exists(cr[d]) => (Declared(d)' <=> Declared(d))
  BY <1>0, <1>3, <1>7, NameTyped DEF Declared, VersioningOf
<1> QED
  BY <1>6, <1>8, SameManaged DEF Fits, Exists

\* Its three kinds of request: creating the bucket,
LEMMA CreationConcerns ==
  ASSUME AllInv, ~meddled, NEW o \in Operators, NEW c \in CRs, pc[o][c] = "create", cr' = cr,
         Written("create", c, obj[o][c].spec, Bucket(o, c), buckets'[BucketName(o, c)])
  PROVE  Abs!Made(Managing[c], Managing'[c])
<1> DEFINE n == BucketName(o, c)
<1>0. TypeOK /\ n \in Buckets /\ c # None
  BY NameTyped, NoneIsNoResource DEF AllInv
<1>1. Exists(cr[c]) /\ cr[c].spec.name = n
  BY ApplyNames DEF ApplyLabels, Steps
<1>2. ~buckets[n].exists /\ buckets'[n].by = c
  BY DEF Written, Bucket, NoBucket
<1>3. ~Ready(c)
  BY <1>1, <1>2 DEF AllInv, ReadyMeansDeclared, Declared
<1>4. ~Remote(c)
  <2>1. ASSUME NEW b \in Buckets, buckets[b].by = c
        PROVE  FALSE
    <3>1. b = n
      BY <1>1, <2>1, OwnerClaims DEF Owned
    <3> QED
      BY <1>0, <1>2, <2>1, <3>1 DEF AllInv, MadeInv
  <2> QED
    BY <2>1 DEF Remote
<1>5. Remote(c)'
  BY <1>0, <1>2 DEF Remote
<1>6. Request(c)' = Request(c) /\ Kept(c)' = Kept(c) /\ Ready(c)' = Ready(c)
  BY DEF Request, Kept, Ready, Exists
<1>7. Request(c) # "none"
  BY <1>0, <1>1, ExistsAsks
<1> QED
  BY <1>3, <1>4, <1>5, <1>6, <1>7, ManagedFields, ManagedFieldsNext
  DEF Abs!Made, Abs!Unasked, Abs!Unfinished

\* changing an attribute,
LEMMA ChangeConcerns ==
  ASSUME AllInv, ~meddled, NEW o \in Operators, NEW c \in CRs,
         NEW op \in {"setVersioning", "setQuota"}, pc[o][c] = op, cr' = cr, Writes(o, c),
         Effect(BucketRequest(o, c, op)),
         Written(op, c, obj[o][c].spec, Bucket(o, c), buckets'[BucketName(o, c)])
  PROVE  Abs!Concerned(Managing[c], Managing'[c])
<1> DEFINE n == BucketName(o, c)
<1>0. TypeOK /\ n \in Buckets /\ buckets[n] \in BucketRecords
  BY NameTyped DEF AllInv, TypeOK
<1>1. Exists(cr[c]) /\ cr[c].spec.name = n
  BY ApplyNames DEF ApplyLabels, Steps
<1>2. buckets'[n].by = buckets[n].by
  BY <1>0 DEF Written, Bucket, BucketRecords
<1>3. Remote(c)' = Remote(c)
  <2>1. \A b \in Buckets : b # n => buckets'[b] = buckets[b]
    BY <1>0, WritesElsewhere
  <2> QED
    BY <1>2, <2>1 DEF Remote
<1>4. CASE Ready(c)
  <2>1. Declared(c) /\ Claims(cr[c])
    BY <1>4, ReadyClaims DEF AllInv, ReadyMeansDeclared
  <2>2. DeclaredAs(cr[c].spec, buckets'[n])
    BY <1>0, <1>1, <2>1, ReadyWrites DEF AllInv
  <2>3. Declared(c)'
    BY <1>1, <2>2 DEF Declared, DeclaredAs, VersioningOf
  <2>4. Fits(c)' = Fits(c)
    BY <1>1, <2>1, <2>3 DEF Fits
  <2> QED
    BY <1>3, <2>4, SameManaged DEF Abs!Concerned
<1>5. CASE ~Ready(c)
  <2>1. Request(c)' = Request(c) /\ Kept(c)' = Kept(c) /\ Ready(c)' = Ready(c)
    BY DEF Request, Kept, Ready, Exists
  <2>2. Request(c) # "none"
    BY <1>0, <1>1, ExistsAsks
  <2> QED
    BY <1>3, <1>5, <2>1, <2>2, ManagedFields, ManagedFieldsNext
    DEF Abs!Concerned, Abs!Adjusted, Abs!Unasked, Abs!Unfinished
<1> QED
  BY <1>4, <1>5

\* and deleting it.
LEMMA DeletionConcerns ==
  ASSUME AllInv, ~meddled, NEW o \in Operators, NEW c \in CRs, pc[o][c] = "delete", cr' = cr,
         Effect(BucketRequest(o, c, "delete")),
         Written("delete", c, obj[o][c].spec, Bucket(o, c), buckets'[BucketName(o, c)])
  PROVE  Abs!Concerned(Managing[c], Managing'[c])
<1> DEFINE n == BucketName(o, c)
<1>0. /\ TypeOK /\ n \in Buckets /\ cr[c] \in ApiObjects /\ cr[c].phase \in Phases /\ c # None
      /\ ServerOK(cr[c]) /\ Identical(Steps, o, c)
      /\ RunOK(pc[o][c], obj[o][c], cache[o][c], cr[c], ApplyLabels(Steps), CleanupSteps)
  BY NameTyped, NoneIsNoResource
  DEF AllInv, TypeOK, ControllerTypeOK, RuntimeTypeOK, ApiObjects, Objects,
      SnapshotInv, ControllerSnapshotsOK, SnapshotsOK, ApplyLabels, IdentityInv
<1>1. buckets'[n].by # c
  <2>1. buckets'[n] = NoBucket
    BY DEF Written
  <2> QED
    BY <1>0, <2>1 DEF NoBucket
<1>2. \A b \in Buckets : b # n => buckets'[b] = buckets[b]
  BY <1>0, WritesElsewhere
<1>3. ~Held(cr[c]) /\ ~Ready(c)
  <2>1. ~Held(cr[c])
    BY <1>0 DEF RunOK, CleanupSteps
  <2> QED
    BY <1>0, <2>1, ReadyClaims, ClaimsHeld
<1>4. Request(c)' = Request(c) /\ Kept(c)' = Kept(c) /\ Ready(c)' = Ready(c)
  BY DEF Request, Kept, Ready, Exists
<1>5. CASE buckets[n].by = c
  <2>1. Owned(c, n)
    BY <1>0, <1>5, OwnerClaims
  <2>2. cr[c].finalizer /\ ~Kept(c)
    <3>1. Alike(obj[o][c], cr[c])
      BY <2>1 DEF Owned, CleanupSteps
    <3>2. obj[o][c].spec.deletion = "Delete"
      BY <1>0 DEF Identical
    <3>3. ~Kept(c)
      BY <3>1, <3>2 DEF Kept, Alike
    <3> QED
      BY <2>1, <3>3 DEF Owned
  <2>3. Request(c) = "dying"
    BY <1>0, <1>3, <2>2, RequestIs DEF ServerOK, Held, Phases
  <2>4. Remote(c)
    BY <1>0, <1>5 DEF Remote
  <2>5. ~Remote(c)'
    <3>1. ASSUME NEW b \in Buckets, b # n
          PROVE  buckets[b].by # c
      BY <2>1, <3>1, OwnerClaims DEF Owned
    <3> QED
      BY <1>1, <1>2, <3>1 DEF Remote
  <2> QED
    BY <1>4, <2>2, <2>3, <2>4, <2>5, ManagedFields, ManagedFieldsNext
    DEF Abs!Concerned, Abs!Removed, Abs!Unasked
<1>6. CASE buckets[n].by # c
  <2>1. Remote(c)' = Remote(c)
    BY <1>1, <1>2, <1>6 DEF Remote
  <2>2. CASE Exists(cr[c])
    <3>1. Request(c) # "none"
      BY <1>0, <2>2, ExistsAsks
    <3> QED
      BY <1>3, <1>4, <2>1, <3>1, ManagedFields, ManagedFieldsNext
      DEF Abs!Concerned, Abs!Adjusted, Abs!Unasked, Abs!Unfinished
  <2>3. CASE ~Exists(cr[c])
    <3>1. Fits(c)' = Fits(c)
      BY <2>3 DEF Fits, Exists
    <3> QED
      BY <2>1, <3>1, SameManaged DEF Abs!Concerned
  <2> QED
    BY <2>2, <2>3
<1> QED
  BY <1>5, <1>6

\* A step that writes the resource leaves the server alone.
LEMMA CopyConcerns ==
  ASSUME AllInv, AllInv', UNCHANGED <<buckets, meddled>>, NEW c \in CRs, Copies(c)
  PROVE  Abs!Concerned(Managing[c], Managing'[c])
<1>0. TypeOK /\ TypeOK'
  BY DEF AllInv
<1>1. Turns(c)
  BY <1>0, StepsApart, CopiesTurn DEF AllInv, TypeOK, Typed, SnapshotInv
<1>2. Remote(c)' = Remote(c)
  BY DEF Remote
<1>3. CASE Request(c) = "none" /\ Request(c)' = "wanted" /\ ~Ready(c)'
  BY <1>2, <1>3, ManagedFields, ManagedFieldsNext DEF Abs!Concerned, Abs!Asked
<1>4. CASE Request(c) # "none" /\ Request(c)' = Request(c) /\ ~Ready(c)'
  BY <1>2, <1>4, ManagedFields, ManagedFieldsNext DEF Abs!Concerned, Abs!Edited
<1>5. CASE cr'[c].spec = cr[c].spec
  <2>1. Kept(c)' = Kept(c) /\ Declared(c)' = Declared(c)
    BY <1>5 DEF Kept, Declared, VersioningOf
  <2>2. /\ Fits(c) = (Request(c) # "none" /\ Declared(c))
        /\ Fits(c)' = (Request(c)' # "none" /\ Declared(c)')
    BY <1>0, ExistsAsks, ExistsAsksNext DEF Fits
  <2>3. ASSUME Remote(c), ~meddled
        PROVE  Owned(c, cr[c].spec.name)
    BY <2>3, OwnerClaims DEF Remote, Owned
  <2>4. CASE Request(c) = "wanted" /\ Request(c)' = "dying" /\ ~Ready(c)'
    BY <1>2, <2>1, <2>2, <2>4, ManagedFields, ManagedFieldsNext
    DEF Abs!Concerned, Abs!Dropped
  <2>5. CASE /\ Request(c) = "wanted" /\ Request(c)' = "none" /\ ~Ready(c)'
             /\ ~cr[c].finalizer
    <3>1. Remote(c) => Kept(c) \/ meddled
      BY <2>3, <2>5 DEF Owned
    <3>2. Fits(c)' = (Fits(c) /\ Request(c)' # "none")
      BY <2>2, <2>5
    <3> QED
      BY <1>2, <2>1, <2>5, <3>1, <3>2, ManagedFields, ManagedFieldsNext
      DEF Abs!Concerned, Abs!Dropped, Abs!Leaving
  <2>6. CASE /\ Request(c) = "dying" /\ Request(c)' = "none" /\ ~Ready(c) /\ ~Ready(c)'
             /\ \E o \in Operators : pc[o][c] = "removeFinalizer"
    <3>1. Remote(c) => Kept(c) \/ meddled
      BY <2>3, <2>6 DEF Owned
    <3>2. ~Fits(c)' /\ Ready(c)' = Ready(c)
      BY <2>2, <2>6 DEF Ready
    <3> QED
      BY <1>2, <2>1, <2>6, <3>1, <3>2, ManagedFields, ManagedFieldsNext
      DEF Abs!Concerned, Abs!Released, Abs!Leaving
  <2>7. CASE Request(c)' = Request(c) /\ (Ready(c)' => Request(c) = "wanted")
    <3>1. Fits(c)' = Fits(c)
      BY <2>1, <2>2, <2>7
    <3>2. Ready(c)' => Fits(c) \/ meddled
      <4>1. Ready(c)' /\ ~meddled => Declared(c)'
        BY DEF AllInv, ReadyMeansDeclared
      <4> QED
        BY <2>1, <2>2, <2>7, <4>1
    <3> QED
      BY <1>2, <2>1, <2>7, <3>1, <3>2, ManagedFields, ManagedFieldsNext
      DEF Abs!Concerned, Abs!Reported, Abs!Unasked
  <2> QED
    BY <1>1, <1>3, <1>4, <2>4, <2>5, <2>6, <2>7 DEF Turns
<1> QED
  BY <1>1, <1>3, <1>4, <1>5 DEF Turns

\* A step writes one resource, and leaves the server alone, or none.
LEMMA CopyOrServer ==
  ASSUME TypeOK, [Next]_vars
  PROVE  \/ cr' = cr
         \/ /\ UNCHANGED <<buckets, meddled>>
            /\ \E c \in CRs : \A d \in CRs \ {c} : cr'[d] = cr[d]
<1>0. Typed(Steps)
  BY DEF TypeOK, Typed
<1>1. ASSUME NEW o \in Operators, NEW c \in CRs, OwnKind(o, c)
      PROVE  UNCHANGED <<buckets, meddled>> /\ \A d \in CRs \ {c} : cr'[d] = cr[d]
  BY <1>0, <1>1, OwnStepWrites DEF OwnKind, Server, NoMeddling
<1>2. ASSUME NEW c \in CRs, UserStep(c, Specs), UNCHANGED Server
      PROVE  UNCHANGED <<buckets, meddled>> /\ \A d \in CRs \ {c} : cr'[d] = cr[d]
  BY <1>0, <1>2, UserWrites DEF Server, UserStep
<1>3. ASSUME NEW o \in Operators, NEW c \in CRs, MoveKind(o, c)
      PROVE  cr' = cr
  BY <1>3 DEF MoveKind, Moves, Proceed, Fail, Goto, CleanupFails
<1>4. (\E o \in Operators, c \in CRs : Watch(o, c)) \/ (\E o \in Operators : Crash(o))
        \/ OthersKind \/ UNCHANGED vars => cr' = cr
  BY DEF Watch, Deliver, Crash, Restart, OthersKind, vars, controllerVars
<1> QED
  BY <1>1, <1>2, <1>3, <1>4, Kinds DEF ControllerKind

\* Every step of the controller is one that ManagedResources has, or none.
LEMMA ManagedStep ==
  AllInv /\ AllInv' /\ [Next]_vars => [Abs!Next]_(Abs!vars)
<1> SUFFICES ASSUME AllInv, AllInv', [Next]_vars
             PROVE  [Abs!Next]_(Abs!vars)
  OBVIOUS
<1>0. TypeOK /\ TypeOK' /\ Abs!TypeOK /\ Abs!TypeOK'
  BY ManagedTyped, ManagedTypedNext DEF AllInv
<1>1. ASSUME UNCHANGED <<buckets, meddled>>, NEW c \in CRs, \A d \in CRs \ {c} : cr'[d] = cr[d]
      PROVE  [Abs!Next]_(Abs!vars)
  <2>1. ASSUME NEW d \in CRs \ {c}
        PROVE  Managing'[d] = Managing[d]
    BY <1>1, <2>1, SameManaged DEF Remote, Fits, Declared, VersioningOf
  <2>2. Abs!Concerned(Managing[c], Managing'[c])
    BY <1>0, <1>1, NextCopies, CopyConcerns
  <2> QED
    BY <1>0, <1>1, <2>1, <2>2, Abs!ConcernedSteps
<1>2. CASE cr' = cr /\ meddled'
  <2>1. meddled' = TRUE
    BY <1>0, <1>2 DEF Abs!TypeOK
  <2> QED
    BY <1>0, <1>2, <2>1, Meddling
<1>3. CASE cr' = cr /\ ~meddled'
  <2>1. ~meddled /\ UNCHANGED meddled
    BY <1>0, <1>3, MeddledStays DEF AllInv, Abs!TypeOK
  <2>2. ASSUME NEW o \in Operators, NEW c \in CRs, Writes(o, c)
        PROVE  [Abs!Next]_(Abs!vars)
    <3>1. PICK op \in WriteSteps :
            /\ pc[o][c] = op /\ Effect(BucketRequest(o, c, op))
            /\ Written(op, c, obj[o][c].spec, Bucket(o, c), buckets'[BucketName(o, c)])
      BY <1>0, <2>2, RequestWrites DEF Writes
    <3>2. \A d \in CRs \ {c} : Managing'[d] = Managing[d]
      BY <1>3, <2>1, <3>1, OthersUnconcerned
    <3>3. Abs!Concerned(Managing[c], Managing'[c])
      BY <1>3, <2>1, <2>2, <3>1, CreationConcerns, ChangeConcerns, DeletionConcerns
      DEF WriteSteps, Abs!Concerned
    <3> QED
      BY <1>0, <2>1, <3>2, <3>3, Abs!ConcernedSteps
  <2>3. CASE \A b \in Buckets : Same(b)
    <3>1. \A d \in CRs : Managing'[d] = Managing[d]
      BY <1>0, <1>3, <2>3, SameServer, SameManaged DEF Fits
    <3>2. Managing' = Managing
      BY <1>0, <3>1 DEF Abs!TypeOK
    <3> QED
      BY <2>1, <3>2 DEF Abs!vars
  <2> QED
    BY <1>0, <1>3, <2>2, <2>3, BucketCases DEF AllInv
<1> QED
  BY <1>0, <1>1, <1>2, <1>3, CopyOrServer

\* At first nobody asks for anything.
LEMMA ManagedInit == Init => Abs!Init
<1> SUFFICES ASSUME Init
             PROVE  Abs!Init
  OBVIOUS
<1>1. ASSUME NEW c \in CRs
      PROVE  Managing[c] \in [request : {"none"}, keep : BOOLEAN, remote : {FALSE},
                              fits : {FALSE}, ready : {FALSE}]
  <2>1. cr[c].phase = "absent" /\ \A b \in Buckets : buckets[b].by # c
    BY NoneIsNoResource DEF Init, ControllerInit, RuntimeInit, Blank, NoBucket
  <2>2. Request(c) = "none" /\ ~Ready(c) /\ ~Fits(c) /\ ~Remote(c)
    BY <2>1, RequestIs DEF Ready, Fits, Remote, Exists
  <2>3. Ready(c) = FALSE /\ Fits(c) = FALSE /\ Remote(c) = FALSE /\ Kept(c) \in BOOLEAN
    BY <2>2 DEF Kept, Ready, Fits, Remote
  <2> QED
    BY <2>2, <2>3 DEF Managing, AsManaged, Fits
<1> QED
  BY <1>1 DEF Abs!Init, Managing, Init, ControllerInit

(***************************************************************************)
(* As long as one operator runs, users leave the name and the deletion     *)
(* policy of their resources alone and no two resources claim one bucket,  *)
(* the controller implements ManagedResources: whatever its snapshots, and *)
(* after whatever failures, it makes, changes, releases and removes        *)
(* buckets only as their resources ask.                                    *)
(***************************************************************************)
THEOREM ManagedCorrect ==
  SoleOperator /\ SafetySpec /\ []Distinct /\ [][Steady]_vars => Managed
<1> SUFFICES ASSUME SoleOperator
             PROVE  SafetySpec /\ []Distinct /\ [][Steady]_vars => Managed
  OBVIOUS
<1>1. Distinct => Apart
  BY DEF Distinct, Claimed, Apart
<1>2. Init => Resources!Init
  BY ManagedInit, SameAbstract
<1>3. AllInv /\ AllInv' /\ [Next]_vars => [Resources!Next]_(Resources!vars)
  BY ManagedStep, SameAbstract
<1>4. TypeOK /\ SnapshotInv /\ LateInv /\ IdentityInv(Steps) /\ MadeInv /\ OwnedInv
        /\ ReadyMeansDeclared /\ Distinct => AllInv
  BY DEF AllInv
<1> QED
  BY <1>1, <1>2, <1>3, <1>4, TypeCorrect, SnapshotsCorrect, OwnedCorrect, ReadyCorrect, PTL
  DEF SafetySpec, Managed, Resources!Spec
=============================================================================
