--------------------------- MODULE AccessKeyProofs ---------------------------
(***************************************************************************)
(* Theorems about AccessKeyController, for every number of resources, ids, *)
(* users and faults and every order of events.                             *)
(***************************************************************************)
EXTENDS AccessKeyController, TLAPS

ApiObjects == Objects(Specs, AccessKeyStatus)

\* The record of a resource nobody created is an object.
LEMMA BlankType == Blank \in ApiObjects
<1>1. (CHOOSE s \in Specs : TRUE) \in Specs
  BY SpecsAssumption
<1> QED
  BY <1>1 DEF Blank, ApiObjects, Objects, Phases, AccessKeyStatus

(***************************************************************************)
(* The two ways a step of a reconciliation ends keep the runtime's types.  *)
(***************************************************************************)
LEMMA GotoType ==
  ASSUME RuntimeTypeOK(ApiObjects, Steps), NEW o \in Operators, NEW c \in CRs,
         NEW l \in Steps, Goto(o, c, l), faults' \in Nat
  PROVE  RuntimeTypeOK(ApiObjects, Steps)'
BY DEF RuntimeTypeOK, Goto

\* A reconciliation that ends leaves the runtime typed.
LEMMA FinishType ==
  ASSUME RuntimeTypeOK(ApiObjects, Steps), NEW o \in Operators, NEW c \in CRs,
         NEW next \in Wakes, Finish(o, c, next), faults' \in Nat,
         cr' \in [CRs -> ApiObjects]
  PROVE  RuntimeTypeOK(ApiObjects, Steps)'
<1>1. "idle" \in Steps
  BY DEF Steps
<1> QED
  BY <1>1, BlankType DEF RuntimeTypeOK, Finish

\* The number of faults stays a number.
LEMMA FaultType ==
  ASSUME faults \in Nat, NEW k, Fault(k)
  PROVE  faults' \in Nat
BY DEF Fault

\* error_policy answers every error with a delay.
LEMMA ErrorPolicyType == \A e : ErrorPolicy(e) \in Wakes
BY DEF ErrorPolicy, IsConfigError, Wakes

-----------------------------------------------------------------------------
\* The known id is an id or none.
LEMMA KnownType == \A x \in ApiObjects : Known(x) \in KeyIds \union {None}
BY SpecsAssumption DEF ApiObjects, Objects, SpecRecords, AccessKeyStatus, Known

\* The initial states are typed.
LEMMA InitType == Init => TypeOK
<1> SUFFICES ASSUME Init PROVE TypeOK
  OBVIOUS
<1>1. RuntimeTypeOK(ApiObjects, Steps)
  BY BlankType DEF Init, RuntimeInit, RuntimeTypeOK, Steps, Wakes
<1> QED
  BY <1>1 DEF Init, RuntimeInit, TypeOK, ApiObjects, NoKey, NoSecret, NoLocal,
       KeyRecords, SecretRecords, LocalRecords, LocalsSet

(***************************************************************************)
(* How the typing of the whole state follows from that of the variables a  *)
(* step of a reconciliation changes: it goes on with new locals, goes on   *)
(* with the ones it has, or ends.                                          *)
(***************************************************************************)
ExternalsTyped ==
  keys \in [KeyIds -> KeyRecords] /\ secret \in [CRs -> SecretRecords]

\* A step that goes on with new locals keeps the types.
LEMMA ContinueType ==
  ASSUME TypeOK, NEW o \in Operators, NEW c \in CRs, NEW l \in Steps,
         NEW r \in LocalRecords, Goto(o, c, l), Remember(o, c, r),
         faults' \in Nat, ExternalsTyped',
         l = "write" => r.ak # None /\ r.sk # None,
         l = "status" => r.result # None
  PROVE  TypeOK'
<1>1. RuntimeTypeOK(ApiObjects, Steps)'
  BY GotoType DEF TypeOK, ApiObjects
<1>2. local' \in [Operators -> [CRs -> LocalRecords]]
  BY DEF TypeOK, Remember
<1>3. LocalsSet'
  BY DEF TypeOK, RuntimeTypeOK, Goto, LocalsSet, Remember
<1> QED
  BY <1>1, <1>2, <1>3 DEF TypeOK, ExternalsTyped, ApiObjects

\* A step that goes on with the locals it has keeps the types.
LEMMA ProceedType ==
  ASSUME TypeOK, NEW o \in Operators, NEW c \in CRs,
         NEW l \in Steps \ {"write", "status"}, Goto(o, c, l),
         faults' \in Nat, ExternalsTyped', UNCHANGED local
  PROVE  TypeOK'
<1>1. RuntimeTypeOK(ApiObjects, Steps)'
  BY GotoType DEF TypeOK, ApiObjects
<1>2. LocalsSet'
  BY DEF TypeOK, RuntimeTypeOK, Goto, LocalsSet
<1> QED
  BY <1>1, <1>2 DEF TypeOK, ExternalsTyped, ApiObjects

\* A step that ends the reconciliation keeps the types.
LEMMA EndType ==
  ASSUME TypeOK, NEW o \in Operators, NEW c \in CRs, NEW next \in Wakes,
         Finish(o, c, next), faults' \in Nat, cr' \in [CRs -> ApiObjects],
         ExternalsTyped', UNCHANGED local \/ Remember(o, c, NoLocal)
  PROVE  TypeOK'
<1>1. RuntimeTypeOK(ApiObjects, Steps)'
  BY FinishType DEF TypeOK, ApiObjects
<1>2. local' \in [Operators -> [CRs -> LocalRecords]]
  <2>1. NoLocal \in LocalRecords
    BY DEF NoLocal, LocalRecords
  <2>2. CASE UNCHANGED local
    BY <2>2 DEF TypeOK
  <2>3. CASE Remember(o, c, NoLocal)
    BY <2>1, <2>3 DEF TypeOK, Remember
  <2> QED
    BY <2>2, <2>3
<1>3. LocalsSet'
  BY DEF TypeOK, RuntimeTypeOK, Finish, LocalsSet, Remember
<1> QED
  BY <1>1, <1>2, <1>3 DEF TypeOK, ExternalsTyped, ApiObjects

\* A call that fails keeps the types: its error is the result.
LEMMA FailType ==
  ASSUME TypeOK, NEW o \in Operators, NEW c \in CRs, NEW e \in {"config", "retry"},
         Fail(o, c, e), faults' \in Nat, ExternalsTyped'
  PROVE  TypeOK'
<1> DEFINE r == [NoLocal EXCEPT !.result = e]
<1>1. r \in LocalRecords /\ r.result # None
  BY NoneAssumption DEF NoLocal, LocalRecords, Messages
<1>2. Goto(o, c, "status") /\ Remember(o, c, r)
  BY DEF Fail
<1>3. "status" \in Steps
  BY DEF Steps, ApplySteps
<1> HIDE DEF r
<1> QED
  BY <1>1, <1>2, <1>3, ContinueType

(***************************************************************************)
(* What a step that draws or forgets nothing leaves typed.                 *)
(***************************************************************************)
LEMMA UnchangedTyped == TypeOK /\ UNCHANGED externals => ExternalsTyped'
BY DEF TypeOK, externals, ExternalsTyped

\* Revoking a key, or nothing, leaves the server typed.
LEMMA DeleteTyped ==
  ASSUME TypeOK, NEW k, DeleteAccessKey(k) \/ UNCHANGED keys, UNCHANGED secret
  PROVE  ExternalsTyped'
BY DEF TypeOK, ExternalsTyped, DeleteAccessKey, NoKey, KeyRecords

-----------------------------------------------------------------------------
(***************************************************************************)
(* One lemma for each call of a reconciliation.                            *)
(***************************************************************************)
LEMMA ResolveConnectionType ==
  ASSUME TypeOK, NEW o \in Operators, NEW c \in CRs, ResolveConnection(o, c)
  PROVE  TypeOK'
<1>1. faults' \in Nat
  BY FaultType DEF TypeOK, RuntimeTypeOK, ResolveConnection, NoFault
<1>2. ExternalsTyped'
  BY UnchangedTyped DEF ResolveConnection
<1>3. CASE Goto(o, c, "readSecret") /\ UNCHANGED local
  BY <1>1, <1>2, <1>3, ProceedType DEF Steps, ApplySteps
<1>4. CASE Fail(o, c, "config") \/ Fail(o, c, "retry")
  BY <1>1, <1>2, <1>4, FailType
<1> QED
  BY <1>3, <1>4 DEF ResolveConnection

\* Reading the Secret keeps the types.
LEMMA ReadSecretType ==
  ASSUME TypeOK, NEW o \in Operators, NEW c \in CRs, ReadSecret(o, c)
  PROVE  TypeOK'
<1>1. faults' \in Nat
  BY FaultType DEF TypeOK, RuntimeTypeOK, ReadSecret, NoFault
<1>2. ExternalsTyped'
  BY UnchangedTyped DEF ReadSecret
<1>3. CASE Fail(o, c, "config")
  BY <1>1, <1>2, <1>3, FailType
<1>4. ASSUME NEW intact \in BOOLEAN, NEW l \in {"create", "get"}, Goto(o, c, l),
             Remember(o, c, [NoLocal EXCEPT !.intact = intact])
      PROVE  TypeOK'
  <2> DEFINE r == [NoLocal EXCEPT !.intact = intact]
  <2>1. r \in LocalRecords
    BY DEF NoLocal, LocalRecords
  <2>2. Remember(o, c, r)
    BY <1>4
  <2> HIDE DEF r
  <2> QED
    BY <1>1, <1>2, <1>4, <2>1, <2>2, ContinueType DEF Steps, ApplySteps
<1> QED
  BY <1>3, <1>4 DEF ReadSecret

\* Asking for the key keeps the types; Kept reports the known id.
LEMMA GetAccessKeyType ==
  ASSUME TypeOK, NEW o \in Operators, NEW c \in CRs, GetAccessKey(o, c)
  PROVE  TypeOK'
<1>1. faults' \in Nat
  BY FaultType DEF TypeOK, RuntimeTypeOK, GetAccessKey, NoFault
<1>2. ExternalsTyped'
  BY UnchangedTyped DEF GetAccessKey
<1>3. CASE Fail(o, c, "retry")
  BY <1>1, <1>2, <1>3, FailType
<1>4. ASSUME Goto(o, c, "status"),
             Remember(o, c, [NoLocal EXCEPT !.ak = Known(obj[o][c]),
                                            !.result = "reconciled"])
      PROVE  TypeOK'
  <2> DEFINE r == [NoLocal EXCEPT !.ak = Known(obj[o][c]), !.result = "reconciled"]
  <2>1. Known(obj[o][c]) \in KeyIds \union {None}
    BY KnownType DEF TypeOK, RuntimeTypeOK, ApiObjects
  <2>2. r \in LocalRecords /\ r.result # None
    BY <2>1, NoneAssumption DEF NoLocal, LocalRecords, Messages
  <2>3. Remember(o, c, r)
    BY <1>4
  <2> HIDE DEF r
  <2> QED
    BY <1>1, <1>2, <1>4, <2>2, <2>3, ContinueType DEF Steps, ApplySteps
<1>5. ASSUME NEW l \in {"revoke", "create"}, Goto(o, c, l), UNCHANGED local
      PROVE  TypeOK'
  BY <1>1, <1>2, <1>5, ProceedType DEF Steps, ApplySteps
<1> QED
  BY <1>3, <1>4, <1>5 DEF GetAccessKey

\* Revoking keeps the types.
LEMMA RevokeKeyType ==
  ASSUME TypeOK, NEW o \in Operators, NEW c \in CRs, RevokeKey(o, c)
  PROVE  TypeOK'
<1>1. faults' \in Nat
  BY FaultType DEF TypeOK, RuntimeTypeOK, RevokeKey, NoFault
<1>2. ExternalsTyped'
  BY DeleteTyped DEF RevokeKey
<1>3. CASE Fail(o, c, "retry")
  BY <1>1, <1>2, <1>3, FailType
<1>4. CASE Goto(o, c, "create") /\ UNCHANGED local
  BY <1>1, <1>2, <1>4, ProceedType DEF Steps, ApplySteps
<1> QED
  BY <1>3, <1>4 DEF RevokeKey

\* Issuing keeps the types and leaves both halves of the pair.
LEMMA CreateKeyType ==
  ASSUME TypeOK, NEW o \in Operators, NEW c \in CRs, CreateKey(o, c)
  PROVE  TypeOK'
<1>1. faults' \in Nat
  BY FaultType DEF TypeOK, RuntimeTypeOK, CreateKey, NoFault
<1>2. PICK k \in CreateIds(o, c), sk \in SecretKeys \ SecretKeysInUse :
        /\ \/ keys' = [keys EXCEPT ![k] =
                         [parent |-> obj[o][c].spec.user, sk |-> sk, by |-> c]]
           \/ UNCHANGED keys
        /\ \/ /\ Goto(o, c, "write")
              /\ Remember(o, c, [NoLocal EXCEPT !.ak = k, !.sk = sk])
           \/ Fail(o, c, "retry")
  BY DEF CreateKey
<1>3. Known(obj[o][c]) \in KeyIds \union {None} /\ obj[o][c].spec.user \in Users
  BY KnownType, SpecsAssumption
  DEF TypeOK, RuntimeTypeOK, ApiObjects, Objects, SpecRecords
<1>4. k \in KeyIds
  BY <1>3, IdsAssumption DEF CreateIds
<1>5. ExternalsTyped'
  BY <1>2, <1>3 DEF TypeOK, ExternalsTyped, KeyRecords, CreateKey
<1>6. CASE Fail(o, c, "retry")
  BY <1>1, <1>5, <1>6, FailType
<1>7. CASE /\ Goto(o, c, "write")
           /\ Remember(o, c, [NoLocal EXCEPT !.ak = k, !.sk = sk])
  <2> DEFINE r == [NoLocal EXCEPT !.ak = k, !.sk = sk]
  <2>1. r \in LocalRecords /\ r.ak # None /\ r.sk # None
    BY <1>4, NoneAssumption DEF NoLocal, LocalRecords
  <2>2. Remember(o, c, r)
    BY <1>7
  <2> HIDE DEF r
  <2> QED
    BY <1>1, <1>5, <1>7, <2>1, <2>2, ContinueType DEF Steps, ApplySteps
<1> QED
  BY <1>2, <1>6, <1>7

\* The Secret is written with both halves of the pair.
LEMMA WriteSecretType ==
  ASSUME TypeOK, NEW o \in Operators, NEW c \in CRs, WriteSecret(o, c)
  PROVE  TypeOK'
<1>1. faults' \in Nat
  BY FaultType DEF TypeOK, RuntimeTypeOK, WriteSecret, NoFault
<1>2. local[o][c] \in LocalRecords /\ obj[o][c] \in ApiObjects
  BY DEF TypeOK, RuntimeTypeOK, ApiObjects
<1>3. Credentials(o, c) \in SecretRecords
  BY <1>2 DEF Credentials, SecretRecords, LocalRecords, ApiObjects, Objects
<1>4. ExternalsTyped'
  BY <1>3 DEF TypeOK, ExternalsTyped, WriteSecret
<1>5. CASE Fail(o, c, "retry")
  BY <1>1, <1>4, <1>5, FailType
<1>6. ASSUME Goto(o, c, "status"),
             Remember(o, c, [NoLocal EXCEPT !.ak = local[o][c].ak,
                                            !.result = "reconciled"])
      PROVE  TypeOK'
  <2> DEFINE r == [NoLocal EXCEPT !.ak = local[o][c].ak, !.result = "reconciled"]
  <2>1. r \in LocalRecords /\ r.result # None
    BY <1>2, NoneAssumption DEF NoLocal, LocalRecords, Messages
  <2>2. Remember(o, c, r)
    BY <1>6
  <2> HIDE DEF r
  <2> QED
    BY <1>1, <1>4, <1>6, <2>1, <2>2, ContinueType DEF Steps, ApplySteps
<1> QED
  BY <1>5, <1>6 DEF WriteSecret

\* What is reported is a status, of the generation of the snapshot.
LEMMA ReportType ==
  ASSUME TypeOK, NEW o \in Operators, NEW c \in CRs
  PROVE  /\ [message |-> local[o][c].result, observed |-> ObservedGeneration(o, c),
             accessKey |-> ReportedKey(o, c)] \in AccessKeyStatus
         /\ ObservedGeneration(o, c) = obj[o][c].gen
<1>1. /\ local[o][c] \in LocalRecords
      /\ obj[o][c] \in ApiObjects
      /\ cr[c] \in ApiObjects
  BY DEF TypeOK, RuntimeTypeOK, ApiObjects
<1>2. ReportedKey(o, c) \in KeyIds \union {None}
  BY <1>1 DEF ReportedKey, LocalRecords, ApiObjects, Objects, AccessKeyStatus
<1> QED
  BY <1>1, <1>2
  DEF AccessKeyStatus, ObservedGeneration, LocalRecords, ApiObjects, Objects

\* The status is written with a result.
LEMMA UpdateStatusType ==
  ASSUME TypeOK, NEW o \in Operators, NEW c \in CRs, UpdateStatus(o, c)
  PROVE  TypeOK'
<1> DEFINE st == [message |-> local[o][c].result,
                  observed |-> ObservedGeneration(o, c),
                  accessKey |-> ReportedKey(o, c)]
<1>1. faults' \in Nat
  BY FaultType DEF TypeOK, RuntimeTypeOK, UpdateStatus, PatchStatus, NoFault
<1>2. ExternalsTyped'
  BY UnchangedTyped DEF UpdateStatus
<1>3. cr[c] \in ApiObjects
  BY DEF TypeOK, RuntimeTypeOK, ApiObjects
<1>5. st \in AccessKeyStatus
  BY ReportType
<1>6. PatchStatus(o, c, st, Requeue(local[o][c].result))
  BY DEF UpdateStatus
<1> HIDE DEF st
<1>7. cr' \in [CRs -> ApiObjects]
  <2>1. [cr[c] EXCEPT !.status = st] \in ApiObjects
    BY <1>3, <1>5 DEF ApiObjects, Objects
  <2>2. \/ cr' = [cr EXCEPT ![c] = [cr[c] EXCEPT !.status = st]]
        \/ cr' = cr
    BY <1>6 DEF PatchStatus
  <2>3. cr \in [CRs -> ApiObjects]
    BY DEF TypeOK, RuntimeTypeOK, ApiObjects
  <2> QED
    BY <2>1, <2>2, <2>3
<1>8. Requeue(local[o][c].result) \in Wakes
  BY ErrorPolicyType DEF Requeue, Wakes
<1> QED
  BY <1>1, <1>2, <1>6, <1>7, <1>8, EndType DEF UpdateStatus, PatchStatus

\* cleanup() keeps the types.
LEMMA CleanupType ==
  ASSUME TypeOK, NEW o \in Operators, NEW c \in CRs,
         Cleanup(o, c) \/ CleanupRevoke(o, c)
  PROVE  TypeOK'
<1>1. faults' \in Nat
  BY FaultType DEF TypeOK, RuntimeTypeOK, Cleanup, CleanupRevoke, NoFault
<1>2. ExternalsTyped'
  BY UnchangedTyped, DeleteTyped DEF Cleanup, CleanupRevoke, externals
<1>3. UNCHANGED local
  BY DEF Cleanup, CleanupRevoke
<1>4. ASSUME NEW l \in CleanupSteps, Goto(o, c, l)
      PROVE  TypeOK'
  BY <1>1, <1>2, <1>3, <1>4, ProceedType DEF Steps, CleanupSteps, ApplySteps
<1>5. ASSUME NEW e, CleanupFails(o, c, e)
      PROVE  TypeOK'
  <2>1. cr' \in [CRs -> ApiObjects]
    BY <1>5 DEF CleanupFails, TypeOK, RuntimeTypeOK, ApiObjects
  <2> QED
    BY <1>1, <1>2, <1>3, <1>5, <2>1, ErrorPolicyType, EndType DEF CleanupFails
<1> QED
  BY <1>4, <1>5 DEF Cleanup, CleanupRevoke, CleanupSteps

(***************************************************************************)
(* The calls of finalizer() around the reconcile function.                 *)
(***************************************************************************)
LEMMA RuntimeType ==
  ASSUME TypeOK, NEW o \in Operators, NEW c \in CRs, Runtime(o, c)
  PROVE  TypeOK'
<1>1. faults' \in Nat
  BY FaultType
  DEF TypeOK, RuntimeTypeOK, Runtime, Start, AddFinalizer, RemoveFinalizer, NoFault
<1>2. ExternalsTyped' /\ UNCHANGED local
  BY DEF TypeOK, Runtime, ExternalsTyped
<1>3. CASE Start(o, c)
  <2>1. FinalizerEvent(cache[o][c]) \in Steps \ {"write", "status"}
    BY DEF FinalizerEvent, Steps, ApplySteps, CleanupSteps
  <2>2. "none" \in Wakes
    BY DEF Wakes
  <2>3. RuntimeTypeOK(ApiObjects, Steps)'
    BY <1>1, <1>3, <2>1, <2>2 DEF TypeOK, RuntimeTypeOK, Start, ApiObjects
  <2>4. LocalsSet'
    BY <1>2, <1>3, <2>1 DEF TypeOK, RuntimeTypeOK, Start, LocalsSet
  <2> QED
    BY <1>2, <2>3, <2>4 DEF TypeOK, ExternalsTyped, ApiObjects
<1>4. ASSUME NEW x \in ApiObjects, NEW e \in {"none", "err"}, Finish(o, c, e),
             cr' = cr \/ cr' = [cr EXCEPT ![c] = x]
      PROVE  TypeOK'
  <2>1. cr' \in [CRs -> ApiObjects]
    BY <1>4 DEF TypeOK, RuntimeTypeOK, ApiObjects
  <2> QED
    BY <1>1, <1>2, <1>4, <2>1, EndType DEF Wakes
<1>5. cr[c] \in ApiObjects
  BY DEF TypeOK, RuntimeTypeOK, ApiObjects
<1>6. CASE AddFinalizer(o, c)
  <2>1. [cr[c] EXCEPT !.finalizer = TRUE] \in ApiObjects
    BY <1>5 DEF ApiObjects, Objects
  <2>2. /\ cr' = cr \/ cr' = [cr EXCEPT ![c] = [cr[c] EXCEPT !.finalizer = TRUE]]
        /\ Finish(o, c, "none") \/ Finish(o, c, "err")
    BY <1>6 DEF AddFinalizer, ErrorPolicy, IsConfigError
  <2> QED
    BY <1>4, <2>1, <2>2
<1>7. CASE RemoveFinalizer(o, c)
  <2> DEFINE x == [cr[c] EXCEPT !.finalizer = FALSE,
                                !.phase = IF @ = "deleting" THEN "absent" ELSE @]
  <2>1. x \in ApiObjects
    BY <1>5 DEF ApiObjects, Objects, Phases
  <2>2. /\ cr' = cr \/ cr' = [cr EXCEPT ![c] = x]
        /\ Finish(o, c, "none") \/ Finish(o, c, "err")
    BY <1>5, <1>7 DEF RemoveFinalizer, ErrorPolicy, IsConfigError, ApiObjects, Objects,
                      TypeOK, RuntimeTypeOK
  <2> HIDE DEF x
  <2> QED
    BY <1>4, <2>1, <2>2
<1> QED
  BY <1>3, <1>6, <1>7 DEF Runtime

(***************************************************************************)
(* Users, watches, crashes and drift.                                      *)
(***************************************************************************)
LEMMA WatchType ==
  ASSUME TypeOK, NEW o \in Operators, NEW c \in CRs, Watch(o, c)
  PROVE  TypeOK'
<1>1. RuntimeTypeOK(ApiObjects, Steps)'
  BY DEF TypeOK, RuntimeTypeOK, Watch, Deliver, NoFault, Wakes, ApiObjects
<1>2. LocalsSet'
  BY DEF TypeOK, LocalsSet, Watch, Deliver
<1> QED
  BY <1>1, <1>2 DEF TypeOK, Watch, ApiObjects

\* A restart keeps the types.
LEMMA CrashType ==
  ASSUME TypeOK, NEW o \in Operators, Crash(o)
  PROVE  TypeOK'
<1>1. faults' \in Nat
  BY FaultType DEF TypeOK, RuntimeTypeOK, Crash, Restart
<1>2. "idle" \in Steps \ {"write", "status"} /\ {"now", "none"} \subseteq Wakes
  BY DEF Steps, Wakes, ApplySteps, CleanupSteps
<1>3. NoLocal \in LocalRecords
  BY DEF NoLocal, LocalRecords
<1>4. RuntimeTypeOK(ApiObjects, Steps)'
  BY <1>1, <1>2, BlankType DEF TypeOK, RuntimeTypeOK, Crash, Restart, ApiObjects
<1>5. local' \in [Operators -> [CRs -> LocalRecords]]
  BY <1>3 DEF TypeOK, Crash
<1>6. LocalsSet'
  BY <1>2 DEF TypeOK, RuntimeTypeOK, LocalsSet, Crash, Restart
<1> QED
  BY <1>4, <1>5, <1>6 DEF TypeOK, Crash, externals, ApiObjects

\* What users do keeps the types.
LEMMA UserStepType ==
  ASSUME TypeOK, NEW c \in CRs, UserStep(c)
  PROVE  TypeOK'
<1>1. faults' \in Nat
  BY DEF TypeOK, RuntimeTypeOK, UserStep, CreateCR, EditCR, DeleteCR, NoFault
<1>2. UNCHANGED <<cache, obj, pc, wake, keys, secret, local>>
  BY DEF UserStep, CreateCR, EditCR, DeleteCR
<1>3. cr[c] \in ApiObjects /\ Blank \in ApiObjects
  BY BlankType DEF TypeOK, RuntimeTypeOK, ApiObjects
<1>4. PICK g \in Nat, u \in Nat : g = cr[c].gen + 1 /\ u = cr[c].uid + 1
  BY <1>3 DEF ApiObjects, Objects
<1>5. \E x \in ApiObjects : cr' = [cr EXCEPT ![c] = x]
  <2>1. ASSUME NEW s \in Specs, CreateCR(c, s)
        PROVE  \E x \in ApiObjects : cr' = [cr EXCEPT ![c] = x]
    <3>1. [Blank EXCEPT !.phase = "live", !.gen = 1, !.uid = u, !.spec = s] \in ApiObjects
      BY <1>3 DEF ApiObjects, Objects, Phases
    <3> QED
      BY <1>4, <2>1, <3>1 DEF CreateCR
  <2>2. ASSUME NEW s \in Specs, EditCR(c, s)
        PROVE  \E x \in ApiObjects : cr' = [cr EXCEPT ![c] = x]
    <3>1. [cr[c] EXCEPT !.spec = s, !.gen = g] \in ApiObjects
      BY <1>3 DEF ApiObjects, Objects
    <3>2. cr' = [cr EXCEPT ![c] = [cr[c] EXCEPT !.spec = s, !.gen = g]]
      BY <1>3, <1>4, <2>2 DEF EditCR, TypeOK, RuntimeTypeOK, ApiObjects, Objects
    <3> QED
      BY <3>1, <3>2
  <2>3. CASE DeleteCR(c)
    <3>1. /\ [cr[c] EXCEPT !.phase = "deleting", !.gen = g] \in ApiObjects
          /\ [cr[c] EXCEPT !.phase = "absent"] \in ApiObjects
      BY <1>3 DEF ApiObjects, Objects, Phases
    <3>2. \/ cr' = [cr EXCEPT ![c] = [cr[c] EXCEPT !.phase = "deleting", !.gen = g]]
          \/ cr' = [cr EXCEPT ![c] = [cr[c] EXCEPT !.phase = "absent"]]
      BY <1>3, <1>4, <2>3 DEF DeleteCR, TypeOK, RuntimeTypeOK, ApiObjects, Objects
    <3> QED
      BY <3>1, <3>2
  <2> QED
    BY <2>1, <2>2, <2>3 DEF UserStep
<1> QED
  BY <1>1, <1>2, <1>5 DEF TypeOK, RuntimeTypeOK, ApiObjects, LocalsSet

\* What other tools do to keys and Secrets keeps the types.
LEMMA DriftType ==
  ASSUME TypeOK, UNCHANGED <<cr, cache, obj, pc, wake, local>>, faults' \in Nat,
         ExternalsTyped'
  PROVE  TypeOK'
BY DEF TypeOK, RuntimeTypeOK, ExternalsTyped, LocalsSet

\* Losing or collecting a Secret keeps the types.
LEMMA SecretDriftType ==
  ASSUME TypeOK, NEW c \in CRs, LoseSecret(c) \/ CollectSecret(c)
  PROVE  TypeOK'
<1>1. faults' \in Nat
  BY FaultType DEF TypeOK, RuntimeTypeOK, LoseSecret, CollectSecret
<1>2. secret[c] \in SecretRecords /\ NoSecret \in SecretRecords
  BY DEF TypeOK, NoSecret, SecretRecords
<1>3. [secret[c] EXCEPT !.sk = None] \in SecretRecords
  BY <1>2 DEF SecretRecords
<1>4. \/ secret' = [secret EXCEPT ![c] = NoSecret]
      \/ secret' = [secret EXCEPT ![c] = [secret[c] EXCEPT !.sk = None]]
  BY DEF LoseSecret, CollectSecret
<1>5. keys' = keys
  BY DEF LoseSecret, CollectSecret
<1>6. ExternalsTyped'
  BY <1>2, <1>3, <1>4, <1>5 DEF TypeOK, ExternalsTyped
<1> QED
  BY <1>1, <1>6, DriftType DEF LoseSecret, CollectSecret

\* Losing a key keeps the types.
LEMMA LoseKeyType ==
  ASSUME TypeOK, NEW k \in KeyIds, LoseKey(k)
  PROVE  TypeOK'
<1>1. faults' \in Nat
  BY FaultType DEF TypeOK, RuntimeTypeOK, LoseKey
<1>2. ExternalsTyped'
  BY DeleteTyped DEF LoseKey
<1> QED
  BY <1>1, <1>2, DriftType DEF LoseKey

\* Every step keeps the types.
LEMMA TypeStep == TypeOK /\ [Next]_vars => TypeOK'
<1> SUFFICES ASSUME TypeOK, [Next]_vars
             PROVE  TypeOK'
  OBVIOUS
<1>1. ASSUME NEW o \in Operators, NEW c \in CRs, Apply(o, c)
      PROVE  TypeOK'
  BY <1>1, ResolveConnectionType, ReadSecretType, GetAccessKeyType, RevokeKeyType,
     CreateKeyType, WriteSecretType, UpdateStatusType DEF Apply
<1>2. ASSUME NEW o \in Operators, NEW c \in CRs, Reconcile(o, c)
      PROVE  TypeOK'
  BY <1>1, <1>2, RuntimeType, CleanupType DEF Reconcile
<1>3. CASE UNCHANGED vars
  BY <1>3 DEF vars, TypeOK, RuntimeTypeOK, LocalsSet
<1> QED
  BY <1>2, <1>3, WatchType, CrashType, UserStepType, SecretDriftType, LoseKeyType
  DEF Next

(***************************************************************************)
(* Every variable keeps its type: in particular a result is an Ok or an    *)
(* error when the status is written, and a Secret is written only with     *)
(* both halves of a pair.                                                  *)
(***************************************************************************)
THEOREM TypeCorrect == SafetySpec => []TypeOK
BY InitType, TypeStep, PTL DEF SafetySpec

-----------------------------------------------------------------------------
(***************************************************************************)
(* The lemmas of RuntimeProofs, for the runtime of this controller: Run    *)
(* defines again what AccessKeyController has of OperatorRuntime.          *)
(***************************************************************************)
Run == INSTANCE RuntimeProofs

\* The two are the same.
LEMMA SameState ==
  /\ \A S, T : Run!Objects(S, T) = Objects(S, T)
  /\ \A S, T : Run!RuntimeTypeOK(S, T) <=> RuntimeTypeOK(S, T)
  /\ \A S, T : Run!SnapshotsOK(S, T) <=> SnapshotsOK(S, T)
  /\ Run!NeverForgotten <=> NeverForgotten
  /\ Run!SoleOperator <=> SoleOperator
  /\ Run!RuntimeInit <=> RuntimeInit
BY DEF Run!Objects, Objects, Run!Phases, Phases, Run!RuntimeTypeOK, RuntimeTypeOK, Run!Wakes, Wakes,
  Run!SnapshotsOK, SnapshotsOK, Run!ServerOK, ServerOK, Run!CacheOK, CacheOK, Run!RunOK, RunOK,
  Run!Earlier, Earlier, Run!Held, Held, Run!SoleOperator, SoleOperator, Run!RuntimeInit, RuntimeInit,
  Run!NeverForgotten, NeverForgotten, Run!Exists, Exists

\* So they are after a step.
LEMMA SameAfter ==
  /\ \A S, T : Run!SnapshotsOK(S, T)' <=> SnapshotsOK(S, T)'
  /\ Run!NeverForgotten' <=> NeverForgotten'
BY DEF Run!SnapshotsOK, SnapshotsOK, Run!ServerOK, ServerOK, Run!CacheOK, CacheOK,
  Run!RunOK, RunOK, Run!Earlier, Earlier, Run!Held, Held,
  Run!NeverForgotten, NeverForgotten, Run!Exists, Exists

\* So are their steps.
LEMMA SameSteps ==
  ASSUME NEW o, NEW c
  PROVE  /\ Run!Deliver(o, c) <=> Deliver(o, c)
         /\ Run!Start(o, c) <=> Start(o, c)
         /\ \A l : Run!Goto(o, c, l) <=> Goto(o, c, l)
         /\ \A e : Run!Finish(o, c, e) <=> Finish(o, c, e)
         /\ \A st, e : Run!PatchStatus(o, c, st, e) <=> PatchStatus(o, c, st, e)
         /\ Run!AddFinalizer(o, c) <=> AddFinalizer(o, c)
         /\ Run!RemoveFinalizer(o, c) <=> RemoveFinalizer(o, c)
         /\ Run!Restart(o) <=> Restart(o)
         /\ \A s : Run!CreateCR(c, s) <=> CreateCR(c, s)
         /\ \A s : Run!EditCR(c, s) <=> EditCR(c, s)
         /\ Run!DeleteCR(c) <=> DeleteCR(c)
BY DEF Run!Deliver, Deliver, Run!Start, Start, Run!Goto, Goto, Run!Finish, Finish,
  Run!PatchStatus, PatchStatus, Run!AddFinalizer, AddFinalizer, Run!RemoveFinalizer, RemoveFinalizer,
  Run!Restart, Restart, Run!CreateCR, CreateCR, Run!EditCR, EditCR, Run!DeleteCR, DeleteCR,
  Run!Exists, Exists, Run!NoFault, NoFault, Run!Fault, Fault, Run!ErrorPolicy, ErrorPolicy,
  Run!IsConfigError, IsConfigError, Run!FinalizerEvent, FinalizerEvent

\* The controller is one that RuntimeProofs is about.
LEMMA FitsRuntime == Run!Fits(Specs, AccessKeyStatus, ApplySteps, CleanupSteps)
<1>1. Blank \in Run!Objects(Specs, AccessKeyStatus)
  BY BlankType, SameState DEF ApiObjects
<1>2. /\ Blank.phase = "absent" /\ Blank.finalizer = FALSE
      /\ Blank.uid = 0 /\ Blank.gen = 0 /\ Blank.status.observed = 0
  BY DEF Blank
<1>3. \A st \in AccessKeyStatus : st.observed \in Nat
  BY DEF AccessKeyStatus
<1> QED
  BY <1>1, <1>2, <1>3 DEF Run!Fits, ApplySteps, CleanupSteps

-----------------------------------------------------------------------------
(***************************************************************************)
(* With one operator every step keeps both: what a reconciliation may      *)
(* trust, and that there will be one.                                      *)
(***************************************************************************)
RuntimeInv == SnapshotInv /\ NeverForgotten

\* What the lemmas of RuntimeProofs ask of a state, and what they give.
LEMMA RuntimeState ==
  ASSUME TypeOK, RuntimeInv
  PROVE  /\ Run!Fits(Specs, AccessKeyStatus, ApplySteps, CleanupSteps)
         /\ Run!RuntimeTypeOK(Run!Objects(Specs, AccessKeyStatus), Steps)
         /\ Run!SnapshotsOK(ApplySteps, CleanupSteps)
         /\ Run!NeverForgotten
         /\ SoleOperator => Run!SoleOperator
         /\ Run!SnapshotsOK(ApplySteps, CleanupSteps)' /\ Run!NeverForgotten' => RuntimeInv'
<1>1. Run!SnapshotsOK(ApplySteps, CleanupSteps) /\ Run!NeverForgotten
  BY SameState DEF RuntimeInv, SnapshotInv
<1>2. Run!SnapshotsOK(ApplySteps, CleanupSteps)' /\ Run!NeverForgotten' => RuntimeInv'
  BY SameAfter DEF RuntimeInv, SnapshotInv
<1> QED
  BY <1>1, <1>2, FitsRuntime, SameState DEF TypeOK

\* Nothing relies on anything at first.
LEMMA InitRuntime == Init => RuntimeInv
<1> SUFFICES ASSUME Init PROVE RuntimeInv
  OBVIOUS
<1>1. Run!RuntimeInit
  BY SameState DEF Init
<1>2. Run!SnapshotsOK(ApplySteps, CleanupSteps)
  BY <1>1, FitsRuntime, Run!InitKeeps
<1>3. Run!NeverForgotten
  BY <1>1, Run!InitAwaits DEF Blank
<1> QED
  BY <1>2, <1>3, SameState DEF RuntimeInv, SnapshotInv

\* A reconciliation goes on as what it is.
LEMMA GotoRuntime ==
  ASSUME TypeOK, RuntimeInv, SoleOperator, NEW o \in Operators, NEW c \in CRs,
         NEW l, Goto(o, c, l),
         \/ pc[o][c] \in ApplySteps /\ l \in ApplySteps
         \/ pc[o][c] \in CleanupSteps /\ l \in CleanupSteps
  PROVE  RuntimeInv'
<1>1. l # "idle"
  BY DEF ApplySteps, CleanupSteps
<1> QED
  BY <1>1, RuntimeState, SameSteps, Run!GotoKeeps, Run!GotoAwaits

\* No call of apply() disturbs it.
LEMMA ApplyRuntime ==
  ASSUME TypeOK, RuntimeInv, SoleOperator, NEW o \in Operators, NEW c \in CRs, Apply(o, c)
  PROVE  RuntimeInv'
<1>1. CASE UpdateStatus(o, c)
  <2> DEFINE st == [message |-> local[o][c].result,
                    observed |-> ObservedGeneration(o, c),
                    accessKey |-> ReportedKey(o, c)]
  <2>1. st \in AccessKeyStatus /\ st.observed = obj[o][c].gen
    BY <1>1, ReportType
  <2>2. /\ pc[o][c] \in ApplySteps
        /\ Run!PatchStatus(o, c, st, Requeue(local[o][c].result))
        /\ Requeue(local[o][c].result) # "none"
    BY <1>1, SameSteps DEF UpdateStatus, ApplySteps, Requeue, ErrorPolicy
  <2> HIDE DEF st
  <2> QED
    BY <2>1, <2>2, RuntimeState, Run!PatchStatusKeeps, Run!PatchStatusAwaits
<1>2. ASSUME pc[o][c] \in ApplySteps, NEW l \in ApplySteps, Goto(o, c, l)
      PROVE  RuntimeInv'
  BY <1>2, GotoRuntime
<1>3. CASE ResolveConnection(o, c)
  BY <1>2, <1>3 DEF ResolveConnection, Fail, ApplySteps
<1>4. CASE ReadSecret(o, c)
  BY <1>2, <1>4 DEF ReadSecret, Fail, ApplySteps
<1>5. CASE GetAccessKey(o, c)
  BY <1>2, <1>5 DEF GetAccessKey, Fail, ApplySteps
<1>6. CASE RevokeKey(o, c)
  BY <1>2, <1>6 DEF RevokeKey, Fail, ApplySteps
<1>7. CASE CreateKey(o, c)
  BY <1>2, <1>7 DEF CreateKey, Fail, ApplySteps
<1>8. CASE WriteSecret(o, c)
  BY <1>2, <1>8 DEF WriteSecret, Fail, ApplySteps
<1> QED
  BY <1>1, <1>3, <1>4, <1>5, <1>6, <1>7, <1>8 DEF Apply

\* No call of cleanup() disturbs it.
LEMMA CleanupRuntime ==
  ASSUME TypeOK, RuntimeInv, SoleOperator, NEW o \in Operators, NEW c \in CRs,
         Cleanup(o, c) \/ CleanupRevoke(o, c)
  PROVE  RuntimeInv'
<1>1. ASSUME NEW e, CleanupFails(o, c, e) PROVE RuntimeInv'
  <2>1. Run!Finish(o, c, ErrorPolicy(e)) /\ cr' = cr /\ ErrorPolicy(e) # "none"
    BY <1>1, SameSteps DEF CleanupFails, ErrorPolicy
  <2> QED
    BY <2>1, RuntimeState, Run!FinishKeeps, Run!FinishAwaits
<1>2. ASSUME NEW l \in CleanupSteps, Goto(o, c, l) PROVE RuntimeInv'
  BY <1>2, GotoRuntime DEF Cleanup, CleanupRevoke, CleanupSteps
<1> QED
  BY <1>1, <1>2 DEF Cleanup, CleanupRevoke, CleanupSteps

\* Every step of a sole operator keeps it.
LEMMA RuntimeStep ==
  ASSUME TypeOK, RuntimeInv, SoleOperator, [Next]_vars
  PROVE  RuntimeInv'
<1>1. ASSUME NEW o \in Operators, NEW c \in CRs, Runtime(o, c)
      PROVE  RuntimeInv'
  <2>1. CASE Start(o, c)
    BY <2>1, RuntimeState, SameSteps, Run!StartKeeps, Run!StartAwaits
  <2>2. CASE AddFinalizer(o, c)
    BY <2>2, RuntimeState, SameSteps, Run!AddFinalizerKeeps, Run!AddFinalizerAwaits
  <2>3. CASE RemoveFinalizer(o, c)
    BY <2>3, RuntimeState, SameSteps, Run!RemoveFinalizerKeeps, Run!RemoveFinalizerAwaits
  <2> QED
    BY <1>1, <2>1, <2>2, <2>3 DEF Runtime
<1>2. ASSUME NEW o \in Operators, NEW c \in CRs, Watch(o, c)
      PROVE  RuntimeInv'
  BY <1>2, RuntimeState, SameSteps, Run!DeliverKeeps, Run!DeliverAwaits DEF Watch
<1>3. ASSUME NEW o \in Operators, Crash(o)
      PROVE  RuntimeInv'
  BY <1>3, RuntimeState, SameSteps, Run!RestartKeeps, Run!RestartAwaits DEF Crash
<1>4. ASSUME NEW c \in CRs, UserStep(c)
      PROVE  RuntimeInv'
  <2>1. (\E s : Run!CreateCR(c, s) \/ Run!EditCR(c, s)) \/ Run!DeleteCR(c)
    BY <1>4, SameSteps DEF UserStep
  <2> QED
    BY <2>1, RuntimeState, Run!UserKeeps, Run!UserAwaits
<1>5. ASSUME UNCHANGED <<cr, cache, obj, pc, wake>>
      PROVE  RuntimeInv'
  BY <1>5 DEF RuntimeInv, SnapshotInv, SnapshotsOK, ServerOK, CacheOK, RunOK, Held, Earlier,
              NeverForgotten, Exists
<1>6. ASSUME NEW c \in CRs, LoseSecret(c) \/ CollectSecret(c)
      PROVE  RuntimeInv'
  BY <1>5, <1>6 DEF LoseSecret, CollectSecret
<1>7. ASSUME NEW k \in KeyIds, LoseKey(k)
      PROVE  RuntimeInv'
  BY <1>5, <1>7 DEF LoseKey
<1>8. CASE UNCHANGED vars
  BY <1>5, <1>8 DEF vars
<1> QED
  BY <1>1, <1>2, <1>3, <1>4, <1>6, <1>7, <1>8, ApplyRuntime, CleanupRuntime DEF Next, Reconcile

\* With a single operator it holds throughout.
LEMMA RuntimeCorrect == SoleOperator /\ SafetySpec => []RuntimeInv
<1> SUFFICES ASSUME SoleOperator
             PROVE  SafetySpec => []RuntimeInv
  OBVIOUS
<1>1. TypeOK /\ RuntimeInv /\ [Next]_vars => RuntimeInv'
  BY RuntimeStep
<1> QED
  BY <1>1, InitRuntime, TypeCorrect, PTL DEF SafetySpec

(***************************************************************************)
(* With a single operator a running reconciliation, however late, works on *)
(* the incarnation the server has and on no older a generation than the    *)
(* one .status reports, and the finalizer outlives every apply() in flight.*)
(***************************************************************************)
THEOREM SnapshotsCorrect == SoleOperator /\ SafetySpec => []SnapshotInv
BY RuntimeCorrect, PTL DEF RuntimeInv

(***************************************************************************)
(* A single operator forgets no resource: await_change is returned only    *)
(* after a patch that comes back as an event, or when nothing is left.     *)
(***************************************************************************)
THEOREM NothingForgotten == SoleOperator /\ SafetySpec => []NeverForgotten
BY RuntimeCorrect, PTL DEF RuntimeInv

(***************************************************************************)
(* A key appears on the server only by the call that creates it, for a     *)
(* resource that carries the finalizer at that moment.                     *)
(***************************************************************************)
LEMMA IssueStep ==
  ASSUME TypeOK, SnapshotInv, [Next]_vars,
         NEW k \in KeyIds, ~Issued(k), Issued(k)'
  PROVE  cr[keys'[k].by].finalizer
<1>1. ASSUME UNCHANGED keys \/ \E j : DeleteAccessKey(j)
      PROVE  FALSE
  BY <1>1 DEF Issued, DeleteAccessKey, NoKey, TypeOK, KeyRecords
<1>2. ASSUME NEW o \in Operators, NEW c \in CRs, CreateKey(o, c)
      PROVE  cr[keys'[k].by].finalizer
  <2>1. PICK j \in KeyIds \union {None}, sk \in SecretKeys :
          keys' = [keys EXCEPT ![j] =
                     [parent |-> obj[o][c].spec.user, sk |-> sk, by |-> c]]
    <3>1. Known(obj[o][c]) \in KeyIds \union {None}
      BY KnownType DEF TypeOK, RuntimeTypeOK, ApiObjects
    <3> QED
      BY <1>1, <1>2, <3>1, IdsAssumption DEF CreateKey, CreateIds
  <2>2. keys'[k].by = c
    BY <2>1 DEF Issued, TypeOK, KeyRecords
  <2> QED
    BY <1>2, <2>2 DEF SnapshotInv, SnapshotsOK, RunOK, CreateKey, ApplySteps
<1>3. ASSUME NEW o \in Operators, NEW c \in CRs, Reconcile(o, c)
      PROVE  cr[keys'[k].by].finalizer
  BY <1>1, <1>2, <1>3
  DEF Reconcile, Runtime, Apply, ResolveConnection, ReadSecret, GetAccessKey,
      RevokeKey, WriteSecret, UpdateStatus, Cleanup, CleanupRevoke, externals
<1> QED
  BY <1>1, <1>3
  DEF Next, vars, Watch, Crash, UserStep, LoseSecret, CollectSecret, LoseKey, externals

(***************************************************************************)
(* With a single operator, no key is ever issued for a resource that could *)
(* vanish without a cleanup, whatever is delayed, lost or restarted.       *)
(***************************************************************************)
THEOREM IssueCorrect == SoleOperator /\ SafetySpec => IssueNeedsFinalizer
<1>1. TypeOK /\ SnapshotInv /\ [Next]_vars
        => [\A k \in KeyIds : ~Issued(k) /\ Issued(k)'
              => cr[keys'[k].by].finalizer]_vars
  BY IssueStep
<1> QED
  BY <1>1, TypeCorrect, SnapshotsCorrect, PTL DEF SafetySpec, IssueNeedsFinalizer
-----------------------------------------------------------------------------
(***************************************************************************)
(* What apply() has made sure of its snapshot x when it stands at label l  *)
(* with locals r: the checks of the spec come before the call they guard,  *)
(* and the id of the outcome is the known one if there is one.             *)
(***************************************************************************)
Checked(x, l, r) ==
  /\ l \in {"readSecret", "get", "revoke", "create", "write"} => x.spec.connection = "ok"
  /\ l \in {"get", "revoke", "create", "write"} => ~x.spec.passwordRef
  /\ l \in {"get", "revoke"} => Known(x) # None
  /\ l = "write" \/ (l = "status" /\ r.result = "reconciled") =>
       /\ Acceptable(x.spec) /\ r.ak # None
       /\ Known(x) # None => r.ak = Known(x)

ProgressInv == \A o \in Operators, c \in CRs : Checked(obj[o][c], pc[o][c], local[o][c])

\* An id that the server does not take for a user's makes a spec acceptable.
LEMMA AcceptableId ==
  ASSUME NEW x, x.spec.connection = "ok", ~x.spec.passwordRef,
         Known(x) = None \/ ~NamesUser(Known(x))
  PROVE  Acceptable(x.spec)
BY NoneAssumption DEF Acceptable, Known, NamesUser

\* A reconciliation that goes on has checked what the next call relies on.
LEMMA GotoChecked ==
  ASSUME TypeOK, ProgressInv, NEW o \in Operators, NEW c \in CRs, NEW l, NEW r,
         Goto(o, c, l), Remember(o, c, r) \/ (UNCHANGED local /\ r = local[o][c]),
         Checked(obj[o][c], l, r)
  PROVE  ProgressInv'
<1>1. pc'[o][c] = l /\ local'[o][c] = r /\ obj' = obj
  BY DEF Goto, Remember, TypeOK, RuntimeTypeOK
<1>2. \A p \in Operators, d \in CRs :
        p # o \/ d # c => pc'[p][d] = pc[p][d] /\ local'[p][d] = local[p][d]
  BY DEF Goto, Remember, TypeOK, RuntimeTypeOK
<1> SUFFICES ASSUME NEW p \in Operators, NEW d \in CRs
             PROVE  Checked(obj'[p][d], pc'[p][d], local'[p][d])
  BY DEF ProgressInv, Checked, Acceptable, NamesUser, Known
<1>3. CASE p = o /\ d = c
  BY <1>1, <1>3
<1>4. CASE p # o \/ d # c
  BY <1>1, <1>2, <1>4 DEF ProgressInv
<1> QED
  BY <1>3, <1>4

\* Failing claims nothing.
LEMMA FailChecked ==
  ASSUME TypeOK, ProgressInv, NEW o \in Operators, NEW c \in CRs,
         NEW e \in {"config", "retry"}, Fail(o, c, e)
  PROVE  ProgressInv'
<1> DEFINE r == [NoLocal EXCEPT !.result = e]
<1>1. r.result = e /\ Goto(o, c, "status") /\ Remember(o, c, r)
  BY DEF NoLocal, Fail
<1> HIDE DEF r
<1>2. Checked(obj[o][c], "status", r)
  BY <1>1 DEF Checked
<1> QED
  BY <1>1, <1>2, GotoChecked

\* At these labels nothing has been checked yet.
LEMMA UncheckedOK ==
  ASSUME NEW x, NEW r,
         NEW l \in {"idle", "addFinalizer", "apply", "cleanup", "cleanupRevoke", "removeFinalizer"}
  PROVE  Checked(x, l, r)
BY DEF Checked

\* Each call of apply() in turn.
LEMMA ApplyChecked ==
  ASSUME TypeOK, ProgressInv, NEW o \in Operators, NEW c \in CRs, Apply(o, c), ~UpdateStatus(o, c)
  PROVE  ProgressInv'
<1> DEFINE x == obj[o][c]
<1>1. Checked(x, pc[o][c], local[o][c])
  BY DEF ProgressInv
<1>2. CASE ResolveConnection(o, c)
  <2>1. CASE Goto(o, c, "readSecret") /\ UNCHANGED local /\ x.spec.connection = "ok"
    <3>1. Checked(x, "readSecret", local[o][c])
      BY <2>1 DEF Checked
    <3> QED
      BY <2>1, <3>1, GotoChecked
  <2> QED
    BY <1>2, <2>1, FailChecked DEF ResolveConnection
<1>3. CASE ReadSecret(o, c)
  <2>1. ASSUME NEW r, NEW l, Goto(o, c, l), Remember(o, c, r), ~x.spec.passwordRef,
               l = IF Known(x) = None THEN "create" ELSE "get"
        PROVE  ProgressInv'
    <3>1. Checked(x, l, r)
      BY <1>1, <1>3, <2>1 DEF Checked, ReadSecret
    <3> QED
      BY <2>1, <3>1, GotoChecked
  <2> QED
    BY <1>3, <2>1, FailChecked DEF ReadSecret
<1>4. CASE GetAccessKey(o, c)
  <2>1. ASSUME NEW l \in {"revoke", "create"}, Goto(o, c, l), UNCHANGED local
        PROVE  ProgressInv'
    <3>1. Checked(x, l, local[o][c])
      BY <1>1, <1>4, <2>1 DEF Checked, GetAccessKey
    <3> QED
      BY <2>1, <3>1, GotoChecked
  <2>2. ASSUME ~NamesUser(Known(x)), Goto(o, c, "status"),
               Remember(o, c, [NoLocal EXCEPT !.ak = Known(x), !.result = "reconciled"])
        PROVE  ProgressInv'
    <3> DEFINE r == [NoLocal EXCEPT !.ak = Known(x), !.result = "reconciled"]
    <3>1. r.ak = Known(x) /\ Remember(o, c, r)
      BY <2>2 DEF NoLocal
    <3> HIDE DEF r
    <3>2. x.spec.connection = "ok" /\ ~x.spec.passwordRef /\ Known(x) # None
      BY <1>1, <1>4 DEF Checked, GetAccessKey
    <3>3. Acceptable(x.spec)
      BY <2>2, <3>2, AcceptableId
    <3>4. Checked(x, "status", r)
      BY <3>1, <3>2, <3>3 DEF Checked
    <3> QED
      BY <2>2, <3>1, <3>4, GotoChecked
  <2> QED
    BY <1>4, <2>1, <2>2, FailChecked DEF GetAccessKey
<1>5. CASE RevokeKey(o, c)
  <2>1. CASE Goto(o, c, "create") /\ UNCHANGED local
    <3>1. Checked(x, "create", local[o][c])
      BY <1>1, <1>5 DEF Checked, RevokeKey
    <3> QED
      BY <2>1, <3>1, GotoChecked
  <2> QED
    BY <1>5, <2>1, FailChecked DEF RevokeKey
<1>6. CASE CreateKey(o, c)
  <2>1. ASSUME NEW k \in CreateIds(o, c), NEW sk, ~NamesUser(k), Goto(o, c, "write"),
               Remember(o, c, [NoLocal EXCEPT !.ak = k, !.sk = sk])
        PROVE  ProgressInv'
    <3> DEFINE r == [NoLocal EXCEPT !.ak = k, !.sk = sk]
    <3>1. r.ak = k /\ Remember(o, c, r)
      BY <2>1 DEF NoLocal
    <3> HIDE DEF r
    <3>2. x.spec.connection = "ok" /\ ~x.spec.passwordRef
      BY <1>1, <1>6 DEF Checked, CreateKey
    <3>3. (Known(x) # None => k = Known(x)) /\ k # None
      BY IdsAssumption, NoneAssumption DEF CreateIds
    <3>4. Acceptable(x.spec)
      BY <2>1, <3>2, <3>3, AcceptableId
    <3>5. Checked(x, "write", r)
      BY <3>1, <3>2, <3>3, <3>4 DEF Checked
    <3> QED
      BY <2>1, <3>1, <3>5, GotoChecked
  <2> QED
    BY <1>6, <2>1, FailChecked DEF CreateKey
<1>7. CASE WriteSecret(o, c)
  <2>1. ASSUME Goto(o, c, "status"),
               Remember(o, c, [NoLocal EXCEPT !.ak = local[o][c].ak, !.result = "reconciled"])
        PROVE  ProgressInv'
    <3> DEFINE r == [NoLocal EXCEPT !.ak = local[o][c].ak, !.result = "reconciled"]
    <3>1. r.ak = local[o][c].ak /\ Remember(o, c, r)
      BY <2>1 DEF NoLocal
    <3> HIDE DEF r
    <3>2. Checked(x, "status", r)
      BY <1>1, <1>7, <3>1 DEF Checked, WriteSecret
    <3> QED
      BY <2>1, <3>1, <3>2, GotoChecked
  <2> QED
    BY <1>7, <2>1, FailChecked DEF WriteSecret
<1> QED
  BY <1>2, <1>3, <1>4, <1>5, <1>6, <1>7 DEF Apply
\* A step that leaves o's reconciliation of c at an unchecked label.
LEMMA UncheckedKeeps ==
  ASSUME TypeOK, ProgressInv, NEW o \in Operators, NEW c \in CRs,
         \A p \in Operators, d \in CRs :
           p # o \/ d # c => /\ pc'[p][d] = pc[p][d] /\ obj'[p][d] = obj[p][d]
                             /\ local'[p][d] = local[p][d],
         pc'[o][c] \in {"idle", "addFinalizer", "apply", "cleanup", "cleanupRevoke",
                        "removeFinalizer"}
  PROVE  ProgressInv'
<1> SUFFICES ASSUME NEW p \in Operators, NEW d \in CRs
             PROVE  Checked(obj'[p][d], pc'[p][d], local'[p][d])
  BY DEF ProgressInv, Checked, Acceptable, NamesUser, Known
<1>1. CASE p = o /\ d = c
  BY <1>1, UncheckedOK
<1>2. CASE p # o \/ d # c
  BY <1>2 DEF ProgressInv
<1> QED
  BY <1>1, <1>2

\* The end of a reconciliation.
LEMMA FinishChecked ==
  ASSUME TypeOK, ProgressInv, NEW o \in Operators, NEW c \in CRs, NEW e, Finish(o, c, e),
         UNCHANGED local \/ Remember(o, c, NoLocal)
  PROVE  ProgressInv'
<1>1. \A p \in Operators, d \in CRs :
        p # o \/ d # c => /\ pc'[p][d] = pc[p][d] /\ obj'[p][d] = obj[p][d]
                          /\ local'[p][d] = local[p][d]
  BY DEF Finish, Remember, TypeOK, RuntimeTypeOK
<1>2. pc'[o][c] = "idle"
  BY DEF Finish, TypeOK, RuntimeTypeOK
<1> QED
  BY <1>1, <1>2, UncheckedKeeps

\* Every step keeps it.
LEMMA ProgressStep ==
  ASSUME TypeOK, ProgressInv, [Next]_vars
  PROVE  ProgressInv'
<1>1. ASSUME UNCHANGED <<obj, pc, local>> PROVE ProgressInv'
  BY <1>1 DEF ProgressInv, Checked, Acceptable, NamesUser, Known
<1>2. ASSUME NEW o \in Operators, NEW c \in CRs, Reconcile(o, c)
      PROVE  ProgressInv'
  <2>1. CASE Start(o, c) /\ UNCHANGED local
    <3>1. pc'[o][c] \in {"idle", "addFinalizer", "apply", "cleanup"}
      BY <2>1 DEF Start, FinalizerEvent, TypeOK, RuntimeTypeOK
    <3>2. \A p \in Operators, d \in CRs :
            p # o \/ d # c => /\ pc'[p][d] = pc[p][d] /\ obj'[p][d] = obj[p][d]
                              /\ local'[p][d] = local[p][d]
      BY <2>1 DEF Start, TypeOK, RuntimeTypeOK
    <3> QED
      BY <3>1, <3>2, UncheckedKeeps
  <2>2. CASE UpdateStatus(o, c)
    BY <2>2, FinishChecked DEF UpdateStatus, PatchStatus
  <2>3. CASE Cleanup(o, c) \/ CleanupRevoke(o, c)
    <3>1. ASSUME NEW l \in CleanupSteps, Goto(o, c, l) PROVE ProgressInv'
      <4>1. Checked(obj[o][c], l, local[o][c])
        BY UncheckedOK DEF CleanupSteps
      <4> QED
        BY <2>3, <3>1, <4>1, GotoChecked DEF Cleanup, CleanupRevoke
    <3> QED
      BY <2>3, <3>1, FinishChecked DEF Cleanup, CleanupRevoke, CleanupFails, CleanupSteps
  <2> QED
    BY <1>2, <2>1, <2>2, <2>3, ApplyChecked, FinishChecked
    DEF Reconcile, Runtime, AddFinalizer, RemoveFinalizer
<1>3. ASSUME NEW o \in Operators, Crash(o) PROVE ProgressInv'
  <2>1. \A c \in CRs : pc'[o][c] = "idle"
    BY <1>3 DEF Crash, Restart, TypeOK, RuntimeTypeOK
  <2>2. \A p \in Operators \ {o} : pc'[p] = pc[p] /\ obj'[p] = obj[p] /\ local'[p] = local[p]
    BY <1>3 DEF Crash, Restart, TypeOK, RuntimeTypeOK
  <2> QED
    BY <2>1, <2>2 DEF ProgressInv, Checked, Acceptable, NamesUser, Known
<1> QED
  BY <1>1, <1>2, <1>3
  DEF Next, vars, Watch, Deliver, UserStep, CreateCR, EditCR, DeleteCR, LoseSecret,
      CollectSecret, LoseKey

\* At first nothing runs.
LEMMA ProgressInit == Init => ProgressInv
<1> SUFFICES ASSUME Init PROVE ProgressInv
  OBVIOUS
<1>1. \A o \in Operators, c \in CRs : pc[o][c] = "idle"
  BY DEF Init, RuntimeInit
<1> QED
  BY <1>1, UncheckedOK DEF ProgressInv

\* So it holds throughout, however many operators there are.
LEMMA ProgressCorrect == SafetySpec => []ProgressInv
BY ProgressInit, ProgressStep, TypeCorrect, PTL DEF SafetySpec

-----------------------------------------------------------------------------
(***************************************************************************)
(* What a step may make y of the server's copy x of a resource; the status *)
(* is written by an apply() that ends.                                     *)
(***************************************************************************)
Rewritten(x, y) ==
  \/ y = x
  \/ Run!Created(x, y) \/ Run!Edited(x, y) \/ Run!Deleted(x, y)
  \/ Run!Added(x, y) \/ Run!Released(x, y)

Report(o, c) ==
  [message |-> local[o][c].result, observed |-> ObservedGeneration(o, c),
   accessKey |-> ReportedKey(o, c)]

Reports(o, c) ==
  /\ pc[o][c] = "status" /\ Exists(cr[c])
  /\ cr'[c] = [cr[c] EXCEPT !.status = Report(o, c)]

\* What the steps of the system write of a resource.
LEMMA WriteCases ==
  ASSUME TypeOK, [Next]_vars, NEW c \in CRs
  PROVE  Rewritten(cr[c], cr'[c]) \/ \E o \in Operators : Reports(o, c)
<1> DEFINE Done == Rewritten(cr[c], cr'[c]) \/ \E o \in Operators : Reports(o, c)
<1>1. Run!RuntimeTypeOK(Run!Objects(Specs, AccessKeyStatus), Steps)
  BY SameState DEF TypeOK
<1>2. Blank \in Run!Objects(Specs, AccessKeyStatus) /\ ~Blank.finalizer
  BY FitsRuntime DEF Run!Fits
<1>3. ASSUME UNCHANGED cr PROVE Done
  BY <1>3 DEF Rewritten
<1>4. ASSUME NEW d \in CRs, UserStep(d) PROVE Done
  <2>1. (\E s : Run!CreateCR(d, s) \/ Run!EditCR(d, s)) \/ Run!DeleteCR(d)
    BY <1>4, SameSteps DEF UserStep
  <2> QED
    BY <1>1, <1>2, <2>1, Run!UserWrites DEF Run!OnlyAt, Rewritten
<1>5. ASSUME NEW o \in Operators, NEW d \in CRs, Runtime(o, d) PROVE Done
  <2>1. CASE AddFinalizer(o, d)
    BY <1>1, <2>1, SameSteps, Run!AddFinalizerWrites DEF Run!OnlyAt, Rewritten
  <2>2. CASE RemoveFinalizer(o, d)
    BY <1>1, <2>2, SameSteps, Run!RemoveFinalizerWrites DEF Run!OnlyAt, Rewritten
  <2> QED
    BY <1>3, <1>5, <2>1, <2>2 DEF Runtime, Start
<1>6. ASSUME NEW o \in Operators, NEW d \in CRs, UpdateStatus(o, d) PROVE Done
  <2>1. Run!PatchStatus(o, d, Report(o, d), Requeue(local[o][d].result)) /\ pc[o][d] = "status"
    BY <1>6, SameSteps DEF UpdateStatus, Report
  <2>2. /\ \A e \in CRs \ {d} : cr'[e] = cr[e]
        /\ \/ cr'[d] = cr[d]
           \/ Exists(cr[d]) /\ cr'[d] = [cr[d] EXCEPT !.status = Report(o, d)]
    BY <1>1, <2>1, Run!PatchStatusWrites DEF Run!OnlyAt, Run!Exists, Exists
  <2> QED
    BY <2>1, <2>2 DEF Rewritten, Reports
<1>7. ASSUME NEW o \in Operators, NEW d \in CRs, Reconcile(o, d) PROVE Done
  BY <1>3, <1>5, <1>6, <1>7
  DEF Reconcile, Apply, ResolveConnection, ReadSecret, GetAccessKey, RevokeKey, CreateKey,
      WriteSecret, Cleanup, CleanupRevoke, CleanupFails, Fail, Goto
<1> QED
  BY <1>3, <1>4, <1>7
  DEF Next, vars, Watch, Deliver, Crash, Restart, LoseSecret, CollectSecret, LoseKey

-----------------------------------------------------------------------------
(***************************************************************************)
(* ReadyIsCurrent, resource by resource.                                   *)
(***************************************************************************)
Current(x) ==
  Exists(x) /\ x.status.message = "reconciled" /\ x.status.observed = x.gen
    => Acceptable(x.spec) /\ x.spec.accessKey \in {None, x.status.accessKey}

\* Users and the finalizer patches make no status of another generation.
LEMMA RewrittenCurrent ==
  ASSUME NEW x \in ApiObjects, NEW y, ServerOK(x), Current(x), Rewritten(x, y)
  PROVE  Current(y)
<1>1. Blank.status.message # "reconciled"
  BY NoneAssumption DEF Blank, Messages
<1>2. x.gen \in Nat /\ x.status.observed \in Nat /\ x.status.observed <= x.gen
  BY DEF ServerOK, ApiObjects, Objects, AccessKeyStatus
<1> QED
  BY <1>1, <1>2 DEF Current, Rewritten, Run!Created, Run!Edited, Run!Deleted, Run!Added,
                    Run!Released, Run!Exists, Exists

\* A status that is reported is that of the snapshot's generation.
LEMMA ReportCurrent ==
  ASSUME TypeOK, SnapshotInv, ProgressInv, NEW o \in Operators, NEW c \in CRs, Reports(o, c)
  PROVE  Current(cr'[c])
<1>1. /\ cr[c] \in ApiObjects /\ obj[o][c] \in ApiObjects
      /\ local[o][c] \in LocalRecords
  BY DEF TypeOK, RuntimeTypeOK, ApiObjects
<1>2. /\ obj[o][c].uid = cr[c].uid
      /\ obj[o][c].gen = cr[c].gen => obj[o][c].spec = cr[c].spec
  BY <1>1 DEF SnapshotInv, SnapshotsOK, RunOK, Earlier, Reports, ApplySteps, ApiObjects, Objects
<1>3. /\ cr'[c].spec = cr[c].spec /\ cr'[c].gen = cr[c].gen
      /\ cr'[c].status = Report(o, c)
  BY <1>1 DEF Reports, ApiObjects, Objects
<1>4. local[o][c].result = "reconciled" =>
        /\ Acceptable(obj[o][c].spec)
        /\ Known(obj[o][c]) # None => local[o][c].ak = Known(obj[o][c])
  BY DEF ProgressInv, Checked, Reports
<1> QED
  BY <1>2, <1>3, <1>4 DEF Current, Report, ReportedKey, ObservedGeneration, Known

\* With a single operator every step keeps it.
LEMMA CurrentStep ==
  ASSUME TypeOK, SnapshotInv, ProgressInv, ReadyIsCurrent, [Next]_vars
  PROVE  ReadyIsCurrent'
<1>1. \A c \in CRs : Current(cr[c]) /\ ServerOK(cr[c]) /\ cr[c] \in ApiObjects
  BY DEF ReadyIsCurrent, Current, SnapshotInv, SnapshotsOK, TypeOK, RuntimeTypeOK, ApiObjects
<1>2. \A c \in CRs : Current(cr'[c])
  BY <1>1, WriteCases, RewrittenCurrent, ReportCurrent
<1> QED
  BY <1>2 DEF ReadyIsCurrent, Current, Exists, Acceptable, NamesUser

(***************************************************************************)
(* With a single operator, ready with the current generation is always     *)
(* said of the very spec that apply() accepted, and of the key it asks for.*)
(***************************************************************************)
THEOREM ReadyCorrect == SoleOperator /\ SafetySpec => []ReadyIsCurrent
<1> SUFFICES ASSUME SoleOperator
             PROVE  SafetySpec => []ReadyIsCurrent
  OBVIOUS
<1>1. Init => ReadyIsCurrent
  BY DEF Init, RuntimeInit, Blank, ReadyIsCurrent, Exists
<1>2. TypeOK /\ SnapshotInv /\ ProgressInv /\ ReadyIsCurrent /\ [Next]_vars => ReadyIsCurrent'
  BY CurrentStep
<1>3. ReadyIsCurrent /\ UNCHANGED vars => ReadyIsCurrent'
  BY DEF ReadyIsCurrent, vars, Exists, Acceptable, NamesUser
<1> QED
  BY <1>1, <1>2, <1>3, TypeCorrect, SnapshotsCorrect, ProgressCorrect, PTL DEF SafetySpec

(***************************************************************************)
(* The id in .status is never given up while the resource lives, however   *)
(* many operators there are: an apply() that fails repeats it, and one that*)
(* succeeds has an id to report.                                           *)
(***************************************************************************)
THEOREM RecordedKeyCorrect == SafetySpec => RecordedKeyKept
<1> DEFINE Kept ==
      \A c \in CRs :
        cr[c].uid = cr'[c].uid /\ cr[c].status.accessKey # None
          => cr'[c].status.accessKey # None
<1>1. ASSUME TypeOK, ProgressInv, [Next]_vars PROVE Kept
  <2> SUFFICES ASSUME NEW c \in CRs, cr[c].uid = cr'[c].uid, cr[c].status.accessKey # None
               PROVE  cr'[c].status.accessKey # None
    OBVIOUS
  <2>1. cr[c] \in ApiObjects
    BY <1>1 DEF TypeOK, RuntimeTypeOK, ApiObjects
  <2>2. CASE Rewritten(cr[c], cr'[c])
    <3>1. cr[c].uid \in Nat
      BY <2>1 DEF ApiObjects, Objects
    <3>2. cr'[c].status = cr[c].status
      BY <2>2, <3>1 DEF Rewritten, Run!Created, Run!Edited, Run!Deleted, Run!Added, Run!Released
    <3> QED
      BY <3>2
  <2>3. ASSUME NEW o \in Operators, Reports(o, c)
        PROVE  cr'[c].status.accessKey # None
    <3>1. cr'[c].status.accessKey = ReportedKey(o, c)
      BY <2>1, <2>3 DEF Reports, Report, ApiObjects, Objects
    <3>2. local[o][c].result = "reconciled" => local[o][c].ak # None
      BY <1>1, <2>3 DEF ProgressInv, Checked, Reports
    <3> QED
      BY <3>1, <3>2 DEF ReportedKey
  <2> QED
    BY <1>1, <2>2, <2>3, WriteCases
<1>2. TypeOK /\ ProgressInv /\ [Next]_vars => [Kept]_vars
  BY <1>1
<1> QED
  BY <1>2, TypeCorrect, ProgressCorrect, PTL DEF SafetySpec, RecordedKeyKept
=============================================================================
