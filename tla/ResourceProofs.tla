---------------------------- MODULE ResourceProofs ----------------------------
(***************************************************************************)
(* What the proofs about every controller on ResourceController share: its *)
(* steps keep the types of the variables it declares, whatever the calls   *)
(* S that a controller adds to its own.                                    *)
(***************************************************************************)
EXTENDS ResourceController, TLAPS

ApiObjects == Objects(Specs, ResourceStatus)

Typed(S) == ControllerTypeOK(ResourceStatus, S)

\* The record of a resource nobody created is an object.
LEMMA BlankTyped == Blank \in ApiObjects
<1>1. (CHOOSE s \in Specs : TRUE) \in Specs
  BY SpecsNonempty
<1> QED
  BY <1>1 DEF Blank, ApiObjects, Objects, Phases, ResourceStatus

\* The initial states are typed.
LEMMA InitTyped == ASSUME NEW S, ControllerInit PROVE Typed(S)
BY BlankTyped DEF ControllerInit, RuntimeInit, Typed, ControllerTypeOK, RuntimeTypeOK,
   ResourceSteps, Wakes, ApiObjects

\* Every end of a reconciliation is followed by a wake or by none.
LEMMA WakesTyped == \A e : ErrorPolicy(e) \in Wakes /\ Requeue(e) \in Wakes
BY DEF ErrorPolicy, Requeue, Wakes

\* Writing an object keeps the server's store typed.
LEMMA WriteTyped ==
  ASSUME NEW f \in [CRs -> ApiObjects], NEW c \in CRs, NEW x \in ApiObjects
  PROVE  [f EXCEPT ![c] = x] \in [CRs -> ApiObjects]
OBVIOUS

\* Writing a field of an object that a step may write leaves an object.
LEMMA FieldsTyped ==
  ASSUME NEW x \in ApiObjects
  PROVE  /\ \A b \in BOOLEAN : [x EXCEPT !.finalizer = b] \in ApiObjects
         /\ \A ph \in Phases : [x EXCEPT !.phase = ph] \in ApiObjects
         /\ \A b \in BOOLEAN, ph \in Phases :
              [x EXCEPT !.finalizer = b, !.phase = ph] \in ApiObjects
         /\ \A n \in Nat, ph \in Phases :
              [x EXCEPT !.phase = ph, !.gen = n] \in ApiObjects
         /\ \A st \in ResourceStatus : [x EXCEPT !.status = st] \in ApiObjects
BY DEF ApiObjects, Objects

\* The number of faults stays a number.
LEMMA FaultsTyped ==
  ASSUME faults \in Nat, NoFault \/ \E k : Fault(k)
  PROVE  faults' \in Nat
BY DEF Fault, NoFault

-----------------------------------------------------------------------------
(***************************************************************************)
(* The ways a step of a reconciliation ends: it goes on, fails, or is over.*)
(***************************************************************************)
LEMMA ProceedTyped ==
  ASSUME NEW S, Typed(S), NEW o \in Operators, NEW c \in CRs,
         NEW l \in S \union ResourceSteps, Proceed(o, c, l),
         faults' \in Nat, meddled' \in BOOLEAN
  PROVE  Typed(S)'
<1>1. RuntimeTypeOK(ApiObjects, S \union ResourceSteps)'
  BY DEF Typed, ControllerTypeOK, RuntimeTypeOK, Proceed, Goto, ApiObjects
<1>2. result' \in [Operators -> [CRs -> Messages \union {None}]]
  BY DEF Typed, ControllerTypeOK, Proceed, Messages
<1>3. \A p \in Operators, d \in CRs : pc'[p][d] = "status" => result'[p][d] # None
  BY NoneIsNoMessage DEF Typed, ControllerTypeOK, RuntimeTypeOK, Proceed, Goto, Messages
<1> QED
  BY <1>1, <1>2, <1>3 DEF Typed, ControllerTypeOK, ApiObjects

\* A call that fails keeps the types: its error is the result.
LEMMA FailTyped ==
  ASSUME NEW S, Typed(S), NEW o \in Operators, NEW c \in CRs,
         NEW e \in {"config", "retry"}, Fail(o, c, e),
         faults' \in Nat, meddled' \in BOOLEAN
  PROVE  Typed(S)'
<1>1. RuntimeTypeOK(ApiObjects, S \union ResourceSteps)'
  BY DEF Typed, ControllerTypeOK, RuntimeTypeOK, Fail, Goto, ApiObjects, ResourceSteps
<1>2. result' \in [Operators -> [CRs -> Messages \union {None}]]
  BY DEF Typed, ControllerTypeOK, Fail, Messages
<1>3. \A p \in Operators, d \in CRs : pc'[p][d] = "status" => result'[p][d] # None
  BY NoneIsNoMessage DEF Typed, ControllerTypeOK, RuntimeTypeOK, Fail, Goto, Messages
<1> QED
  BY <1>1, <1>2, <1>3 DEF Typed, ControllerTypeOK, ApiObjects

\* A reconciliation that is over leaves the types as they are.
LEMMA FinishTyped ==
  ASSUME NEW S, Typed(S), NEW o \in Operators, NEW c \in CRs, NEW next \in Wakes,
         Finish(o, c, next), cr' \in [CRs -> ApiObjects],
         UNCHANGED result \/ result' = [result EXCEPT ![o][c] = None],
         faults' \in Nat, meddled' \in BOOLEAN
  PROVE  Typed(S)'
<1>1. RuntimeTypeOK(ApiObjects, S \union ResourceSteps)'
  BY BlankTyped DEF Typed, ControllerTypeOK, RuntimeTypeOK, Finish, ApiObjects, ResourceSteps
<1>2. result' \in [Operators -> [CRs -> Messages \union {None}]]
  BY DEF Typed, ControllerTypeOK
<1>3. \A p \in Operators, d \in CRs : pc'[p][d] = "status" => result'[p][d] # None
  BY DEF Typed, ControllerTypeOK, RuntimeTypeOK, Finish
<1> QED
  BY <1>1, <1>2, <1>3 DEF Typed, ControllerTypeOK, ApiObjects

\* A cleanup that fails is over.
LEMMA CleanupFailsTyped ==
  ASSUME NEW S, Typed(S), NEW o \in Operators, NEW c \in CRs, NEW e,
         CleanupFails(o, c, e), faults' \in Nat, meddled' \in BOOLEAN
  PROVE  Typed(S)'
<1>1. cr' \in [CRs -> ApiObjects]
  BY DEF CleanupFails, Typed, ControllerTypeOK, RuntimeTypeOK, ApiObjects
<1> QED
  BY <1>1, WakesTyped, FinishTyped DEF CleanupFails

-----------------------------------------------------------------------------
(***************************************************************************)
(* The steps that concern the resource alone.                              *)
(***************************************************************************)
LEMMA StartTyped ==
  ASSUME NEW S, Typed(S), NEW o \in Operators, NEW c \in CRs,
         Start(o, c), UNCHANGED <<result, meddled>>
  PROVE  Typed(S)'
<1>1. FinalizerEvent(cache[o][c]) \in ResourceSteps \ {"status"}
  BY DEF FinalizerEvent, ResourceSteps
<1>2. RuntimeTypeOK(ApiObjects, S \union ResourceSteps)'
  BY <1>1 DEF Typed, ControllerTypeOK, RuntimeTypeOK, Start, NoFault, ApiObjects, Wakes
<1>3. \A p \in Operators, d \in CRs : pc'[p][d] = "status" => result'[p][d] # None
  BY <1>1 DEF Typed, ControllerTypeOK, RuntimeTypeOK, Start
<1> QED
  BY <1>2, <1>3 DEF Typed, ControllerTypeOK, ApiObjects

\* Adding the finalizer, or failing to, is a typed end.
LEMMA AddFinalizerTyped ==
  ASSUME NEW S, Typed(S), NEW o \in Operators, NEW c \in CRs,
         AddFinalizer(o, c), UNCHANGED <<result, meddled>>
  PROVE  Typed(S)'
<1>1. cr' \in [CRs -> ApiObjects]
  <2>1. cr \in [CRs -> ApiObjects]
    BY DEF Typed, ControllerTypeOK, RuntimeTypeOK, ApiObjects
  <2>2. [cr[c] EXCEPT !.finalizer = TRUE] \in ApiObjects
    BY <2>1, FieldsTyped
  <2>3. cr' = cr \/ cr' = [cr EXCEPT ![c] = [cr[c] EXCEPT !.finalizer = TRUE]]
    BY DEF AddFinalizer
  <2> QED
    BY <2>1, <2>2, <2>3, WriteTyped
<1>2. faults' \in Nat
  BY FaultsTyped DEF Typed, ControllerTypeOK, RuntimeTypeOK, AddFinalizer
<1>3. meddled' \in BOOLEAN
  BY DEF Typed, ControllerTypeOK
<1>4. PICK next \in Wakes : Finish(o, c, next)
  BY WakesTyped DEF AddFinalizer, Wakes
<1> QED
  BY <1>1, <1>2, <1>3, <1>4, FinishTyped

\* Removing the finalizer, or failing to, is a typed end.
LEMMA RemoveFinalizerTyped ==
  ASSUME NEW S, Typed(S), NEW o \in Operators, NEW c \in CRs,
         RemoveFinalizer(o, c), UNCHANGED <<result, meddled>>
  PROVE  Typed(S)'
<1>1. cr' \in [CRs -> ApiObjects]
  <2> DEFINE ph == IF cr[c].phase = "deleting" THEN "absent" ELSE cr[c].phase
  <2>1. cr \in [CRs -> ApiObjects] /\ ph \in Phases
    BY DEF Typed, ControllerTypeOK, RuntimeTypeOK, ApiObjects, Objects, Phases
  <2>2. cr' = cr \/ cr' = [cr EXCEPT ![c] = [@ EXCEPT !.finalizer = FALSE, !.phase = ph]]
    BY <2>1 DEF RemoveFinalizer
  <2> HIDE DEF ph
  <2>3. [cr[c] EXCEPT !.finalizer = FALSE, !.phase = ph] \in ApiObjects
    BY <2>1, FieldsTyped
  <2> QED
    BY <2>1, <2>2, <2>3, WriteTyped
<1>2. faults' \in Nat
  BY FaultsTyped DEF Typed, ControllerTypeOK, RuntimeTypeOK, RemoveFinalizer
<1>3. meddled' \in BOOLEAN
  BY DEF Typed, ControllerTypeOK
<1>4. PICK next \in Wakes : Finish(o, c, next)
  BY WakesTyped DEF RemoveFinalizer, Wakes
<1> QED
  BY <1>1, <1>2, <1>3, <1>4, FinishTyped

\* A status is written with a Result and the generation of the snapshot.
LEMMA UpdateStatusTyped ==
  ASSUME NEW S, Typed(S), NEW o \in Operators, NEW c \in CRs,
         UpdateStatus(o, c), UNCHANGED meddled
  PROVE  Typed(S)'
<1> DEFINE st == [message |-> result[o][c], observed |-> ObservedGeneration(o, c)]
<1>1. st \in ResourceStatus
  BY DEF Typed, ControllerTypeOK, RuntimeTypeOK, Objects, ObservedGeneration, ResourceStatus
<1>2. PatchStatus(o, c, st, Requeue(result[o][c])) /\ result' = [result EXCEPT ![o][c] = None]
  BY DEF UpdateStatus
<1> HIDE DEF st
<1>3. cr' \in [CRs -> ApiObjects]
  <2>1. cr \in [CRs -> ApiObjects]
    BY DEF Typed, ControllerTypeOK, RuntimeTypeOK, ApiObjects
  <2>2. [cr[c] EXCEPT !.status = st] \in ApiObjects
    BY <1>1, <2>1, FieldsTyped
  <2>3. cr' = cr \/ cr' = [cr EXCEPT ![c] = [cr[c] EXCEPT !.status = st]]
    BY <1>2 DEF PatchStatus
  <2> QED
    BY <2>1, <2>2, <2>3, WriteTyped
<1>4. faults' \in Nat
  BY <1>2, FaultsTyped DEF Typed, ControllerTypeOK, RuntimeTypeOK, PatchStatus
<1>5. meddled' \in BOOLEAN
  BY DEF Typed, ControllerTypeOK
<1> QED
  BY <1>2, <1>3, <1>4, <1>5, WakesTyped, FinishTyped DEF PatchStatus

\* All of them keep the types.
LEMMA OwnStepTyped ==
  ASSUME NEW S, Typed(S), NEW o \in Operators, NEW c \in CRs,
         OwnStep(o, c), NoMeddling
  PROVE  Typed(S)'
<1>1. CASE Retained(o, c)
  <2>1. faults' \in Nat /\ meddled' \in BOOLEAN
    BY <1>1 DEF Retained, NoFault, NoMeddling, Typed, ControllerTypeOK, RuntimeTypeOK
  <2> QED
    BY <1>1, <2>1, ProceedTyped DEF Retained, ResourceSteps
<1> QED
  BY <1>1, StartTyped, AddFinalizerTyped, RemoveFinalizerTyped, UpdateStatusTyped
  DEF OwnStep, NoMeddling

-----------------------------------------------------------------------------
(***************************************************************************)
(* The steps of the watch, the process and the users.                      *)
(***************************************************************************)
LEMMA WatchTyped ==
  ASSUME NEW S, Typed(S), NEW o \in Operators, NEW c \in CRs, Watch(o, c)
  PROVE  Typed(S)'
BY DEF Watch, Deliver, NoFault, Typed, ControllerTypeOK, RuntimeTypeOK, Wakes

\* A restarted process has nothing running.
LEMMA CrashTyped ==
  ASSUME NEW S, Typed(S), NEW o \in Operators, Crash(o)
  PROVE  Typed(S)'
<1>1. faults' \in Nat
  BY FaultsTyped DEF Crash, Restart, Typed, ControllerTypeOK, RuntimeTypeOK
<1>2. RuntimeTypeOK(ApiObjects, S \union ResourceSteps)'
  <2>1. pc' \in [Operators -> [CRs -> S \union ResourceSteps]]
    BY DEF Crash, Restart, Typed, ControllerTypeOK, RuntimeTypeOK, ResourceSteps
  <2>2. obj' \in [Operators -> [CRs -> ApiObjects]] /\ cache' \in [Operators -> [CRs -> ApiObjects]]
    BY BlankTyped DEF Crash, Restart, Typed, ControllerTypeOK, RuntimeTypeOK, ApiObjects
  <2>3. wake' \in [Operators -> [CRs -> Wakes]]
    BY DEF Crash, Restart, Typed, ControllerTypeOK, RuntimeTypeOK, Wakes
  <2> QED
    BY <1>1, <2>1, <2>2, <2>3 DEF Crash, Restart, Typed, ControllerTypeOK, RuntimeTypeOK, ApiObjects
<1>3. result' \in [Operators -> [CRs -> Messages \union {None}]]
  BY DEF Crash, Typed, ControllerTypeOK
<1>4. \A p \in Operators, d \in CRs : pc'[p][d] = "status" => result'[p][d] # None
  BY DEF Crash, Restart, Typed, ControllerTypeOK, RuntimeTypeOK
<1> QED
  BY <1>2, <1>3, <1>4 DEF Crash, NoMeddling, Typed, ControllerTypeOK, ApiObjects

\* Users apply specs of the kind.
LEMMA UserStepTyped ==
  ASSUME NEW S, Typed(S), NEW c \in CRs, NEW specs \in SUBSET Specs, UserStep(c, specs)
  PROVE  Typed(S)'
<1>1. cr' \in [CRs -> ApiObjects] /\ UNCHANGED <<cache, obj, pc, wake, faults>>
  <2>1. ASSUME NEW s \in specs, CreateCR(c, s)
        PROVE  cr' \in [CRs -> ApiObjects] /\ UNCHANGED <<cache, obj, pc, wake, faults>>
    <3>1. cr[c].uid + 1 \in Nat
      BY DEF Typed, ControllerTypeOK, RuntimeTypeOK, Objects
    <3>2. [Blank EXCEPT !.phase = "live", !.gen = 1, !.uid = cr[c].uid + 1, !.spec = s] \in ApiObjects
      BY <3>1, BlankTyped DEF ApiObjects, Objects, Phases
    <3> QED
      BY <2>1, <3>2 DEF CreateCR, NoFault, Typed, ControllerTypeOK, RuntimeTypeOK, ApiObjects
  <2>2. ASSUME NEW s \in specs, EditCR(c, s)
        PROVE  cr' \in [CRs -> ApiObjects] /\ UNCHANGED <<cache, obj, pc, wake, faults>>
    BY <2>2 DEF EditCR, NoFault, Typed, ControllerTypeOK, RuntimeTypeOK, ApiObjects, Objects
  <2>3. ASSUME DeleteCR(c)
        PROVE  cr' \in [CRs -> ApiObjects] /\ UNCHANGED <<cache, obj, pc, wake, faults>>
    <3>1. cr \in [CRs -> ApiObjects]
      BY DEF Typed, ControllerTypeOK, RuntimeTypeOK, ApiObjects
    <3>2. PICK g \in Nat : g = cr[c].gen + 1
      BY <3>1 DEF ApiObjects, Objects
    <3>3. PICK x \in {[cr[c] EXCEPT !.phase = "deleting", !.gen = g],
                      [cr[c] EXCEPT !.phase = "absent"]} : cr' = [cr EXCEPT ![c] = x]
      BY <2>3, <3>2 DEF DeleteCR
    <3>4. cr' \in [CRs -> ApiObjects]
      <4>1. [cr[c] EXCEPT !.phase = "deleting", !.gen = g] \in ApiObjects
        BY <3>1, FieldsTyped DEF Phases
      <4>2. [cr[c] EXCEPT !.phase = "absent"] \in ApiObjects
        BY <3>1, FieldsTyped DEF Phases
      <4> QED
        BY <3>1, <3>3, <4>1, <4>2, WriteTyped
    <3> QED
      BY <2>3, <3>4 DEF DeleteCR, NoFault
  <2> QED
    BY <2>1, <2>2, <2>3 DEF UserStep
<1> QED
  BY <1>1 DEF UserStep, Typed, ControllerTypeOK, RuntimeTypeOK, ApiObjects

-----------------------------------------------------------------------------
(***************************************************************************)
(* The lemmas of RuntimeProofs, for the runtime of these controllers: Run  *)
(* defines again what ResourceController has of OperatorRuntime.           *)
(***************************************************************************)
Run == INSTANCE RuntimeProofs

\* The two are the same.
LEMMA SameState ==
  /\ \A S, T : Run!Objects(S, T) = Objects(S, T)
  /\ \A S, T : Run!RuntimeTypeOK(S, T) <=> RuntimeTypeOK(S, T)
  /\ \A S, T : Run!SnapshotsOK(S, T) <=> SnapshotsOK(S, T)
  /\ Run!NeverForgotten <=> NeverForgotten
  /\ Run!SoleOperator <=> SoleOperator
  /\ Run!RuntimeInit <=> RuntimeInit
BY DEF Run!Objects, Objects, Run!Phases, Phases, Run!RuntimeTypeOK, RuntimeTypeOK, Run!Wakes, Wakes,
  Run!SnapshotsOK, SnapshotsOK, Run!ServerOK, ServerOK, Run!CacheOK, CacheOK, Run!RunOK, RunOK,
  Run!Earlier, Earlier, Run!Held, Held, Run!SoleOperator, SoleOperator, Run!RuntimeInit, RuntimeInit,
  Run!NeverForgotten, NeverForgotten, Run!Exists, Exists

\* So are their steps.
LEMMA SameSteps ==
  ASSUME NEW o, NEW c
  PROVE  /\ Run!Deliver(o, c) <=> Deliver(o, c)
         /\ Run!Start(o, c) <=> Start(o, c)
         /\ \A l : Run!Goto(o, c, l) <=> Goto(o, c, l)
         /\ \A e : Run!Finish(o, c, e) <=> Finish(o, c, e)
         /\ \A st, e : Run!PatchStatus(o, c, st, e) <=> PatchStatus(o, c, st, e)
         /\ Run!AddFinalizer(o, c) <=> AddFinalizer(o, c)
         /\ Run!RemoveFinalizer(o, c) <=> RemoveFinalizer(o, c)
         /\ Run!Restart(o) <=> Restart(o)
         /\ \A s : Run!CreateCR(c, s) <=> CreateCR(c, s)
         /\ \A s : Run!EditCR(c, s) <=> EditCR(c, s)
         /\ Run!DeleteCR(c) <=> DeleteCR(c)
BY DEF Run!Deliver, Deliver, Run!Start, Start, Run!Goto, Goto, Run!Finish, Finish,
  Run!PatchStatus, PatchStatus, Run!AddFinalizer, AddFinalizer, Run!RemoveFinalizer, RemoveFinalizer,
  Run!Restart, Restart, Run!CreateCR, CreateCR, Run!EditCR, EditCR, Run!DeleteCR, DeleteCR,
  Run!Exists, Exists, Run!NoFault, NoFault, Run!Fault, Fault, Run!ErrorPolicy, ErrorPolicy,
  Run!IsConfigError, IsConfigError, Run!FinalizerEvent, FinalizerEvent

\* They are after a step, too.
LEMMA SameAfter ==
  /\ \A S, T : Run!SnapshotsOK(S, T)' <=> SnapshotsOK(S, T)'
  /\ Run!NeverForgotten' <=> NeverForgotten'
BY DEF Run!SnapshotsOK, SnapshotsOK, Run!ServerOK, ServerOK, Run!CacheOK, CacheOK,
  Run!RunOK, RunOK, Run!Earlier, Earlier, Run!Held, Held,
  Run!NeverForgotten, NeverForgotten, Run!Exists, Exists

-----------------------------------------------------------------------------
(***************************************************************************)
(* With one operator the steps of the controllers keep both: what a        *)
(* reconciliation may trust, and that there will be one.                   *)
(***************************************************************************)
RuntimeInv(S) == ControllerSnapshotsOK(S) /\ NeverForgotten

ApplyLabels(S) == S \union {"apply", "status"}

\* A controller is one that RuntimeProofs is about.
LEMMA FitsRuntime ==
  ASSUME NEW S, S \intersect ResourceSteps = {}
  PROVE  Run!Fits(Specs, ResourceStatus, ApplyLabels(S), CleanupSteps)
<1>1. Blank \in Run!Objects(Specs, ResourceStatus)
  BY BlankTyped, SameState DEF ApiObjects
<1>2. /\ Blank.phase = "absent" /\ Blank.finalizer = FALSE
      /\ Blank.uid = 0 /\ Blank.gen = 0 /\ Blank.status.observed = 0
  BY DEF Blank
<1>3. \A st \in ResourceStatus : st.observed \in Nat
  BY DEF ResourceStatus
<1> QED
  BY <1>1, <1>2, <1>3 DEF Run!Fits, ApplyLabels, CleanupSteps, ResourceSteps

\* What its lemmas ask of a state, and what they give of the next.
LEMMA RuntimeState ==
  ASSUME NEW S, S \intersect ResourceSteps = {}, Typed(S), RuntimeInv(S)
  PROVE  /\ Run!Fits(Specs, ResourceStatus, ApplyLabels(S), CleanupSteps)
         /\ Run!RuntimeTypeOK(Run!Objects(Specs, ResourceStatus), S \union ResourceSteps)
         /\ Run!SnapshotsOK(ApplyLabels(S), CleanupSteps)
         /\ Run!NeverForgotten
         /\ SoleOperator => Run!SoleOperator
         /\ Run!SnapshotsOK(ApplyLabels(S), CleanupSteps)' /\ Run!NeverForgotten'
              => RuntimeInv(S)'
<1>1. Run!SnapshotsOK(ApplyLabels(S), CleanupSteps) /\ Run!NeverForgotten
  BY SameState DEF RuntimeInv, ControllerSnapshotsOK, ApplyLabels
<1>2. Run!SnapshotsOK(ApplyLabels(S), CleanupSteps)' /\ Run!NeverForgotten'
        => RuntimeInv(S)'
  BY SameAfter DEF RuntimeInv, ControllerSnapshotsOK, ApplyLabels
<1> QED
  BY <1>1, <1>2, FitsRuntime, SameState DEF Typed, ControllerTypeOK

\* Nothing relies on anything at first.
LEMMA InitRuntime ==
  ASSUME NEW S, S \intersect ResourceSteps = {}, ControllerInit
  PROVE  RuntimeInv(S)
<1>1. Run!SnapshotsOK(ApplyLabels(S), CleanupSteps)
  BY FitsRuntime, SameState, Run!InitKeeps DEF ControllerInit
<1>2. Run!NeverForgotten
  BY SameState, Run!InitAwaits DEF ControllerInit, Blank
<1> QED
  BY <1>1, <1>2, SameState DEF RuntimeInv, ControllerSnapshotsOK, ApplyLabels

\* A reconciliation goes on as what it is.
LEMMA GotoRuntime ==
  ASSUME NEW S, S \intersect ResourceSteps = {}, Typed(S), RuntimeInv(S),
         SoleOperator, NEW o \in Operators, NEW c \in CRs, NEW l, Goto(o, c, l),
         \/ pc[o][c] \in ApplyLabels(S) /\ l \in ApplyLabels(S)
         \/ pc[o][c] \in CleanupSteps /\ l \in CleanupSteps
  PROVE  RuntimeInv(S)'
<1>1. l # "idle"
  BY DEF ApplyLabels, CleanupSteps, ResourceSteps
<1> QED
  BY <1>1, RuntimeState, SameSteps, Run!GotoKeeps, Run!GotoAwaits

\* A cleanup that fails leaves everything to the next.
LEMMA FailureRuntime ==
  ASSUME NEW S, S \intersect ResourceSteps = {}, Typed(S), RuntimeInv(S),
         SoleOperator, NEW o \in Operators, NEW c \in CRs, NEW e, CleanupFails(o, c, e)
  PROVE  RuntimeInv(S)'
<1>1. Run!Finish(o, c, ErrorPolicy(e)) /\ cr' = cr /\ ErrorPolicy(e) # "none"
  BY SameSteps DEF CleanupFails, ErrorPolicy
<1>2. Run!SnapshotsOK(ApplyLabels(S), CleanupSteps)'
  BY <1>1, RuntimeState, Run!FinishKeeps
<1>3. Run!NeverForgotten'
  <2>1. /\ Run!RuntimeTypeOK(Run!Objects(Specs, ResourceStatus), S \union ResourceSteps)
        /\ Run!NeverForgotten /\ Run!SoleOperator
    BY RuntimeState
  <2> QED
    BY <1>1, <2>1, Run!FinishAwaits
<1> QED
  BY <1>2, <1>3, RuntimeState

\* The status is that of the snapshot.
LEMMA StatusRuntime ==
  ASSUME NEW S, S \intersect ResourceSteps = {}, Typed(S), RuntimeInv(S),
         SoleOperator, NEW o \in Operators, NEW c \in CRs, UpdateStatus(o, c)
  PROVE  RuntimeInv(S)'
<1> DEFINE st == [message |-> result[o][c], observed |-> ObservedGeneration(o, c)]
<1>1. st \in ResourceStatus /\ st.observed = obj[o][c].gen
  BY DEF Typed, ControllerTypeOK, RuntimeTypeOK, Objects, ObservedGeneration, ResourceStatus
<1>2. /\ pc[o][c] \in ApplyLabels(S) /\ Run!PatchStatus(o, c, st, Requeue(result[o][c]))
      /\ Requeue(result[o][c]) # "none"
  BY SameSteps DEF UpdateStatus, ApplyLabels, Requeue, ErrorPolicy
<1> HIDE DEF st
<1> QED
  BY <1>1, <1>2, RuntimeState, Run!PatchStatusKeeps, Run!PatchStatusAwaits

\* The steps that concern the resource alone.
LEMMA OwnStepRuntime ==
  ASSUME NEW S, S \intersect ResourceSteps = {}, Typed(S), RuntimeInv(S),
         SoleOperator, NEW o \in Operators, NEW c \in CRs, OwnStep(o, c)
  PROVE  RuntimeInv(S)'
<1>1. CASE Start(o, c)
  BY <1>1, RuntimeState, SameSteps, Run!StartKeeps, Run!StartAwaits
<1>2. CASE AddFinalizer(o, c)
  BY <1>2, RuntimeState, SameSteps, Run!AddFinalizerKeeps, Run!AddFinalizerAwaits
<1>3. CASE RemoveFinalizer(o, c)
  BY <1>3, RuntimeState, SameSteps, Run!RemoveFinalizerKeeps, Run!RemoveFinalizerAwaits
<1>4. CASE Retained(o, c)
  BY <1>4, GotoRuntime DEF Retained, Proceed, CleanupSteps
<1> QED
  BY <1>1, <1>2, <1>3, <1>4, StatusRuntime DEF OwnStep

\* The watch, the process and the users.
LEMMA WatchRuntime ==
  ASSUME NEW S, S \intersect ResourceSteps = {}, Typed(S), RuntimeInv(S),
         SoleOperator, NEW o \in Operators, NEW c \in CRs, Watch(o, c)
  PROVE  RuntimeInv(S)'
BY RuntimeState, SameSteps, Run!DeliverKeeps, Run!DeliverAwaits DEF Watch

\* A restart.
LEMMA CrashRuntime ==
  ASSUME NEW S, S \intersect ResourceSteps = {}, Typed(S), RuntimeInv(S),
         SoleOperator, NEW o \in Operators, Crash(o)
  PROVE  RuntimeInv(S)'
BY RuntimeState, SameSteps, Run!RestartKeeps, Run!RestartAwaits DEF Crash

\* What users do.
LEMMA UserRuntime ==
  ASSUME NEW S, S \intersect ResourceSteps = {}, Typed(S), RuntimeInv(S),
         NEW c \in CRs, NEW specs, UserStep(c, specs)
  PROVE  RuntimeInv(S)'
<1>1. (\E s : Run!CreateCR(c, s) \/ Run!EditCR(c, s)) \/ Run!DeleteCR(c)
  BY SameSteps DEF UserStep
<1> QED
  BY <1>1, RuntimeState, Run!UserKeeps, Run!UserAwaits
-----------------------------------------------------------------------------
(***************************************************************************)
(* The moves of a reconciliation of c that come between its start and its  *)
(* end: it makes its next call or leaves one out, fails in apply(), which  *)
(* is reported, or in cleanup(), which ends it.                            *)
(***************************************************************************)
Onward(S, l, m) ==
  \/ l \in S \union {"apply"} /\ m \in S \union {"status"}
  \/ l = "cleanup" /\ m = "delete"
  \/ l = "delete" /\ m = "removeFinalizer"

Moves(S, o, c) ==
  /\ faults' \in Nat /\ meddled' \in BOOLEAN
  /\ \/ \E m : /\ Onward(S, pc[o][c], m) /\ Proceed(o, c, m)
               /\ m = "delete" => obj[o][c].spec.deletion = "Delete"
     \/ \E e \in {"config", "retry"} : pc[o][c] \in S \union {"apply"} /\ Fail(o, c, e)
     \/ \E e : CleanupFails(o, c, e)

\* They keep the types.
LEMMA MovesTyped ==
  ASSUME NEW S, Typed(S), NEW o \in Operators, NEW c \in CRs, Moves(S, o, c)
  PROVE  Typed(S)'
<1>1. ASSUME NEW m, Onward(S, pc[o][c], m), Proceed(o, c, m)
      PROVE  Typed(S)'
  <2>1. m \in S \union ResourceSteps
    BY <1>1 DEF Onward, ResourceSteps
  <2> QED
    BY <1>1, <2>1, ProceedTyped DEF Moves
<1>2. ASSUME NEW e \in {"config", "retry"}, Fail(o, c, e)
      PROVE  Typed(S)'
  BY <1>2, FailTyped DEF Moves
<1>3. ASSUME NEW e, CleanupFails(o, c, e)
      PROVE  Typed(S)'
  BY <1>3, CleanupFailsTyped DEF Moves
<1> QED
  BY <1>1, <1>2, <1>3 DEF Moves

\* They keep what the runtime relies on.
LEMMA MovesRuntime ==
  ASSUME NEW S, S \intersect ResourceSteps = {}, Typed(S), RuntimeInv(S),
         SoleOperator, NEW o \in Operators, NEW c \in CRs, Moves(S, o, c)
  PROVE  RuntimeInv(S)'
<1>1. ASSUME NEW m, Onward(S, pc[o][c], m), Proceed(o, c, m)
      PROVE  RuntimeInv(S)'
  <2>1. \/ pc[o][c] \in ApplyLabels(S) /\ m \in ApplyLabels(S)
        \/ pc[o][c] \in CleanupSteps /\ m \in CleanupSteps
    BY <1>1 DEF Onward, ApplyLabels, CleanupSteps
  <2> QED
    BY <1>1, <2>1, GotoRuntime DEF Proceed
<1>2. ASSUME NEW e, pc[o][c] \in S \union {"apply"}, Fail(o, c, e)
      PROVE  RuntimeInv(S)'
  BY <1>2, GotoRuntime DEF Fail, ApplyLabels
<1> QED
  BY <1>1, <1>2, FailureRuntime DEF Moves

\* Resolving the connection is one of them.
LEMMA ConnectMoves ==
  ASSUME NEW S, S \intersect ResourceSteps = {}, Typed(S), NEW o \in Operators, NEW c \in CRs,
         NEW l0 \in S \union {"apply"}, NEW l \in S, Connect(o, c, l0, l), NoMeddling
  PROVE  Moves(S, o, c)
<1>1. faults' \in Nat /\ meddled' \in BOOLEAN
  BY DEF Typed, ControllerTypeOK, RuntimeTypeOK, Connect, Query, Fault, NoFault, NoMeddling
<1>2. \/ Proceed(o, c, l)
      \/ \E e \in {"config", "retry"} : Fail(o, c, e)
  BY DEF Connect, Query
<1> QED
  BY <1>1, <1>2 DEF Connect, Moves, Onward, ResourceSteps

\* So is the beginning of a cleanup.
LEMMA CleanupMoves ==
  ASSUME NEW S, Typed(S), NEW o \in Operators, NEW c \in CRs, Cleanup(o, c), NoMeddling
  PROVE  Moves(S, o, c)
<1>1. faults' \in Nat /\ meddled' \in BOOLEAN
  BY DEF Typed, ControllerTypeOK, RuntimeTypeOK, Cleanup, Fault, NoFault, NoMeddling
<1>2. Proceed(o, c, "delete") \/ \E e : CleanupFails(o, c, e)
  BY DEF Cleanup
<1> QED
  BY <1>1, <1>2 DEF Cleanup, Moves, Onward

-----------------------------------------------------------------------------
(***************************************************************************)
(* A step of one reconciliation leaves every other one where it is.        *)
(***************************************************************************)
Stays(p, d) ==
  pc'[p][d] = pc[p][d] /\ obj'[p][d] = obj[p][d] /\ result'[p][d] = result[p][d]

\* The resource's own steps leave the other reconciliations alone,
LEMMA OwnStepStays ==
  ASSUME NEW S, Typed(S), NEW o \in Operators, NEW c \in CRs, OwnStep(o, c),
         NEW p \in Operators, NEW d \in CRs, p # o \/ d # c
  PROVE  Stays(p, d)
<1>0. /\ pc \in [Operators -> [CRs -> S \union ResourceSteps]]
      /\ obj \in [Operators -> [CRs -> ApiObjects]]
      /\ result \in [Operators -> [CRs -> Messages \union {None}]]
  BY DEF Typed, ControllerTypeOK, RuntimeTypeOK, ApiObjects
<1>1. CASE Start(o, c) /\ UNCHANGED result
  BY <1>0, <1>1 DEF Start, Stays
<1>2. ASSUME NEW e, Finish(o, c, e), UNCHANGED result \/ result' = [result EXCEPT ![o][c] = None]
      PROVE  Stays(p, d)
  BY <1>0, <1>2 DEF Finish, Stays
<1>3. CASE AddFinalizer(o, c) /\ UNCHANGED result
  BY <1>2, <1>3 DEF AddFinalizer
<1>4. CASE RemoveFinalizer(o, c) /\ UNCHANGED result
  BY <1>2, <1>4 DEF RemoveFinalizer
<1>5. CASE UpdateStatus(o, c)
  BY <1>2, <1>5 DEF UpdateStatus, PatchStatus
<1>6. CASE Retained(o, c)
  BY <1>0, <1>6 DEF Retained, Proceed, Goto, Stays
<1> QED
  BY <1>1, <1>3, <1>4, <1>5, <1>6 DEF OwnStep

\* as do the calls to the server.
LEMMA MovesStay ==
  ASSUME NEW S, Typed(S), NEW o \in Operators, NEW c \in CRs, Moves(S, o, c),
         NEW p \in Operators, NEW d \in CRs, p # o \/ d # c
  PROVE  Stays(p, d)
<1>0. /\ pc \in [Operators -> [CRs -> S \union ResourceSteps]]
      /\ obj \in [Operators -> [CRs -> ApiObjects]]
      /\ result \in [Operators -> [CRs -> Messages \union {None}]]
  BY DEF Typed, ControllerTypeOK, RuntimeTypeOK, ApiObjects
<1>1. ASSUME NEW m, Proceed(o, c, m)
      PROVE  Stays(p, d)
  BY <1>0, <1>1 DEF Proceed, Goto, Stays
<1>2. ASSUME NEW e, Fail(o, c, e)
      PROVE  Stays(p, d)
  BY <1>0, <1>2 DEF Fail, Goto, Stays
<1>3. ASSUME NEW e, CleanupFails(o, c, e)
      PROVE  Stays(p, d)
  BY <1>0, <1>3 DEF CleanupFails, Finish, Stays
<1> QED
  BY <1>1, <1>2, <1>3 DEF Moves

\* The watch and the users leave all of them; a restart ends them.
LEMMA OutsideStays ==
  ASSUME NEW S, Typed(S), NEW p \in Operators, NEW d \in CRs,
         \/ \E o \in Operators, c \in CRs : Watch(o, c)
         \/ \E o \in Operators : Crash(o)
         \/ \E c \in CRs : UserStep(c, Specs)
  PROVE  Stays(p, d) \/ pc'[p][d] = "idle"
<1>0. /\ pc \in [Operators -> [CRs -> S \union ResourceSteps]]
      /\ obj \in [Operators -> [CRs -> ApiObjects]]
      /\ result \in [Operators -> [CRs -> Messages \union {None}]]
  BY DEF Typed, ControllerTypeOK, RuntimeTypeOK, ApiObjects
<1>1. ASSUME NEW o \in Operators, Crash(o)
      PROVE  Stays(p, d) \/ pc'[p][d] = "idle"
  BY <1>0, <1>1 DEF Crash, Restart, Stays
<1>2. ASSUME NEW o, NEW c, Watch(o, c)
      PROVE  Stays(p, d)
  BY <1>2 DEF Watch, Deliver, Stays
<1>3. ASSUME NEW c, UserStep(c, Specs)
      PROVE  Stays(p, d)
  BY <1>3 DEF UserStep, CreateCR, EditCR, DeleteCR, Stays
<1> QED
  BY <1>1, <1>2, <1>3

\* A reconciliation's own steps lead to none of the calls of apply().
LEMMA OwnStepLeads ==
  ASSUME NEW S, Typed(S), NEW o \in Operators, NEW c \in CRs, OwnStep(o, c)
  PROVE  pc'[o][c] \in ResourceSteps \ {"status", "delete"}
<1>0. pc \in [Operators -> [CRs -> S \union ResourceSteps]]
  BY DEF Typed, ControllerTypeOK, RuntimeTypeOK
<1>1. CASE Start(o, c)
  BY <1>0, <1>1 DEF Start, FinalizerEvent, ResourceSteps
<1>2. ASSUME NEW e, Finish(o, c, e)
      PROVE  pc'[o][c] = "idle"
  BY <1>0, <1>2 DEF Finish
<1>3. CASE AddFinalizer(o, c)
  BY <1>2, <1>3 DEF AddFinalizer, ResourceSteps
<1>4. CASE RemoveFinalizer(o, c)
  BY <1>2, <1>4 DEF RemoveFinalizer, ResourceSteps
<1>5. CASE UpdateStatus(o, c)
  BY <1>2, <1>5 DEF UpdateStatus, PatchStatus, ResourceSteps
<1>6. CASE Retained(o, c)
  BY <1>0, <1>6 DEF Retained, Proceed, Goto, ResourceSteps
<1> QED
  BY <1>1, <1>3, <1>4, <1>5, <1>6 DEF OwnStep

-----------------------------------------------------------------------------
(***************************************************************************)
(* What these steps may make y of the server's copy x of a resource; the   *)
(* status is written by an apply() that ends.                              *)
(***************************************************************************)
Rewritten(x, y) ==
  \/ y = x
  \/ Run!Created(x, y) \/ Run!Edited(x, y) \/ Run!Deleted(x, y)
  \/ Run!Added(x, y) \/ Run!Released(x, y)

Report(o, c) == [message |-> result[o][c], observed |-> ObservedGeneration(o, c)]

Reports(o, c) ==
  /\ pc[o][c] = "status" /\ Exists(cr[c])
  /\ cr'[c] = [cr[c] EXCEPT !.status = Report(o, c)]

\* What a user's step makes of each.
LEMMA UserWrites ==
  ASSUME NEW S, Typed(S), NEW c \in CRs, NEW specs, UserStep(c, specs), NEW d \in CRs
  PROVE  /\ d # c => cr'[d] = cr[d]
         /\ d = c => \/ Run!Created(cr[d], cr'[d]) \/ Run!Edited(cr[d], cr'[d])
                     \/ Run!Deleted(cr[d], cr'[d])
<1>1. (\E s : Run!CreateCR(c, s) \/ Run!EditCR(c, s)) \/ Run!DeleteCR(c)
  BY SameSteps DEF UserStep
<1>2. Run!RuntimeTypeOK(Run!Objects(Specs, ResourceStatus), S \union ResourceSteps)
  BY SameState DEF Typed, ControllerTypeOK
<1>3. Blank \in Run!Objects(Specs, ResourceStatus) /\ ~Blank.finalizer
  BY BlankTyped, SameState DEF ApiObjects, Blank
<1> QED
  BY <1>1, <1>2, <1>3, Run!UserWrites DEF Run!OnlyAt

\* What a reconciliation's own step makes of each.
LEMMA OwnStepWrites ==
  ASSUME NEW S, Typed(S), NEW o \in Operators, NEW c \in CRs, OwnStep(o, c), NEW d \in CRs
  PROVE  /\ d # c => cr'[d] = cr[d]
         /\ d = c => \/ cr'[d] = cr[d]
                     \/ AddFinalizer(o, d) /\ Run!Added(cr[d], cr'[d])
                     \/ RemoveFinalizer(o, d) /\ Run!Released(cr[d], cr'[d])
                     \/ Reports(o, d)
<1>1. Run!RuntimeTypeOK(Run!Objects(Specs, ResourceStatus), S \union ResourceSteps)
  BY SameState DEF Typed, ControllerTypeOK
<1>2. CASE AddFinalizer(o, c)
  BY <1>1, <1>2, SameSteps, Run!AddFinalizerWrites DEF Run!OnlyAt
<1>3. CASE RemoveFinalizer(o, c)
  BY <1>1, <1>3, SameSteps, Run!RemoveFinalizerWrites DEF Run!OnlyAt
<1>4. CASE UpdateStatus(o, c)
  <2>1. Run!PatchStatus(o, c, Report(o, c), Requeue(result[o][c])) /\ pc[o][c] = "status"
    BY <1>4, SameSteps DEF UpdateStatus, Report
  <2>2. /\ \A e \in CRs \ {c} : cr'[e] = cr[e]
        /\ \/ cr'[c] = cr[c]
           \/ Exists(cr[c]) /\ cr'[c] = [cr[c] EXCEPT !.status = Report(o, c)]
    BY <1>1, <2>1, Run!PatchStatusWrites DEF Run!OnlyAt, Run!Exists, Exists
  <2> QED
    BY <2>1, <2>2 DEF Reports
<1> QED
  BY <1>2, <1>3, <1>4 DEF OwnStep, Start, Retained, Proceed, Goto

-----------------------------------------------------------------------------
(***************************************************************************)
(* Ready with the current generation is said of a resource that is held,   *)
(* and a running apply() then works on that very generation.               *)
(***************************************************************************)
Claims(x) ==
  /\ Exists(x) /\ x.status.message = "reconciled" /\ x.status.observed = x.gen

\* What ready means, of the record.
LEMMA ReadyClaims == \A c : Ready(c) <=> Claims(cr[c])
BY DEF Ready, Claims

\* A resource that claims to be ready has its finalizer and is not deleted.
LEMMA ClaimsHeld ==
  ASSUME NEW x \in ApiObjects, ServerOK(x), Claims(x)
  PROVE  Held(x)
<1>1. Blank.status.message # "reconciled"
  BY NoneIsNoMessage DEF Blank, Messages
<1>2. x.gen \in Nat /\ x.phase \in Phases /\ x.finalizer \in BOOLEAN
  BY DEF ApiObjects, Objects
<1> QED
  BY <1>1, <1>2 DEF ServerOK, Held, Claims, Exists, Phases

\* The snapshot of an apply() of the generation .status reports, or newer.
LEMMA ApplyCurrent ==
  ASSUME NEW S, Typed(S), ControllerSnapshotsOK(S), NEW o \in Operators, NEW c \in CRs,
         pc[o][c] \in ApplyLabels(S),
         cr[c].status.observed = cr[c].gen \/ obj[o][c].gen = cr[c].gen
  PROVE  obj[o][c].spec = cr[c].spec
<1>1. /\ cr[c].gen \in Nat /\ obj[o][c].gen \in Nat
      /\ cr[c].uid \in Nat /\ obj[o][c].uid \in Nat
  BY DEF Typed, ControllerTypeOK, RuntimeTypeOK, Objects
<1>2. RunOK(pc[o][c], obj[o][c], cache[o][c], cr[c], ApplyLabels(S), CleanupSteps)
  BY DEF ControllerSnapshotsOK, SnapshotsOK, ApplyLabels
<1> QED
  BY <1>1, <1>2 DEF RunOK, Earlier

\* Users and the finalizer patches make no claim: what claims, did before.
LEMMA RewrittenClaims ==
  ASSUME NEW x \in ApiObjects, NEW y, ServerOK(x), Rewritten(x, y), Claims(y)
  PROVE  Claims(x) /\ y.spec = x.spec
<1>1. Blank.status.message # "reconciled"
  BY NoneIsNoMessage DEF Blank, Messages
<1>2. x.gen \in Nat /\ x.status.observed \in Nat /\ x.status.observed <= x.gen
  BY DEF ServerOK, ApiObjects, Objects, ResourceStatus
<1> QED
  BY <1>1, <1>2 DEF Claims, Rewritten, Run!Created, Run!Edited, Run!Deleted, Run!Added,
                    Run!Released, Run!Exists, Exists

\* A claim that is reported is that of the snapshot's spec.
LEMMA ReportClaims ==
  ASSUME NEW S, S \intersect ResourceSteps = {}, Typed(S), ControllerSnapshotsOK(S),
         NEW o \in Operators, NEW c \in CRs, Reports(o, c)
  PROVE  /\ cr'[c].spec = cr[c].spec /\ cr'[c].phase = cr[c].phase
         /\ cr'[c].finalizer = cr[c].finalizer /\ cr'[c].uid = cr[c].uid
         /\ Claims(cr'[c]) => result[o][c] = "reconciled" /\ obj[o][c].spec = cr[c].spec
<1>1. cr[c] \in ApiObjects
  BY DEF Typed, ControllerTypeOK, RuntimeTypeOK, ApiObjects
<1>2. /\ cr'[c].spec = cr[c].spec /\ cr'[c].gen = cr[c].gen
      /\ cr'[c].phase = cr[c].phase /\ cr'[c].uid = cr[c].uid
      /\ cr'[c].finalizer = cr[c].finalizer
      /\ cr'[c].status.message = result[o][c]
      /\ cr'[c].status.observed = obj[o][c].gen
  BY <1>1 DEF Reports, Report, ObservedGeneration, ApiObjects, Objects
<1>3. pc[o][c] \in ApplyLabels(S)
  BY DEF Reports, ApplyLabels
<1> QED
  BY <1>2, <1>3, ApplyCurrent DEF Claims

-----------------------------------------------------------------------------
(***************************************************************************)
(* What a step leaves of the copies of a resource: x is the server's, k    *)
(* the store's, s and l are those of its reconciliation.                   *)
(***************************************************************************)
AllSteps(S) == ApplyLabels(S) \union CleanupSteps

Copies(d) ==
  \/ cr'[d] = cr[d]
  \/ Run!Created(cr[d], cr'[d]) \/ Run!Edited(cr[d], cr'[d])
  \/ Run!Deleted(cr[d], cr'[d]) \/ Run!Added(cr[d], cr'[d])
  \/ \E o \in Operators : pc[o][d] = "removeFinalizer" /\ Run!Released(cr[d], cr'[d])
  \/ \E o \in Operators : Reports(o, d)

Caches(p, d) == cache'[p][d] = cache[p][d] \/ cache'[p][d] = cr'[d]

Continues(S, p, d) ==
  \/ pc'[p][d] \notin AllSteps(S)
  \/ /\ obj'[p][d] = obj[p][d] /\ pc[p][d] \in AllSteps(S)
     /\ pc'[p][d] \in CleanupSteps => pc[p][d] \in CleanupSteps
     /\ pc'[p][d] = "delete" => pc[p][d] = "delete" \/ obj[p][d].spec.deletion = "Delete"
  \/ /\ obj'[p][d] = cache[p][d]
     /\ pc'[p][d] = FinalizerEvent(cache[p][d])

Leaves(S, p, d) == Copies(d) /\ Caches(p, d) /\ Continues(S, p, d)

\* A reconciliation that stays where it is goes on as it may,
LEMMA StayContinues ==
  ASSUME NEW S, NEW p, NEW d, Stays(p, d)
  PROVE  Continues(S, p, d)
BY DEF Stays, Continues

\* so it does in its own steps,
LEMMA OwnStepLeaves ==
  ASSUME NEW S, S \intersect ResourceSteps = {}, Typed(S), NEW o \in Operators, NEW c \in CRs,
         OwnStep(o, c), NEW p \in Operators, NEW d \in CRs
  PROVE  Leaves(S, p, d)
<1>0. /\ pc \in [Operators -> [CRs -> S \union ResourceSteps]]
      /\ obj \in [Operators -> [CRs -> ApiObjects]]
  BY DEF Typed, ControllerTypeOK, RuntimeTypeOK, ApiObjects
<1>1. Copies(d)
  BY OwnStepWrites DEF Copies, RemoveFinalizer
<1>2. cache' = cache
  BY DEF OwnStep, Start, AddFinalizer, RemoveFinalizer, UpdateStatus, PatchStatus, Finish,
         Retained, Proceed, Goto
<1>3. CASE p # o \/ d # c
  BY <1>1, <1>2, <1>3, OwnStepStays, StayContinues DEF Leaves, Caches
<1>4. Continues(S, o, c)
  <2>1. CASE Start(o, c)
    <3>1. FinalizerEvent(cache[o][c]) = "idle" \/ obj'[o][c] = cache[o][c]
      BY <1>0, <2>1 DEF Start
    <3>2. "idle" \notin AllSteps(S)
      BY DEF AllSteps, ApplyLabels, CleanupSteps, ResourceSteps
    <3>3. pc'[o][c] = FinalizerEvent(cache[o][c])
      BY <1>0, <2>1 DEF Start
    <3> QED
      BY <3>1, <3>2, <3>3 DEF Continues
  <2>2. ASSUME NEW e, Finish(o, c, e)
        PROVE  Continues(S, o, c)
    BY <1>0, <2>2 DEF Finish, Continues, AllSteps, ApplyLabels, CleanupSteps, ResourceSteps
  <2>3. CASE AddFinalizer(o, c)
    BY <2>2, <2>3 DEF AddFinalizer
  <2>4. CASE RemoveFinalizer(o, c)
    BY <2>2, <2>4 DEF RemoveFinalizer
  <2>5. CASE UpdateStatus(o, c)
    BY <2>2, <2>5 DEF UpdateStatus, PatchStatus
  <2>6. CASE Retained(o, c)
    BY <1>0, <2>6 DEF Retained, Proceed, Goto, Continues, AllSteps, CleanupSteps
  <2> QED
    BY <2>1, <2>3, <2>4, <2>5, <2>6 DEF OwnStep
<1> QED
  BY <1>1, <1>2, <1>3, <1>4 DEF Leaves, Caches

\* in its calls
LEMMA MovesLeave ==
  ASSUME NEW S, S \intersect ResourceSteps = {}, Typed(S), NEW o \in Operators, NEW c \in CRs,
         Moves(S, o, c), NEW p \in Operators, NEW d \in CRs
  PROVE  Leaves(S, p, d)
<1>0. /\ pc \in [Operators -> [CRs -> S \union ResourceSteps]]
      /\ obj \in [Operators -> [CRs -> ApiObjects]]
  BY DEF Typed, ControllerTypeOK, RuntimeTypeOK, ApiObjects
<1>1. cache' = cache /\ cr' = cr
  BY DEF Moves, Proceed, Fail, Goto, CleanupFails, Finish
<1>2. CASE p # o \/ d # c
  BY <1>1, <1>2, MovesStay, StayContinues DEF Leaves, Caches, Copies
<1>3. Continues(S, o, c)
  <2>1. ASSUME NEW m, Onward(S, pc[o][c], m), Proceed(o, c, m),
               m = "delete" => obj[o][c].spec.deletion = "Delete"
        PROVE  Continues(S, o, c)
    <3>1. pc'[o][c] = m /\ obj' = obj
      BY <1>0, <2>1 DEF Proceed, Goto
    <3>2. /\ pc[o][c] \in AllSteps(S)
          /\ m \in CleanupSteps => pc[o][c] \in CleanupSteps
      BY <2>1 DEF Onward, AllSteps, ApplyLabels, CleanupSteps, ResourceSteps
    <3> QED
      BY <2>1, <3>1, <3>2 DEF Continues
  <2>2. ASSUME NEW e, Fail(o, c, e), pc[o][c] \in S \union {"apply"}
        PROVE  Continues(S, o, c)
    BY <1>0, <2>2 DEF Fail, Goto, Continues, AllSteps, ApplyLabels, CleanupSteps
  <2>3. ASSUME NEW e, CleanupFails(o, c, e)
        PROVE  Continues(S, o, c)
    BY <1>0, <2>3 DEF CleanupFails, Finish, Continues, AllSteps, ApplyLabels, CleanupSteps,
                      ResourceSteps
  <2> QED
    BY <2>1, <2>2, <2>3 DEF Moves
<1> QED
  BY <1>1, <1>2, <1>3 DEF Leaves, Caches, Copies

\* and when others act.
LEMMA OutsideLeaves ==
  ASSUME NEW S, S \intersect ResourceSteps = {}, Typed(S), NEW p \in Operators, NEW d \in CRs,
         \/ \E o \in Operators, c \in CRs : Watch(o, c)
         \/ \E o \in Operators : Crash(o)
         \/ \E c \in CRs : UserStep(c, Specs)
  PROVE  Leaves(S, p, d)
<1>0. /\ cache \in [Operators -> [CRs -> ApiObjects]]
      /\ cr \in [CRs -> ApiObjects]
  BY DEF Typed, ControllerTypeOK, RuntimeTypeOK, ApiObjects
<1>1. ASSUME NEW o \in Operators, NEW c \in CRs, Watch(o, c)
      PROVE  Caches(p, d) /\ cr' = cr
  BY <1>0, <1>1 DEF Watch, Deliver, Caches
<1>2. ASSUME NEW o \in Operators, Crash(o)
      PROVE  Caches(p, d) /\ cr' = cr
  BY <1>0, <1>2 DEF Crash, Restart, Caches
<1>3. ASSUME NEW c \in CRs, UserStep(c, Specs)
      PROVE  Caches(p, d) /\ Copies(d)
  <2>1. cache' = cache
    BY <1>3 DEF UserStep, CreateCR, EditCR, DeleteCR
  <2> QED
    BY <1>3, <2>1, UserWrites DEF Caches, Copies
<1>4. Continues(S, p, d)
  BY OutsideStays, StayContinues
  DEF Continues, AllSteps, ApplyLabels, CleanupSteps, ResourceSteps
<1> QED
  BY <1>1, <1>2, <1>3, <1>4 DEF Leaves, Copies

-----------------------------------------------------------------------------
(***************************************************************************)
(* What is proved of deletions is proved for users who leave the name and  *)
(* the deletion policy of a resource alone as long as it exists, or its    *)
(* remote object was left to it: cleanup() of an older snapshot would look *)
(* elsewhere, or keep what is to go.                                       *)
(***************************************************************************)
Alike(x, y) == x.spec.name = y.spec.name /\ x.spec.deletion = y.spec.deletion

Holds(c) == cr[c].uid # 0 /\ (Exists(cr[c]) \/ Kept(c))

Steady == \A c \in CRs : Holds(c) => Alike(cr[c], cr'[c])

\* The copies of one incarnation are then alike.
Identical(S, p, d) ==
  /\ Exists(cr[d]) => cr[d].uid # 0
  /\ cache[p][d].uid = cr[d].uid => Alike(cache[p][d], cr[d])
  /\ pc[p][d] \in AllSteps(S) /\ obj[p][d].uid = cr[d].uid => Alike(obj[p][d], cr[d])
  /\ pc[p][d] = "delete" => obj[p][d].spec.deletion = "Delete"

IdentityInv(S) == \A p \in Operators, d \in CRs : Identical(S, p, d)

\* How the server's copy goes on.
LEMMA CopyIdentity ==
  ASSUME NEW S, S \intersect ResourceSteps = {}, Typed(S), ControllerSnapshotsOK(S), Steady,
         NEW d \in CRs, Copies(d), Exists(cr[d]) => cr[d].uid # 0
  PROVE  /\ Exists(cr'[d]) => cr'[d].uid # 0
         /\ cr'[d].uid = cr[d].uid => Alike(cr[d], cr'[d])
         /\ cr'[d].uid >= cr[d].uid
<1>0. cr[d].uid \in Nat
  BY DEF Typed, ControllerTypeOK, RuntimeTypeOK, Objects
<1>1. CASE \E o \in Operators : Reports(o, d)
  <2>1. cr'[d].spec = cr[d].spec /\ cr'[d].phase = cr[d].phase /\ cr'[d].uid = cr[d].uid
    BY <1>1, ReportClaims
  <2> QED
    BY <1>0, <2>1 DEF Exists, Alike
<1>2. CASE Run!Created(cr[d], cr'[d])
  BY <1>0, <1>2 DEF Run!Created
<1>3. CASE Run!Edited(cr[d], cr'[d])
  <2>1. Alike(cr[d], cr'[d])
    BY <1>3 DEF Run!Edited, Run!Exists, Steady, Holds, Exists
  <2> QED
    BY <1>0, <1>3, <2>1 DEF Run!Edited, Exists
<1>4. CASE \/ cr'[d] = cr[d] \/ Run!Deleted(cr[d], cr'[d])
           \/ Run!Added(cr[d], cr'[d]) \/ Run!Released(cr[d], cr'[d])
  BY <1>0, <1>4 DEF Run!Deleted, Run!Added, Run!Released, Alike, Exists
<1> QED
  BY <1>1, <1>2, <1>3, <1>4 DEF Copies

\* The copies stay alike,
LEMMA LeavesIdentical ==
  ASSUME NEW S, S \intersect ResourceSteps = {}, Typed(S), ControllerSnapshotsOK(S), Steady,
         NEW p \in Operators, NEW d \in CRs, Identical(S, p, d), Leaves(S, p, d)
  PROVE  Identical(S, p, d)'
<1>0. /\ cr[d].uid \in Nat /\ cache[p][d].uid \in Nat /\ obj[p][d].uid \in Nat
      /\ Copies(d) /\ Caches(p, d) /\ Continues(S, p, d)
  BY DEF Leaves, Typed, ControllerTypeOK, RuntimeTypeOK, Objects
<1>1. /\ Exists(cr'[d]) => cr'[d].uid # 0
      /\ cr'[d].uid = cr[d].uid => Alike(cr[d], cr'[d])
      /\ cr'[d].uid >= cr[d].uid
  BY <1>0, CopyIdentity DEF Identical
<1>2. /\ cache[p][d].uid <= cr[d].uid
      /\ pc[p][d] \in AllSteps(S) => obj[p][d].uid <= cr[d].uid
  <2>1. /\ CacheOK(cache[p][d], cr[d])
        /\ RunOK(pc[p][d], obj[p][d], cache[p][d], cr[d], ApplyLabels(S), CleanupSteps)
    BY DEF ControllerSnapshotsOK, SnapshotsOK, ApplyLabels
  <2> QED
    BY <1>0, <2>1 DEF CacheOK, RunOK, Earlier, AllSteps
<1>3. \A x : /\ x.uid \in Nat /\ x.uid <= cr[d].uid
             /\ x.uid = cr[d].uid => Alike(x, cr[d])
             /\ x.uid = cr'[d].uid
             => Alike(x, cr'[d])
  <2>1. cr'[d].uid \in Nat \/ cr'[d].uid = cr[d].uid + 1 \/ cr'[d].uid = cr[d].uid
    BY <1>0, ReportClaims DEF Copies, Run!Created, Run!Edited, Run!Deleted, Run!Added,
       Run!Released
  <2> QED
    BY <1>0, <1>1, <2>1 DEF Alike
<1>4. cache'[p][d].uid = cr'[d].uid => Alike(cache'[p][d], cr'[d])
  <2>1. CASE cache'[p][d] = cr'[d]
    BY <2>1 DEF Alike
  <2>2. CASE cache'[p][d] = cache[p][d]
    BY <1>0, <1>2, <1>3, <2>2 DEF Identical
  <2> QED
    BY <1>0, <2>1, <2>2 DEF Caches
<1>5. pc'[p][d] \in AllSteps(S) /\ obj'[p][d].uid = cr'[d].uid => Alike(obj'[p][d], cr'[d])
  BY <1>0, <1>2, <1>3 DEF Continues, Identical
<1>6. pc'[p][d] = "delete" => obj'[p][d].spec.deletion = "Delete"
  BY <1>0 DEF Continues, Identical, AllSteps, CleanupSteps, FinalizerEvent
<1> QED
  BY <1>1, <1>4, <1>5, <1>6 DEF Identical, Exists, Alike

\* as they are at first.
LEMMA InitIdentity ==
  ASSUME NEW S, S \intersect ResourceSteps = {}, ControllerInit
  PROVE  IdentityInv(S)
BY DEF ControllerInit, RuntimeInit, IdentityInv, Identical, Blank, Exists, AllSteps, ApplyLabels,
   CleanupSteps, ResourceSteps, Alike

-----------------------------------------------------------------------------
(***************************************************************************)
(* The remote object named n that was made for c stays in its hands: c     *)
(* carries the finalizer, or is one whose object is kept; it is not let go *)
(* unless the object is kept; and whoever cleans up will look for n.       *)
(***************************************************************************)
Owned(c, n) ==
  /\ cr[c].uid # 0 /\ cr[c].spec.name = n
  /\ cr[c].finalizer \/ Kept(c)
  /\ \A o \in Operators :
       /\ pc[o][c] = "removeFinalizer" => Kept(c)
       /\ cache[o][c].phase = "deleting" => Alike(cache[o][c], cr[c])
       /\ pc[o][c] \in CleanupSteps => Alike(obj[o][c], cr[c])

\* It does so until it is deleted.
LEMMA OwnedKept ==
  ASSUME NEW S, S \intersect ResourceSteps = {}, Typed(S), ControllerSnapshotsOK(S),
         Steady, NEW c \in CRs, NEW n, Owned(c, n), Copies(c), \A p \in Operators : Leaves(S, p, c),
         \A p \in Operators : pc'[p][c] = "removeFinalizer" => Kept(c)
  PROVE  Owned(c, n)'
<1>0. cr[c].uid \in Nat /\ ServerOK(cr[c]) /\ cr[c].phase \in Phases
  BY DEF Typed, ControllerTypeOK, RuntimeTypeOK, Objects, ControllerSnapshotsOK, SnapshotsOK
<1>1. Exists(cr[c]) => cr[c].uid # 0
  BY DEF Owned
<1>2. Holds(c) /\ Alike(cr[c], cr'[c])
  BY <1>0 DEF Owned, Holds, ServerOK, Exists, Steady
<1>3. cr'[c].uid # 0
  <2>1. cr'[c].uid >= cr[c].uid /\ cr[c].uid > 0
    BY <1>0, <1>1, CopyIdentity DEF Owned
  <2> QED
    BY <1>0, <2>1
<1>4. cr'[c].finalizer \/ Kept(c)'
  <2>1. CASE Kept(c)
    BY <1>2, <2>1 DEF Kept, Alike
  <2>2. CASE ~Kept(c)
    <3>1. cr[c].finalizer /\ Exists(cr[c]) /\ \A o \in Operators : pc[o][c] # "removeFinalizer"
      BY <1>0, <2>2 DEF Owned, ServerOK, Exists
    <3> QED
      BY <1>0, <3>1, ReportClaims
      DEF Copies, Run!Created, Run!Exists, Exists, Run!Edited, Run!Deleted, Run!Added
  <2> QED
    BY <2>1, <2>2
<1>5. ASSUME NEW p \in Operators
      PROVE  /\ pc'[p][c] = "removeFinalizer" => Kept(c)'
             /\ cache'[p][c].phase = "deleting" => Alike(cache'[p][c], cr'[c])
             /\ pc'[p][c] \in CleanupSteps => Alike(obj'[p][c], cr'[c])
  <2>0. Caches(p, c) /\ Continues(S, p, c)
    BY DEF Leaves
  <2>1. pc'[p][c] = "removeFinalizer" => Kept(c)'
    BY <1>2 DEF Kept, Alike
  <2>2. cache[p][c].phase = "deleting" => Alike(cache[p][c], cr'[c])
    BY <1>2 DEF Owned, Alike
  <2>3. cache'[p][c].phase = "deleting" => Alike(cache'[p][c], cr'[c])
    BY <2>0, <2>2 DEF Caches, Alike
  <2>4. pc'[p][c] \in CleanupSteps => Alike(obj'[p][c], cr'[c])
    <3>1. CASE obj'[p][c] = obj[p][c] /\ pc'[p][c] \in CleanupSteps /\ pc[p][c] \in CleanupSteps
      BY <1>2, <3>1 DEF Owned, Alike
    <3>2. CASE obj'[p][c] = cache[p][c] /\ pc'[p][c] = FinalizerEvent(cache[p][c])
      BY <2>2, <3>2 DEF FinalizerEvent, CleanupSteps
    <3> QED
      BY <2>0, <3>1, <3>2 DEF Continues, AllSteps
  <2> QED
    BY <2>1, <2>3, <2>4
<1> QED
  BY <1>2, <1>3, <1>4, <1>5 DEF Owned, Alike

\* It is in its hands when an apply() makes it.
LEMMA OwnedMade ==
  ASSUME NEW S, S \intersect ResourceSteps = {}, Typed(S), ControllerSnapshotsOK(S),
         IdentityInv(S), SoleOperator, NEW o \in Operators, NEW c \in CRs,
         pc[o][c] \in ApplyLabels(S), pc'[o][c] \notin CleanupSteps,
         cr'[c] = cr[c], cache'[o][c] = cache[o][c], NEW n, n = obj[o][c].spec.name
  PROVE  Owned(c, n)'
<1>0. /\ ServerOK(cr[c]) /\ CacheOK(cache[o][c], cr[c]) /\ cr[c].phase \in Phases
      /\ RunOK(pc[o][c], obj[o][c], cache[o][c], cr[c], ApplyLabels(S), CleanupSteps)
      /\ Identical(S, o, c)
  BY DEF Typed, ControllerTypeOK, RuntimeTypeOK, Objects, ControllerSnapshotsOK, SnapshotsOK,
     ApplyLabels, IdentityInv
<1>1. cr[c].finalizer /\ obj[o][c].uid = cr[c].uid /\ Exists(cr[c])
  BY <1>0 DEF RunOK, ServerOK, Exists
<1>2. cr[c].uid # 0 /\ Alike(obj[o][c], cr[c])
  BY <1>0, <1>1 DEF Identical, AllSteps
<1>3. cache[o][c].phase = "deleting" => Alike(cache[o][c], cr[c])
  BY <1>0, <1>1 DEF CacheOK, Identical
<1>4. \A p \in Operators : p = o
  BY DEF SoleOperator
<1>5. "removeFinalizer" \in CleanupSteps
  BY DEF CleanupSteps
<1>6. \A p \in Operators :
        /\ pc'[p][c] \notin CleanupSteps /\ pc'[p][c] # "removeFinalizer"
        /\ cache'[p][c].phase = "deleting" => Alike(cache'[p][c], cr'[c])
  BY <1>3, <1>4, <1>5
<1> QED
  BY <1>1, <1>2, <1>6 DEF Owned, Alike

-----------------------------------------------------------------------------
(***************************************************************************)
(* The resource as ManagedResources has it.                                *)
(***************************************************************************)
Turns(c) ==
  \/ Request(c) = "none" /\ Request(c)' = "wanted" /\ ~Ready(c)'
  \/ Request(c) # "none" /\ Request(c)' = Request(c) /\ ~Ready(c)'
  \/ /\ cr'[c].spec = cr[c].spec
     /\ \/ Request(c) = "wanted" /\ Request(c)' = "dying" /\ ~Ready(c)'
        \/ Request(c) = "wanted" /\ Request(c)' = "none" /\ ~Ready(c)' /\ ~cr[c].finalizer
        \/ /\ Request(c) = "dying" /\ Request(c)' = "none" /\ ~Ready(c) /\ ~Ready(c)'
           /\ \E o \in Operators : pc[o][c] = "removeFinalizer"
        \/ Request(c)' = Request(c) /\ (Ready(c)' => Request(c) = "wanted")

\* What its request is, by its phase.
LEMMA RequestIs ==
  ASSUME NEW c
  PROVE  /\ cr[c].phase = "absent" => Request(c) = "none"
         /\ cr[c].phase = "live" => Request(c) = "wanted"
         /\ cr[c].phase = "deleting" => Request(c) = "dying"
BY DEF Request

\* So it is after a step.
LEMMA RequestBecomes ==
  ASSUME NEW c
  PROVE  /\ cr'[c].phase = "absent" => Request(c)' = "none"
         /\ cr'[c].phase = "live" => Request(c)' = "wanted"
         /\ cr'[c].phase = "deleting" => Request(c)' = "dying"
BY DEF Request

\* How a write turns it.
LEMMA CopiesTurn ==
  ASSUME NEW S, S \intersect ResourceSteps = {}, Typed(S), Typed(S)', ControllerSnapshotsOK(S),
         ControllerSnapshotsOK(S)', NEW c \in CRs, Copies(c)
  PROVE  Turns(c)
<1> DEFINE x == cr[c]
           y == cr'[c]
<1>0. /\ x \in ApiObjects /\ y \in ApiObjects /\ ServerOK(x) /\ ServerOK(y)
      /\ x.phase \in Phases /\ y.phase \in Phases
      /\ x.gen \in Nat /\ x.status.observed \in Nat
  BY DEF Typed, ControllerTypeOK, RuntimeTypeOK, ApiObjects, Objects, ResourceStatus,
     ControllerSnapshotsOK, SnapshotsOK
<1>1. Blank.status.message # "reconciled"
  BY NoneIsNoMessage DEF Blank, Messages
<1>2. Ready(c)' => y.phase = "live"
  BY <1>0, ClaimsHeld DEF Ready, Claims, Held, Exists
<1>3. y.phase = x.phase => Request(c)' = Request(c)
  BY DEF Request
<1>4. CASE Run!Created(x, y)
  <2>1. ~Ready(c)'
    BY <1>1, <1>4 DEF Run!Created, Ready
  <2> QED
    BY <1>0, <1>4, <2>1, RequestIs, RequestBecomes DEF Run!Created, Run!Exists, Phases, Turns
<1>5. CASE Run!Edited(x, y)
  <2>1. ~Ready(c)'
    BY <1>0, <1>5 DEF Run!Edited, Ready, ServerOK
  <2> QED
    BY <1>0, <1>3, <1>5, <2>1, RequestIs DEF Run!Edited, Run!Exists, Phases, Turns
<1>6. CASE Run!Deleted(x, y)
  <2>1. ~Ready(c)'
    BY <1>2, <1>6 DEF Run!Deleted
  <2> QED
    BY <1>0, <1>6, <2>1, RequestIs, RequestBecomes DEF Run!Deleted, Turns
<1>7. CASE y = x \/ Run!Added(x, y) \/ \E o \in Operators : Reports(o, c)
  <2>1. y.phase = x.phase /\ y.spec = x.spec
    BY <1>7, ReportClaims DEF Run!Added
  <2> QED
    BY <1>2, <1>3, <2>1, RequestIs DEF Turns
<1>8. ASSUME NEW o \in Operators, pc[o][c] = "removeFinalizer", Run!Released(x, y)
      PROVE  Turns(c)
  <2>1. CASE x.phase = "deleting"
    <3>1. ~Ready(c) /\ ~Ready(c)'
      BY <1>0, <1>2, <1>8, <2>1 DEF Run!Released, ServerOK, Ready
    <3> QED
      BY <1>8, <2>1, <3>1, RequestIs, RequestBecomes DEF Run!Released, Turns
  <2>2. CASE x.phase # "deleting"
    <3>1. y.phase = x.phase /\ y.spec = x.spec
      BY <1>8, <2>2 DEF Run!Released
    <3> QED
      BY <1>2, <1>3, <3>1, RequestIs DEF Turns
  <2> QED
    BY <2>1, <2>2
<1> QED
  BY <1>4, <1>5, <1>6, <1>7, <1>8 DEF Copies
=============================================================================
