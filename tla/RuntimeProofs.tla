---------------------------- MODULE RuntimeProofs ----------------------------
(***************************************************************************)
(* What the proofs about every controller rest on: with one operator, the  *)
(* steps of the runtime keep SnapshotsOK, whatever objects a controller    *)
(* watches, whatever the labels of the calls of its apply() and cleanup(). *)
(***************************************************************************)
EXTENDS OperatorRuntime, TLAPS

(***************************************************************************)
(* What the lemmas ask of a controller: Blank is the object nobody created,*)
(* a status has the generation it reports, and a label belongs to apply()  *)
(* or to cleanup() or to neither.                                          *)
(***************************************************************************)
Fits(specs, statuses, apply, cleanup) ==
  /\ Blank \in Objects(specs, statuses)
  /\ Blank.phase = "absent" /\ ~Blank.finalizer
  /\ Blank.uid = 0 /\ Blank.gen = 0 /\ Blank.status.observed = 0
  /\ \A st \in statuses : st.observed \in Nat
  /\ apply \intersect cleanup = {}
  /\ {"idle", "addFinalizer"} \intersect (apply \union cleanup) = {}
  /\ "apply" \in apply /\ {"cleanup", "removeFinalizer"} \subseteq cleanup

\* All that SnapshotsOK says of one resource at one operator.
OneOK(x, k, s, l, apply, cleanup) ==
  ServerOK(x) /\ CacheOK(k, x) /\ RunOK(l, s, k, x, apply, cleanup)

-----------------------------------------------------------------------------
(***************************************************************************)
(* What becomes of a resource, one lemma for each way to write it.         *)
(***************************************************************************)
\* Creating a resource: nothing relies on the one that was there before.
LEMMA CreateOK ==
  ASSUME NEW specs, NEW statuses, NEW apply, NEW cleanup,
         Fits(specs, statuses, apply, cleanup),
         NEW x \in Objects(specs, statuses), NEW k \in Objects(specs, statuses),
         NEW s \in Objects(specs, statuses), NEW l,
         OneOK(x, k, s, l, apply, cleanup), NEW spec, ~Exists(x)
  PROVE  OneOK([Blank EXCEPT !.phase = "live", !.gen = 1, !.uid = x.uid + 1, !.spec = spec],
               k, s, l, apply, cleanup)
<1> DEFINE y == [Blank EXCEPT !.phase = "live", !.gen = 1, !.uid = x.uid + 1, !.spec = spec]
<1>1. /\ y.phase = "live" /\ y.finalizer = FALSE /\ y.gen = 1 /\ y.uid = x.uid + 1
      /\ y.status = Blank.status /\ y.status.observed = 0
  BY DEF Fits, Objects
<1>2. /\ x.uid \in Nat /\ k.uid \in Nat /\ s.uid \in Nat
      /\ x.gen \in Nat /\ k.gen \in Nat /\ s.gen \in Nat
      /\ x.status.observed \in Nat
  BY DEF Fits, Objects
<1> HIDE DEF y
<1>3. ~x.finalizer /\ x.phase = "absent"
  BY DEF OneOK, ServerOK, Exists
<1>4. ServerOK(y)
  BY <1>1, <1>2, <1>3 DEF OneOK, ServerOK, Held
<1>5. CacheOK(k, y)
  BY <1>1, <1>2, <1>3 DEF OneOK, CacheOK, Earlier, Held
<1>6. RunOK(l, s, k, y, apply, cleanup)
  BY <1>1, <1>2, <1>3 DEF OneOK, RunOK, Earlier, Held
<1> QED
  BY <1>4, <1>5, <1>6 DEF OneOK, y

\* Editing its spec: what was read of it is an earlier generation.
LEMMA EditOK ==
  ASSUME NEW specs, NEW statuses, NEW apply, NEW cleanup,
         Fits(specs, statuses, apply, cleanup),
         NEW x \in Objects(specs, statuses), NEW k \in Objects(specs, statuses),
         NEW s \in Objects(specs, statuses), NEW l,
         OneOK(x, k, s, l, apply, cleanup), NEW spec, Exists(x)
  PROVE  OneOK([x EXCEPT !.spec = spec, !.gen = x.gen + 1],
               k, s, l, apply, cleanup)
<1> DEFINE y == [x EXCEPT !.spec = spec, !.gen = x.gen + 1]
<1>1. /\ y.phase = x.phase /\ y.finalizer = x.finalizer /\ y.gen = x.gen + 1 /\ y.uid = x.uid
      /\ y.status = x.status
  BY DEF Fits, Objects
<1>2. /\ x.uid \in Nat /\ k.uid \in Nat /\ s.uid \in Nat
      /\ x.gen \in Nat /\ k.gen \in Nat /\ s.gen \in Nat
      /\ x.status.observed \in Nat
  BY DEF Fits, Objects
<1> HIDE DEF y
<1>4. ServerOK(y)
  BY <1>1, <1>2 DEF OneOK, ServerOK, Held
<1>5. CacheOK(k, y)
  BY <1>1, <1>2 DEF OneOK, CacheOK, Earlier, Held
<1>6. RunOK(l, s, k, y, apply, cleanup)
  BY <1>1, <1>2 DEF OneOK, RunOK, Earlier, Held
<1> QED
  BY <1>4, <1>5, <1>6 DEF OneOK, y

\* Deleting one with the finalizer: every apply() under way is out of date.
LEMMA DyingOK ==
  ASSUME NEW specs, NEW statuses, NEW apply, NEW cleanup,
         Fits(specs, statuses, apply, cleanup),
         NEW x \in Objects(specs, statuses), NEW k \in Objects(specs, statuses),
         NEW s \in Objects(specs, statuses), NEW l,
         OneOK(x, k, s, l, apply, cleanup), Held(x)
  PROVE  OneOK([x EXCEPT !.phase = "deleting", !.gen = x.gen + 1],
               k, s, l, apply, cleanup)
<1> DEFINE y == [x EXCEPT !.phase = "deleting", !.gen = x.gen + 1]
<1>1. /\ y.phase = "deleting" /\ y.finalizer = x.finalizer /\ y.gen = x.gen + 1
      /\ y.uid = x.uid /\ y.status = x.status /\ y.spec = x.spec
  BY DEF Fits, Objects
<1>2. /\ x.uid \in Nat /\ k.uid \in Nat /\ s.uid \in Nat
      /\ x.gen \in Nat /\ k.gen \in Nat /\ s.gen \in Nat
      /\ x.status.observed \in Nat
  BY DEF Fits, Objects
<1> HIDE DEF y
<1>4. ServerOK(y)
  BY <1>1, <1>2 DEF OneOK, ServerOK, Held
<1>5. CacheOK(k, y)
  BY <1>1, <1>2 DEF OneOK, CacheOK, Earlier, Held
<1>6. RunOK(l, s, k, y, apply, cleanup)
  BY <1>1, <1>2 DEF OneOK, RunOK, Earlier, Held
<1> QED
  BY <1>4, <1>5, <1>6 DEF OneOK, y

\* Deleting one without: no apply() is under way.
LEMMA DroppedOK ==
  ASSUME NEW specs, NEW statuses, NEW apply, NEW cleanup,
         Fits(specs, statuses, apply, cleanup),
         NEW x \in Objects(specs, statuses), NEW k \in Objects(specs, statuses),
         NEW s \in Objects(specs, statuses), NEW l,
         OneOK(x, k, s, l, apply, cleanup), x.phase = "live", ~x.finalizer
  PROVE  OneOK([x EXCEPT !.phase = "absent"],
               k, s, l, apply, cleanup)
<1> DEFINE y == [x EXCEPT !.phase = "absent"]
<1>1. /\ y.phase = "absent" /\ y.finalizer = x.finalizer /\ y.gen = x.gen
      /\ y.uid = x.uid /\ y.status = x.status /\ y.spec = x.spec
  BY DEF Fits, Objects
<1>2. /\ x.uid \in Nat /\ k.uid \in Nat /\ s.uid \in Nat
      /\ x.gen \in Nat /\ k.gen \in Nat /\ s.gen \in Nat
      /\ x.status.observed \in Nat
  BY DEF Fits, Objects
<1> HIDE DEF y
<1>4. ServerOK(y)
  BY <1>1, <1>2 DEF OneOK, ServerOK, Held
<1>5. CacheOK(k, y)
  BY <1>1, <1>2 DEF OneOK, CacheOK, Earlier, Held
<1>6. RunOK(l, s, k, y, apply, cleanup)
  BY <1>1, <1>2 DEF OneOK, RunOK, Earlier, Held
<1> QED
  BY <1>4, <1>5, <1>6 DEF OneOK, y

-----------------------------------------------------------------------------
(***************************************************************************)
(* What becomes of the operator's view of it.                              *)
(***************************************************************************)
\* A watch event brings the store up to date.
LEMMA DeliverOK ==
  ASSUME NEW specs, NEW statuses, NEW apply, NEW cleanup,
         Fits(specs, statuses, apply, cleanup),
         NEW x \in Objects(specs, statuses), NEW k \in Objects(specs, statuses),
         NEW s \in Objects(specs, statuses), NEW l,
         OneOK(x, k, s, l, apply, cleanup)
  PROVE  OneOK(x, x, s, l, apply, cleanup)
<1>1. /\ x.uid \in Nat /\ k.uid \in Nat /\ s.uid \in Nat
      /\ x.gen \in Nat /\ k.gen \in Nat /\ s.gen \in Nat
      /\ x.status.observed \in Nat
  BY DEF Fits, Objects
<1>2. CacheOK(x, x)
  BY <1>1 DEF OneOK, ServerOK, CacheOK, Earlier, Held
<1>3. RunOK(l, s, x, x, apply, cleanup)
  BY <1>1 DEF OneOK, ServerOK, CacheOK, RunOK, Earlier, Held
<1> QED
  BY <1>2, <1>3 DEF OneOK

\* A reconciliation goes on as what it is.
LEMMA GotoOK ==
  ASSUME NEW specs, NEW statuses, NEW apply, NEW cleanup,
         Fits(specs, statuses, apply, cleanup),
         NEW x \in Objects(specs, statuses), NEW k \in Objects(specs, statuses),
         NEW s \in Objects(specs, statuses), NEW l,
         OneOK(x, k, s, l, apply, cleanup),
         NEW m, (l \in apply /\ m \in apply) \/ (l \in cleanup /\ m \in cleanup)
  PROVE  OneOK(x, k, s, m, apply, cleanup)
BY DEF OneOK, RunOK, Fits

\* A reconciliation that is over relies on nothing.
LEMMA IdleOK ==
  ASSUME NEW specs, NEW statuses, NEW apply, NEW cleanup,
         Fits(specs, statuses, apply, cleanup),
         NEW x \in Objects(specs, statuses), NEW k \in Objects(specs, statuses),
         NEW s \in Objects(specs, statuses), NEW l,
         OneOK(x, k, s, l, apply, cleanup),
         NEW t
  PROVE  OneOK(x, k, t, "idle", apply, cleanup)
BY DEF OneOK, RunOK, Fits

\* One that starts takes its promise from the store.
LEMMA StartOK ==
  ASSUME NEW specs, NEW statuses, NEW apply, NEW cleanup,
         Fits(specs, statuses, apply, cleanup),
         NEW x \in Objects(specs, statuses), NEW k \in Objects(specs, statuses),
         NEW s \in Objects(specs, statuses), NEW l,
         OneOK(x, k, s, l, apply, cleanup)
  PROVE  OneOK(x, k, k, FinalizerEvent(k), apply, cleanup)
<1>1. k.gen \in Nat
  BY DEF Objects
<1>2. /\ FinalizerEvent(k) \in apply => Held(k)
      /\ FinalizerEvent(k) \in cleanup => k.phase = "deleting"
      /\ FinalizerEvent(k) = "addFinalizer" => k.phase = "live"
  BY DEF FinalizerEvent, Held, Fits
<1>3. RunOK(FinalizerEvent(k), k, k, x, apply, cleanup)
  BY <1>1, <1>2 DEF OneOK, CacheOK, RunOK, Held
<1> QED
  BY <1>3 DEF OneOK

-----------------------------------------------------------------------------
(***************************************************************************)
(* What becomes of both when a sole operator writes the resource.          *)
(***************************************************************************)
\* The finalizer is added while the store shows nothing that is deleted.
LEMMA AddedOK ==
  ASSUME NEW specs, NEW statuses, NEW apply, NEW cleanup,
         Fits(specs, statuses, apply, cleanup),
         NEW x \in Objects(specs, statuses), NEW k \in Objects(specs, statuses),
         NEW s \in Objects(specs, statuses), NEW l,
         OneOK(x, k, s, l, apply, cleanup),
         l = "addFinalizer", x.phase = "live", ~x.finalizer
  PROVE  OneOK([x EXCEPT !.finalizer = TRUE], k, Blank, "idle", apply, cleanup)
<1> DEFINE y == [x EXCEPT !.finalizer = TRUE]
<1>1. /\ y.phase = "live" /\ y.finalizer = TRUE /\ y.gen = x.gen /\ y.uid = x.uid
      /\ y.status = x.status /\ y.spec = x.spec
  BY DEF Objects
<1> HIDE DEF y
<1>2. k.phase # "deleting" /\ ~Held(k)
  BY DEF OneOK, CacheOK, RunOK
<1>3. ServerOK(y)
  BY <1>1 DEF OneOK, ServerOK
<1>4. CacheOK(k, y)
  BY <1>1, <1>2 DEF OneOK, CacheOK, Earlier
<1>5. RunOK("idle", Blank, k, y, apply, cleanup)
  BY DEF RunOK, Fits
<1> QED
  BY <1>3, <1>4, <1>5 DEF OneOK, y

\* The finalizer is removed when nothing relies on it.
LEMMA RemovedOK ==
  ASSUME NEW specs, NEW statuses, NEW apply, NEW cleanup,
         Fits(specs, statuses, apply, cleanup),
         NEW x \in Objects(specs, statuses), NEW k \in Objects(specs, statuses),
         NEW s \in Objects(specs, statuses), NEW l,
         OneOK(x, k, s, l, apply, cleanup),
         l = "removeFinalizer", x.finalizer
  PROVE  OneOK([x EXCEPT !.finalizer = FALSE, !.phase = IF x.phase = "deleting" THEN "absent" ELSE x.phase],
               k, Blank, "idle", apply, cleanup)
<1> DEFINE y == [x EXCEPT !.finalizer = FALSE,
                          !.phase = IF x.phase = "deleting" THEN "absent" ELSE x.phase]
<1>1. ~Held(x) /\ ~Held(k) /\ x.phase = "deleting"
  BY DEF OneOK, ServerOK, RunOK, Fits, Objects, Phases, Held
<1>2. /\ y.phase = "absent" /\ y.finalizer = FALSE /\ y.gen = x.gen /\ y.uid = x.uid
      /\ y.status = x.status /\ y.spec = x.spec
  BY <1>1 DEF Objects
<1>3. /\ x.uid \in Nat /\ k.uid \in Nat /\ s.uid \in Nat
      /\ x.gen \in Nat /\ k.gen \in Nat /\ s.gen \in Nat
      /\ x.status.observed \in Nat
  BY DEF Fits, Objects
<1> HIDE DEF y
<1>4. ServerOK(y)
  BY <1>2 DEF OneOK, ServerOK
<1>5. CacheOK(k, y)
  BY <1>1, <1>2 DEF OneOK, CacheOK, Earlier, Held
<1>6. RunOK("idle", Blank, k, y, apply, cleanup)
  BY DEF RunOK, Fits
<1> QED
  BY <1>4, <1>5, <1>6 DEF OneOK, y

\* .status is given the generation of a snapshot that apply() works on.
LEMMA ReportedOK ==
  ASSUME NEW specs, NEW statuses, NEW apply, NEW cleanup,
         Fits(specs, statuses, apply, cleanup),
         NEW x \in Objects(specs, statuses), NEW k \in Objects(specs, statuses),
         NEW s \in Objects(specs, statuses), NEW l,
         OneOK(x, k, s, l, apply, cleanup),
         l \in apply, NEW st \in statuses, st.observed = s.gen
  PROVE  OneOK([x EXCEPT !.status = st], k, Blank, "idle", apply, cleanup)
<1> DEFINE y == [x EXCEPT !.status = st]
<1>1. /\ y.phase = x.phase /\ y.finalizer = x.finalizer /\ y.gen = x.gen /\ y.uid = x.uid
      /\ y.status = st /\ y.spec = x.spec
  BY DEF Objects
<1>2. /\ x.uid \in Nat /\ k.uid \in Nat /\ s.uid \in Nat
      /\ x.gen \in Nat /\ k.gen \in Nat /\ s.gen \in Nat
      /\ x.status.observed \in Nat
  BY DEF Fits, Objects
<1> HIDE DEF y
<1>3. /\ Held(s) /\ x.finalizer /\ s.uid = x.uid /\ Earlier(s, x)
      /\ Held(k) => s.gen <= k.gen
  BY DEF OneOK, RunOK
<1>4. ServerOK(y)
  BY <1>1, <1>2, <1>3 DEF OneOK, ServerOK, Earlier, Held
<1>5. CacheOK(k, y)
  BY <1>1, <1>2, <1>3 DEF OneOK, CacheOK, Earlier, Held
<1>6. RunOK("idle", Blank, k, y, apply, cleanup)
  BY DEF RunOK, Fits
<1> QED
  BY <1>4, <1>5, <1>6 DEF OneOK, y

-----------------------------------------------------------------------------
(***************************************************************************)
(* The steps of the runtime.                                               *)
(***************************************************************************)
\* What SnapshotsOK says, and what it takes to keep it in a step on c.
LEMMA EachOK ==
  ASSUME NEW specs, NEW statuses, NEW apply, NEW cleanup, NEW steps,
         Fits(specs, statuses, apply, cleanup),
         RuntimeTypeOK(Objects(specs, statuses), steps),
         SnapshotsOK(apply, cleanup),
         NEW o \in Operators, NEW c \in CRs
  PROVE  /\ OneOK(cr[c], cache[o][c], obj[o][c], pc[o][c], apply, cleanup)
         /\ cr[c] \in Objects(specs, statuses)
         /\ cache[o][c] \in Objects(specs, statuses)
         /\ obj[o][c] \in Objects(specs, statuses)
BY DEF SnapshotsOK, OneOK, RuntimeTypeOK

\* A step on c keeps SnapshotsOK if it keeps what that says of c.
LEMMA StepOK ==
  ASSUME NEW apply, NEW cleanup, SnapshotsOK(apply, cleanup), NEW c \in CRs,
         \A d \in CRs \ {c} :
           /\ cr'[d] = cr[d]
           /\ \A o \in Operators :
                cache'[o][d] = cache[o][d] /\ obj'[o][d] = obj[o][d] /\ pc'[o][d] = pc[o][d],
         ServerOK(cr'[c]),
         \A o \in Operators :
           OneOK(cr'[c], cache'[o][c], obj'[o][c], pc'[o][c], apply, cleanup)
  PROVE  SnapshotsOK(apply, cleanup)'
<1> SUFFICES ASSUME NEW d \in CRs
             PROVE  /\ ServerOK(cr'[d])
                    /\ \A o \in Operators :
                         /\ CacheOK(cache'[o][d], cr'[d])
                         /\ RunOK(pc'[o][d], obj'[o][d], cache'[o][d], cr'[d], apply, cleanup)
  BY DEF SnapshotsOK
<1>1. CASE d = c
  BY <1>1 DEF OneOK
<1>2. CASE d # c
  BY <1>2 DEF SnapshotsOK
<1> QED
  BY <1>1, <1>2

\* A sole operator's step on c is one on c.
LEMMA SoleStepOK ==
  ASSUME NEW apply, NEW cleanup, SnapshotsOK(apply, cleanup), SoleOperator,
         NEW o \in Operators, NEW c \in CRs,
         \A d \in CRs \ {c} :
           /\ cr'[d] = cr[d] /\ cache'[o][d] = cache[o][d]
           /\ obj'[o][d] = obj[o][d] /\ pc'[o][d] = pc[o][d],
         OneOK(cr'[c], cache'[o][c], obj'[o][c], pc'[o][c], apply, cleanup)
  PROVE  SnapshotsOK(apply, cleanup)'
<1>1. \A p \in Operators : p = o
  BY DEF SoleOperator
<1>2. ServerOK(cr'[c])
  BY DEF OneOK
<1> QED
  BY <1>1, <1>2, StepOK

\* The server keeps a resource right however many operators watch it.
LEMMA WriteOK ==
  ASSUME NEW specs, NEW statuses, NEW apply, NEW cleanup, NEW steps,
         Fits(specs, statuses, apply, cleanup),
         RuntimeTypeOK(Objects(specs, statuses), steps),
         SnapshotsOK(apply, cleanup),
         NEW c \in CRs, UNCHANGED <<cache, obj, pc>>, NEW y, cr' = [cr EXCEPT ![c] = y],
         \A k, s \in Objects(specs, statuses) : \A l :
           OneOK(cr[c], k, s, l, apply, cleanup) => OneOK(y, k, s, l, apply, cleanup)
  PROVE  SnapshotsOK(apply, cleanup)'
<1>1. cr'[c] = y /\ \A d \in CRs \ {c} : cr'[d] = cr[d]
  BY DEF RuntimeTypeOK
<1>2. ServerOK(y)
  <2>1. Blank \in Objects(specs, statuses) /\ cr[c] \in Objects(specs, statuses)
    BY DEF Fits, RuntimeTypeOK
  <2>2. OneOK(cr[c], cr[c], Blank, "idle", apply, cleanup)
    <3>1. cr[c].gen \in Nat /\ cr[c].uid \in Nat /\ cr[c].status.observed \in Nat
      BY <2>1 DEF Fits, Objects
    <3>2. ServerOK(cr[c])
      BY DEF SnapshotsOK
    <3>3. CacheOK(cr[c], cr[c])
      BY <3>1, <3>2 DEF ServerOK, CacheOK, Earlier, Held
    <3>4. RunOK("idle", Blank, cr[c], cr[c], apply, cleanup)
      BY DEF RunOK, Fits
    <3> QED
      BY <3>2, <3>3, <3>4 DEF OneOK
  <2> QED
    BY <2>1, <2>2 DEF OneOK
<1>3. \A o \in Operators : OneOK(y, cache[o][c], obj[o][c], pc[o][c], apply, cleanup)
  BY EachOK
<1> QED
  BY <1>1, <1>2, <1>3, StepOK

\* What users do.
LEMMA UserKeeps ==
  ASSUME NEW specs, NEW statuses, NEW apply, NEW cleanup, NEW steps,
         Fits(specs, statuses, apply, cleanup),
         RuntimeTypeOK(Objects(specs, statuses), steps),
         SnapshotsOK(apply, cleanup),
         NEW c \in CRs, (\E spec : CreateCR(c, spec) \/ EditCR(c, spec)) \/ DeleteCR(c)
  PROVE  SnapshotsOK(apply, cleanup)'
<1>1. cr \in [CRs -> Objects(specs, statuses)] /\ cr[c] \in Objects(specs, statuses)
  BY DEF RuntimeTypeOK
<1>2. UNCHANGED <<cache, obj, pc>>
  BY DEF CreateCR, EditCR, DeleteCR
<1>3. ASSUME NEW spec, CreateCR(c, spec)
      PROVE  SnapshotsOK(apply, cleanup)'
  <2> DEFINE y == [Blank EXCEPT !.phase = "live", !.gen = 1, !.uid = cr[c].uid + 1, !.spec = spec]
  <2>1. cr' = [cr EXCEPT ![c] = y] /\ ~Exists(cr[c])
    BY <1>3 DEF CreateCR
  <2>2. \A k, s \in Objects(specs, statuses) : \A l :
          OneOK(cr[c], k, s, l, apply, cleanup) => OneOK(y, k, s, l, apply, cleanup)
    BY <1>1, <2>1, CreateOK
  <2> HIDE DEF y
  <2> QED
    BY <1>2, <2>1, <2>2, WriteOK
<1>4. ASSUME NEW spec, EditCR(c, spec)
      PROVE  SnapshotsOK(apply, cleanup)'
  <2> DEFINE y == [cr[c] EXCEPT !.spec = spec, !.gen = cr[c].gen + 1]
  <2>1. cr' = [cr EXCEPT ![c] = y] /\ Exists(cr[c])
    BY <1>1, <1>4 DEF EditCR, Objects
  <2>2. \A k, s \in Objects(specs, statuses) : \A l :
          OneOK(cr[c], k, s, l, apply, cleanup) => OneOK(y, k, s, l, apply, cleanup)
    BY <1>1, <2>1, EditOK
  <2> HIDE DEF y
  <2> QED
    BY <1>2, <2>1, <2>2, WriteOK
<1>5. CASE DeleteCR(c) /\ cr[c].finalizer
  <2> DEFINE y == [cr[c] EXCEPT !.phase = "deleting", !.gen = cr[c].gen + 1]
  <2>1. cr' = [cr EXCEPT ![c] = y] /\ Held(cr[c])
    BY <1>1, <1>5 DEF DeleteCR, Objects, Held
  <2>2. \A k, s \in Objects(specs, statuses) : \A l :
          OneOK(cr[c], k, s, l, apply, cleanup) => OneOK(y, k, s, l, apply, cleanup)
    BY <1>1, <2>1, DyingOK
  <2> HIDE DEF y
  <2> QED
    BY <1>2, <2>1, <2>2, WriteOK
<1>6. CASE DeleteCR(c) /\ ~cr[c].finalizer
  <2> DEFINE y == [cr[c] EXCEPT !.phase = "absent"]
  <2>1. cr' = [cr EXCEPT ![c] = y] /\ cr[c].phase = "live"
    BY <1>1, <1>6 DEF DeleteCR, Objects
  <2>2. \A k, s \in Objects(specs, statuses) : \A l :
          OneOK(cr[c], k, s, l, apply, cleanup) => OneOK(y, k, s, l, apply, cleanup)
    BY <1>1, <1>6, <2>1, DroppedOK
  <2> HIDE DEF y
  <2> QED
    BY <1>2, <2>1, <2>2, WriteOK
<1> QED
  BY <1>3, <1>4, <1>5, <1>6

\* A watch event.
LEMMA DeliverKeeps ==
  ASSUME NEW specs, NEW statuses, NEW apply, NEW cleanup, NEW steps,
         Fits(specs, statuses, apply, cleanup),
         RuntimeTypeOK(Objects(specs, statuses), steps),
         SnapshotsOK(apply, cleanup), SoleOperator, NEW o \in Operators, NEW c \in CRs,
         Deliver(o, c)
  PROVE  SnapshotsOK(apply, cleanup)'
<1>1. /\ UNCHANGED <<cr, obj, pc>>
      /\ cache'[o][c] = cr[c] /\ \A d \in CRs \ {c} : cache'[o][d] = cache[o][d]
  BY DEF Deliver, RuntimeTypeOK
<1>2. OneOK(cr[c], cr[c], obj[o][c], pc[o][c], apply, cleanup)
  BY EachOK, DeliverOK
<1> QED
  BY <1>1, <1>2, SoleStepOK

\* The start of a reconciliation, or of none.
LEMMA StartKeeps ==
  ASSUME NEW specs, NEW statuses, NEW apply, NEW cleanup, NEW steps,
         Fits(specs, statuses, apply, cleanup),
         RuntimeTypeOK(Objects(specs, statuses), steps),
         SnapshotsOK(apply, cleanup), SoleOperator, NEW o \in Operators, NEW c \in CRs,
         Start(o, c)
  PROVE  SnapshotsOK(apply, cleanup)'
<1> DEFINE l == FinalizerEvent(cache[o][c])
<1>1. /\ UNCHANGED <<cr, cache>> /\ pc'[o][c] = l
      /\ obj'[o][c] = IF l = "idle" THEN obj[o][c] ELSE cache[o][c]
      /\ \A d \in CRs \ {c} : pc'[o][d] = pc[o][d] /\ obj'[o][d] = obj[o][d]
  BY DEF Start, RuntimeTypeOK
<1>2. OneOK(cr[c], cache[o][c], cache[o][c], l, apply, cleanup)
  BY EachOK, StartOK
<1>3. OneOK(cr[c], cache[o][c], obj[o][c], "idle", apply, cleanup)
  BY EachOK, IdleOK
<1> HIDE DEF l
<1> QED
  BY <1>1, <1>2, <1>3, SoleStepOK

\* The next call of apply() or of cleanup().
LEMMA GotoKeeps ==
  ASSUME NEW specs, NEW statuses, NEW apply, NEW cleanup, NEW steps,
         Fits(specs, statuses, apply, cleanup),
         RuntimeTypeOK(Objects(specs, statuses), steps),
         SnapshotsOK(apply, cleanup), SoleOperator, NEW o \in Operators, NEW c \in CRs,
         NEW l, Goto(o, c, l),
         (pc[o][c] \in apply /\ l \in apply) \/ (pc[o][c] \in cleanup /\ l \in cleanup)
  PROVE  SnapshotsOK(apply, cleanup)'
<1>1. /\ UNCHANGED <<cr, cache, obj>> /\ pc'[o][c] = l
      /\ \A d \in CRs \ {c} : pc'[o][d] = pc[o][d]
  BY DEF Goto, RuntimeTypeOK
<1>2. OneOK(cr[c], cache[o][c], obj[o][c], l, apply, cleanup)
  BY EachOK, GotoOK
<1> QED
  BY <1>1, <1>2, SoleStepOK

\* What a reconciliation that is over leaves behind.
LEMMA FinishShape ==
  ASSUME NEW objects, NEW steps, RuntimeTypeOK(objects, steps),
         NEW o \in Operators, NEW c \in CRs, NEW next, Finish(o, c, next)
  PROVE  /\ cache' = cache /\ obj'[o][c] = Blank /\ pc'[o][c] = "idle"
         /\ \A d \in CRs \ {c} : obj'[o][d] = obj[o][d] /\ pc'[o][d] = pc[o][d]
BY DEF Finish, RuntimeTypeOK

\* The end of a reconciliation that writes y, or nothing.
LEMMA FinishKeeps ==
  ASSUME NEW specs, NEW statuses, NEW apply, NEW cleanup, NEW steps,
         Fits(specs, statuses, apply, cleanup),
         RuntimeTypeOK(Objects(specs, statuses), steps),
         SnapshotsOK(apply, cleanup), SoleOperator, NEW o \in Operators, NEW c \in CRs,
         NEW next, Finish(o, c, next), NEW y, cr' = cr \/ cr' = [cr EXCEPT ![c] = y],
         cr' # cr => OneOK(y, cache[o][c], Blank, "idle", apply, cleanup)
  PROVE  SnapshotsOK(apply, cleanup)'
<1>1. OneOK(cr[c], cache[o][c], Blank, "idle", apply, cleanup)
  BY EachOK, IdleOK
<1>2. \A d \in CRs \ {c} : cr'[d] = cr[d]
  BY DEF RuntimeTypeOK
<1>3. OneOK(cr'[c], cache[o][c], Blank, "idle", apply, cleanup)
  BY <1>1 DEF RuntimeTypeOK
<1> QED
  BY <1>2, <1>3, FinishShape, SoleStepOK

\* Adding the finalizer.
LEMMA AddFinalizerKeeps ==
  ASSUME NEW specs, NEW statuses, NEW apply, NEW cleanup, NEW steps,
         Fits(specs, statuses, apply, cleanup),
         RuntimeTypeOK(Objects(specs, statuses), steps),
         SnapshotsOK(apply, cleanup), SoleOperator, NEW o \in Operators, NEW c \in CRs,
         AddFinalizer(o, c)
  PROVE  SnapshotsOK(apply, cleanup)'
<1> DEFINE y == [cr[c] EXCEPT !.finalizer = TRUE]
<1>1. PICK next : Finish(o, c, next)
  BY DEF AddFinalizer
<1>2. \/ cr' = cr
      \/ cr' = [cr EXCEPT ![c] = y] /\ cr[c].phase = "live" /\ ~cr[c].finalizer
  BY DEF AddFinalizer
<1>3. cr' # cr => OneOK(y, cache[o][c], Blank, "idle", apply, cleanup)
  BY <1>2, EachOK, AddedOK DEF AddFinalizer
<1> HIDE DEF y
<1> QED
  BY <1>1, <1>2, <1>3, FinishKeeps

\* Removing it.
LEMMA RemoveFinalizerKeeps ==
  ASSUME NEW specs, NEW statuses, NEW apply, NEW cleanup, NEW steps,
         Fits(specs, statuses, apply, cleanup),
         RuntimeTypeOK(Objects(specs, statuses), steps),
         SnapshotsOK(apply, cleanup), SoleOperator, NEW o \in Operators, NEW c \in CRs,
         RemoveFinalizer(o, c)
  PROVE  SnapshotsOK(apply, cleanup)'
<1> DEFINE ph == IF cr[c].phase = "deleting" THEN "absent" ELSE cr[c].phase
           y == [cr[c] EXCEPT !.finalizer = FALSE, !.phase = ph]
<1>1. PICK next : Finish(o, c, next)
  BY DEF RemoveFinalizer
<1>2. cr[c] \in Objects(specs, statuses) /\ cr \in [CRs -> Objects(specs, statuses)]
  BY DEF RuntimeTypeOK
<1>3. \/ cr' = cr
      \/ /\ cr' = [cr EXCEPT ![c] = [@ EXCEPT !.finalizer = FALSE, !.phase = ph]]
         /\ cr[c].finalizer
  BY <1>2 DEF RemoveFinalizer, Objects, Phases
<1>4. cr[c].finalizer => OneOK(y, cache[o][c], Blank, "idle", apply, cleanup)
  BY EachOK, RemovedOK DEF RemoveFinalizer
<1>5. cr' = cr \/ (cr' = [cr EXCEPT ![c] = y] /\ cr[c].finalizer)
  BY <1>3
<1> HIDE DEF y
<1> QED
  BY <1>1, <1>4, <1>5, FinishKeeps

\* Reporting in .status at the end of apply().
LEMMA PatchStatusKeeps ==
  ASSUME NEW specs, NEW statuses, NEW apply, NEW cleanup, NEW steps,
         Fits(specs, statuses, apply, cleanup),
         RuntimeTypeOK(Objects(specs, statuses), steps),
         SnapshotsOK(apply, cleanup), SoleOperator, NEW o \in Operators, NEW c \in CRs,
         pc[o][c] \in apply, NEW st \in statuses, st.observed = obj[o][c].gen,
         NEW next, PatchStatus(o, c, st, next)
  PROVE  SnapshotsOK(apply, cleanup)'
<1> DEFINE y == [cr[c] EXCEPT !.status = st]
<1>1. Finish(o, c, next) /\ (cr' = cr \/ cr' = [cr EXCEPT ![c] = y])
  BY DEF PatchStatus
<1>2. OneOK(y, cache[o][c], Blank, "idle", apply, cleanup)
  BY EachOK, ReportedOK
<1> HIDE DEF y
<1> QED
  BY <1>1, <1>2, FinishKeeps

\* A restart lists every object and starts from nothing.
LEMMA RestartKeeps ==
  ASSUME NEW specs, NEW statuses, NEW apply, NEW cleanup, NEW steps,
         Fits(specs, statuses, apply, cleanup),
         RuntimeTypeOK(Objects(specs, statuses), steps),
         SnapshotsOK(apply, cleanup), SoleOperator, NEW o \in Operators,
         Restart(o)
  PROVE  SnapshotsOK(apply, cleanup)'
<1>1. /\ cr' = cr
      /\ \A c \in CRs : pc'[o][c] = "idle" /\ cache'[o][c] = cr[c] /\ obj'[o][c] = Blank
  BY DEF Restart, RuntimeTypeOK
<1>2. \A c \in CRs : OneOK(cr[c], cr[c], Blank, "idle", apply, cleanup)
  <2> TAKE c \in CRs
  <2>1. OneOK(cr[c], cr[c], obj[o][c], pc[o][c], apply, cleanup)
    BY EachOK, DeliverOK
  <2> QED
    BY <2>1, EachOK, IdleOK
<1>3. \A p \in Operators : p = o
  BY DEF SoleOperator
<1> QED
  BY <1>1, <1>2, <1>3 DEF OneOK, SnapshotsOK

\* Nothing relies on anything at first.
LEMMA InitKeeps ==
  ASSUME NEW specs, NEW statuses, NEW apply, NEW cleanup,
         Fits(specs, statuses, apply, cleanup), RuntimeInit
  PROVE  SnapshotsOK(apply, cleanup)
<1>1. /\ \A c \in CRs : cr[c] = Blank
      /\ \A o \in Operators, c \in CRs : cache[o][c] = Blank /\ pc[o][c] = "idle"
  BY DEF RuntimeInit
<1>2. ServerOK(Blank) /\ CacheOK(Blank, Blank)
  BY DEF Fits, ServerOK, CacheOK, Earlier, Held
<1>3. \A s : RunOK("idle", s, Blank, Blank, apply, cleanup)
  BY DEF Fits, RunOK
<1> QED
  BY <1>1, <1>2, <1>3 DEF SnapshotsOK
-----------------------------------------------------------------------------
(***************************************************************************)
(* With one operator they keep NeverForgotten, too.  What it says of one   *)
(* resource at one operator:                                               *)
(***************************************************************************)
Awaited(x, k, l, w) == Exists(x) => l # "idle" \/ w # "none" \/ k # x

\* A sole operator's step on c keeps it if it keeps what it says of c.
LEMMA SoleStepAwaits ==
  ASSUME NeverForgotten, SoleOperator, NEW o \in Operators, NEW c \in CRs,
         \A d \in CRs \ {c} :
           /\ cr'[d] = cr[d] /\ cache'[o][d] = cache[o][d]
           /\ pc'[o][d] = pc[o][d] /\ wake'[o][d] = wake[o][d],
         Awaited(cr'[c], cache'[o][c], pc'[o][c], wake'[o][c])
  PROVE  NeverForgotten'
<1>1. \A p \in Operators : p = o
  BY DEF SoleOperator
<1> QED
  BY <1>1 DEF NeverForgotten, Awaited, Exists

\* A written resource differs from every copy of an earlier version.
LEMMA UserAwaits ==
  ASSUME NEW specs, NEW statuses, NEW apply, NEW cleanup, NEW steps,
         Fits(specs, statuses, apply, cleanup),
         RuntimeTypeOK(Objects(specs, statuses), steps),
         SnapshotsOK(apply, cleanup), NeverForgotten,
         NEW c \in CRs, (\E spec : CreateCR(c, spec) \/ EditCR(c, spec)) \/ DeleteCR(c)
  PROVE  NeverForgotten'
<1>1. /\ cr \in [CRs -> Objects(specs, statuses)] /\ cr[c] \in Objects(specs, statuses)
      /\ \A o \in Operators : cache[o][c] \in Objects(specs, statuses)
      /\ \A o \in Operators : Earlier(cache[o][c], cr[c])
  BY DEF RuntimeTypeOK, SnapshotsOK, CacheOK
<1>2. UNCHANGED <<cache, pc, wake>> /\ \A d \in CRs \ {c} : cr'[d] = cr[d]
  BY <1>1 DEF CreateCR, EditCR, DeleteCR
<1>3. \/ cr'[c].phase = "absent"
      \/ cr'[c].uid = cr[c].uid + 1
      \/ cr'[c].uid = cr[c].uid /\ cr'[c].gen = cr[c].gen + 1
  <2>1. ASSUME NEW spec, CreateCR(c, spec) PROVE cr'[c].uid = cr[c].uid + 1
    BY <1>1, <2>1 DEF CreateCR, Fits, Objects
  <2>2. ASSUME NEW spec, EditCR(c, spec)
        PROVE  cr'[c].uid = cr[c].uid /\ cr'[c].gen = cr[c].gen + 1
    BY <1>1, <2>2 DEF EditCR, Objects
  <2>3. CASE DeleteCR(c) /\ cr[c].finalizer
    BY <1>1, <2>3 DEF DeleteCR, Objects
  <2>4. CASE DeleteCR(c) /\ ~cr[c].finalizer
    BY <1>1, <2>4 DEF DeleteCR, Objects
  <2> QED
    BY <2>1, <2>2, <2>3, <2>4
<1>4. \A o \in Operators : Exists(cr'[c]) => cache[o][c] # cr'[c]
  BY <1>1, <1>3 DEF Objects, Earlier, Exists
<1> QED
  BY <1>2, <1>4 DEF NeverForgotten, Exists

\* A watch event asks for a reconciliation of what exists.
LEMMA DeliverAwaits ==
  ASSUME NEW specs, NEW statuses, NEW apply, NEW cleanup, NEW steps,
         Fits(specs, statuses, apply, cleanup),
         RuntimeTypeOK(Objects(specs, statuses), steps),
         SnapshotsOK(apply, cleanup), NeverForgotten,
         SoleOperator, NEW o \in Operators, NEW c \in CRs, Deliver(o, c)
  PROVE  NeverForgotten'
<1>1. /\ UNCHANGED <<cr, pc>>
      /\ wake'[o][c] = IF Exists(cr[c]) THEN "now" ELSE wake[o][c]
      /\ \A d \in CRs \ {c} : cache'[o][d] = cache[o][d] /\ wake'[o][d] = wake[o][d]
  BY DEF Deliver, RuntimeTypeOK
<1> QED
  BY <1>1, SoleStepAwaits DEF Awaited, Exists

\* A request is dropped only when the store is behind or the resource gone.
LEMMA StartAwaits ==
  ASSUME NEW specs, NEW statuses, NEW apply, NEW cleanup, NEW steps,
         Fits(specs, statuses, apply, cleanup),
         RuntimeTypeOK(Objects(specs, statuses), steps),
         SnapshotsOK(apply, cleanup), NeverForgotten,
         SoleOperator, NEW o \in Operators, NEW c \in CRs, Start(o, c)
  PROVE  NeverForgotten'
<1>1. /\ UNCHANGED <<cr, cache>> /\ pc'[o][c] = FinalizerEvent(cache[o][c])
      /\ \A d \in CRs \ {c} : pc'[o][d] = pc[o][d] /\ wake'[o][d] = wake[o][d]
  BY DEF Start, RuntimeTypeOK
<1>2. ServerOK(cr[c]) /\ cr[c].phase \in Phases
  BY DEF SnapshotsOK, RuntimeTypeOK, Objects
<1>3. Exists(cr[c]) => FinalizerEvent(cr[c]) # "idle"
  BY <1>2 DEF ServerOK, Exists, FinalizerEvent, Phases
<1> QED
  BY <1>1, <1>3, SoleStepAwaits DEF Awaited

\* A reconciliation that goes on is under way.
LEMMA GotoAwaits ==
  ASSUME NEW objects, NEW steps, RuntimeTypeOK(objects, steps), NeverForgotten,
         SoleOperator, NEW o \in Operators, NEW c \in CRs,
         NEW l, l # "idle", Goto(o, c, l)
  PROVE  NeverForgotten'
<1>1. /\ UNCHANGED <<cr, cache, wake>> /\ pc'[o][c] = l
      /\ \A d \in CRs \ {c} : pc'[o][d] = pc[o][d]
  BY DEF Goto, RuntimeTypeOK
<1> QED
  BY <1>1, SoleStepAwaits DEF Awaited

\* One that is over has asked for the next, or has made a patch that does.
LEMMA FinishAwaits ==
  ASSUME NEW objects, NEW steps, RuntimeTypeOK(objects, steps), NeverForgotten,
         SoleOperator, NEW o \in Operators, NEW c \in CRs,
         NEW next, Finish(o, c, next), NEW y, cr' = cr \/ cr' = [cr EXCEPT ![c] = y],
         next # "none" \/ (cr' = [cr EXCEPT ![c] = y] /\ (Exists(y) => cache[o][c] # y))
  PROVE  NeverForgotten'
<1>1. /\ wake'[o][c] = (IF wake[o][c] = "now" THEN wake[o][c] ELSE next)
      /\ cache' = cache
      /\ \A d \in CRs \ {c} :
           cr'[d] = cr[d] /\ pc'[o][d] = pc[o][d] /\ wake'[o][d] = wake[o][d]
  BY DEF Finish, RuntimeTypeOK
<1>2. CASE next # "none"
  BY <1>1, <1>2, SoleStepAwaits DEF Awaited
<1>3. CASE cr' = [cr EXCEPT ![c] = y] /\ (Exists(y) => cache[o][c] # y)
  <2>1. cr'[c] = y
    BY <1>3 DEF RuntimeTypeOK
  <2> QED
    BY <1>1, <1>3, <2>1, SoleStepAwaits DEF Awaited
<1> QED
  BY <1>2, <1>3

\* The patch that adds the finalizer is one that the store has not seen.
LEMMA AddFinalizerAwaits ==
  ASSUME NEW specs, NEW statuses, NEW apply, NEW cleanup, NEW steps,
         Fits(specs, statuses, apply, cleanup),
         RuntimeTypeOK(Objects(specs, statuses), steps),
         SnapshotsOK(apply, cleanup), NeverForgotten,
         SoleOperator, NEW o \in Operators, NEW c \in CRs, AddFinalizer(o, c)
  PROVE  NeverForgotten'
<1> DEFINE y == [cr[c] EXCEPT !.finalizer = TRUE]
<1>1. \/ /\ cr' = [cr EXCEPT ![c] = y] /\ cr[c].phase = "live" /\ ~cr[c].finalizer
         /\ Finish(o, c, "none") \/ Finish(o, c, "err")
      \/ cr' = cr /\ Finish(o, c, "err")
  BY DEF AddFinalizer, ErrorPolicy, IsConfigError
<1>2. cr[c].phase = "live" /\ ~cr[c].finalizer => cache[o][c] # y
  <2>1. cr[c] \in Objects(specs, statuses)
    BY DEF RuntimeTypeOK
  <2>2. cr[c].phase = "live" => y.phase = "live" /\ y.finalizer = TRUE
    BY <2>1 DEF Objects
  <2>3. Held(cache[o][c]) => cr[c].finalizer
    BY DEF SnapshotsOK, CacheOK
  <2> QED
    BY <2>2, <2>3 DEF Held
<1> HIDE DEF y
<1> QED
  BY <1>1, <1>2, FinishAwaits

\* The one that removes it leaves nothing behind.
LEMMA RemoveFinalizerAwaits ==
  ASSUME NEW specs, NEW statuses, NEW apply, NEW cleanup, NEW steps,
         Fits(specs, statuses, apply, cleanup),
         RuntimeTypeOK(Objects(specs, statuses), steps),
         SnapshotsOK(apply, cleanup), NeverForgotten,
         SoleOperator, NEW o \in Operators, NEW c \in CRs, RemoveFinalizer(o, c)
  PROVE  NeverForgotten'
<1> DEFINE ph == IF cr[c].phase = "deleting" THEN "absent" ELSE cr[c].phase
           y == [cr[c] EXCEPT !.finalizer = FALSE, !.phase = ph]
<1>1. cr[c] \in Objects(specs, statuses) /\ cr \in [CRs -> Objects(specs, statuses)]
  BY DEF RuntimeTypeOK
<1>2. \/ /\ cr' = [cr EXCEPT ![c] = [@ EXCEPT !.finalizer = FALSE, !.phase = ph]]
         /\ cr[c].finalizer
         /\ Finish(o, c, "none") \/ Finish(o, c, "err")
      \/ cr' = cr /\ Finish(o, c, "err")
  BY <1>1 DEF RemoveFinalizer, ErrorPolicy, IsConfigError, Objects, Phases
<1>3. cr[c].finalizer => ~Exists(y)
  <2>1. OneOK(cr[c], cache[o][c], obj[o][c], pc[o][c], apply, cleanup)
    BY EachOK
  <2>2. cr[c].finalizer => cr[c].phase = "deleting"
    BY <1>1, <2>1 DEF RemoveFinalizer, OneOK, ServerOK, RunOK, Fits, Held, Objects, Phases
  <2> QED
    BY <1>1, <2>2 DEF Exists, Objects
<1>4. \/ /\ cr' = [cr EXCEPT ![c] = y]
         /\ cr[c].finalizer
         /\ Finish(o, c, "none") \/ Finish(o, c, "err")
      \/ cr' = cr /\ Finish(o, c, "err")
  BY <1>2
<1> HIDE DEF y
<1> QED
  BY <1>3, <1>4, FinishAwaits

\* A status is reported by a reconciliation that asks for the next.
LEMMA PatchStatusAwaits ==
  ASSUME NEW objects, NEW steps, RuntimeTypeOK(objects, steps), NeverForgotten,
         SoleOperator, NEW o \in Operators, NEW c \in CRs,
         NEW st, NEW next, next # "none", PatchStatus(o, c, st, next)
  PROVE  NeverForgotten'
<1> DEFINE y == [cr[c] EXCEPT !.status = st]
<1>1. Finish(o, c, next) /\ (cr' = cr \/ cr' = [cr EXCEPT ![c] = y])
  BY DEF PatchStatus
<1> HIDE DEF y
<1> QED
  BY <1>1, FinishAwaits

\* A restart asks for a reconciliation of everything there is.
LEMMA RestartAwaits ==
  ASSUME NEW objects, NEW steps, RuntimeTypeOK(objects, steps), NeverForgotten,
         SoleOperator, NEW o \in Operators, Restart(o)
  PROVE  NeverForgotten'
<1>1. /\ cr' = cr
      /\ \A c \in CRs : wake'[o][c] = IF Exists(cr[c]) THEN "now" ELSE "none"
  BY DEF Restart, RuntimeTypeOK
<1> QED
  BY <1>1 DEF SoleOperator, NeverForgotten, Exists

\* There is nothing to forget at first.
LEMMA InitAwaits ==
  ASSUME RuntimeInit, Blank.phase = "absent" PROVE NeverForgotten
BY DEF RuntimeInit, NeverForgotten, Exists
-----------------------------------------------------------------------------
(***************************************************************************)
(* The ways in which users and the finalizer patches make y of a resource  *)
(* x; no other step but a status patch writes one.                         *)
(***************************************************************************)
Created(x, y) ==
  /\ ~Exists(x) /\ y.phase = "live" /\ y.finalizer = FALSE
  /\ y.uid = x.uid + 1 /\ y.gen = 1 /\ y.status = Blank.status

Edited(x, y) ==
  /\ Exists(x) /\ y.gen = x.gen + 1
  /\ y.phase = x.phase /\ y.finalizer = x.finalizer /\ y.uid = x.uid /\ y.status = x.status

Deleted(x, y) ==
  /\ x.phase = "live" /\ y.finalizer = x.finalizer
  /\ y.uid = x.uid /\ y.spec = x.spec /\ y.status = x.status
  /\ IF x.finalizer
       THEN y.phase = "deleting" /\ y.gen = x.gen + 1
       ELSE y.phase = "absent" /\ y.gen = x.gen

Added(x, y) ==
  /\ x.phase = "live" /\ ~x.finalizer /\ y.phase = "live" /\ y.finalizer = TRUE
  /\ y.uid = x.uid /\ y.gen = x.gen /\ y.spec = x.spec /\ y.status = x.status

Released(x, y) ==
  /\ x.finalizer /\ y.finalizer = FALSE
  /\ y.phase = IF x.phase = "deleting" THEN "absent" ELSE x.phase
  /\ y.uid = x.uid /\ y.gen = x.gen /\ y.spec = x.spec /\ y.status = x.status

OnlyAt(c) == \A d \in CRs \ {c} : cr'[d] = cr[d]

\* What users make of a resource.
LEMMA UserWrites ==
  ASSUME NEW specs, NEW statuses, NEW steps,
         RuntimeTypeOK(Objects(specs, statuses), steps), Blank \in Objects(specs, statuses),
         ~Blank.finalizer,
         NEW c \in CRs, (\E spec : CreateCR(c, spec) \/ EditCR(c, spec)) \/ DeleteCR(c)
  PROVE  OnlyAt(c) /\ (Created(cr[c], cr'[c]) \/ Edited(cr[c], cr'[c]) \/ Deleted(cr[c], cr'[c]))
<1>1. cr \in [CRs -> Objects(specs, statuses)] /\ cr[c] \in Objects(specs, statuses)
  BY DEF RuntimeTypeOK
<1>2. OnlyAt(c)
  BY <1>1 DEF OnlyAt, CreateCR, EditCR, DeleteCR
<1>3. ASSUME NEW s, CreateCR(c, s) PROVE Created(cr[c], cr'[c])
  <2> DEFINE y == [Blank EXCEPT !.phase = "live", !.gen = 1, !.uid = cr[c].uid + 1, !.spec = s]
  <2>1. y.phase = "live" /\ y.gen = 1 /\ y.uid = cr[c].uid + 1
    BY DEF Objects
  <2>2. y.finalizer = FALSE /\ y.status = Blank.status
    BY DEF Objects
  <2> HIDE DEF y
  <2>3. cr'[c] = y /\ ~Exists(cr[c])
    BY <1>1, <1>3 DEF CreateCR, y
  <2> QED
    BY <2>1, <2>2, <2>3 DEF Created
<1>4. ASSUME NEW s, EditCR(c, s) PROVE Edited(cr[c], cr'[c])
  BY <1>1, <1>4 DEF EditCR, Edited, Objects
<1>5. CASE DeleteCR(c) /\ cr[c].finalizer
  BY <1>1, <1>2, <1>5 DEF DeleteCR, Deleted, Objects
<1>6. CASE DeleteCR(c) /\ ~cr[c].finalizer
  BY <1>1, <1>2, <1>6 DEF DeleteCR, Deleted, Objects
<1> QED
  BY <1>2, <1>3, <1>4, <1>5, <1>6

\* What the patch that adds the finalizer makes of it.
LEMMA AddFinalizerWrites ==
  ASSUME NEW specs, NEW statuses, NEW steps,
         RuntimeTypeOK(Objects(specs, statuses), steps),
         NEW o \in Operators, NEW c \in CRs, AddFinalizer(o, c)
  PROVE  OnlyAt(c) /\ (cr'[c] = cr[c] \/ Added(cr[c], cr'[c]))
<1>1. cr \in [CRs -> Objects(specs, statuses)] /\ cr[c] \in Objects(specs, statuses)
  BY DEF RuntimeTypeOK
<1> QED
  BY <1>1 DEF AddFinalizer, OnlyAt, Added, Objects

\* And the one that removes it.
LEMMA RemoveFinalizerWrites ==
  ASSUME NEW specs, NEW statuses, NEW steps,
         RuntimeTypeOK(Objects(specs, statuses), steps),
         NEW o \in Operators, NEW c \in CRs, RemoveFinalizer(o, c)
  PROVE  OnlyAt(c) /\ (cr'[c] = cr[c] \/ Released(cr[c], cr'[c]))
<1> DEFINE ph == IF cr[c].phase = "deleting" THEN "absent" ELSE cr[c].phase
           y == [cr[c] EXCEPT !.finalizer = FALSE, !.phase = ph]
<1>1. cr \in [CRs -> Objects(specs, statuses)] /\ cr[c] \in Objects(specs, statuses)
  BY DEF RuntimeTypeOK
<1>2. \/ cr' = cr
      \/ /\ cr' = [cr EXCEPT ![c] = [@ EXCEPT !.finalizer = FALSE, !.phase = ph]]
         /\ cr[c].finalizer
  BY <1>1 DEF RemoveFinalizer, Objects, Phases
<1>3. cr' = cr \/ (cr' = [cr EXCEPT ![c] = y] /\ cr[c].finalizer)
  BY <1>2
<1>4. cr[c].finalizer => Released(cr[c], y)
  BY <1>1 DEF Released, Objects
<1> HIDE DEF y
<1> QED
  BY <1>1, <1>3, <1>4 DEF OnlyAt

\* A status patch writes the status alone.
LEMMA PatchStatusWrites ==
  ASSUME NEW specs, NEW statuses, NEW steps,
         RuntimeTypeOK(Objects(specs, statuses), steps),
         NEW o \in Operators, NEW c \in CRs, NEW st, NEW next, PatchStatus(o, c, st, next)
  PROVE  OnlyAt(c) /\ (cr'[c] = cr[c] \/ (Exists(cr[c]) /\ cr'[c] = [cr[c] EXCEPT !.status = st]))
BY DEF PatchStatus, OnlyAt, RuntimeTypeOK
=============================================================================
