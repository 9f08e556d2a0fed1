--------------------------- MODULE OperatorRuntime ---------------------------
(***************************************************************************)
(* What every controller of the operator shares (src/reconcile/mod.rs):    *)
(* the Kubernetes objects it watches, the kube-rs Controller that          *)
(* schedules reconciliations, the kube-rs finalizer() wrapper around every *)
(* reconcile function, the best-effort status patch and error_policy.      *)
(*                                                                         *)
(* Each operator process has its own reflector store, which follows the    *)
(* API server with a delay, and runs at most one reconciliation per object *)
(* at a time, on a snapshot of its store taken when the reconciliation     *)
(* starts.  Each await point of a reconciliation is one step: whatever     *)
(* other objects, processes and users do may come in between.              *)
(*                                                                         *)
(* A controller module instantiates this one over its own variables and    *)
(* supplies Blank, the object record of a resource nobody has created.     *)
(***************************************************************************)
EXTENDS Naturals

CONSTANTS
  CRs,             \* names of the custom resources of the controller's kind
  Operators,       \* operator processes (chart value replicaCount, rollouts)
  Blank,           \* the object record of a resource that never existed
  MaxGeneration,   \* bound on spec edits: no edit at or above this generation
  MaxIncarnation,  \* bound on how often one name is created
  FaultKinds,      \* which faults the environment may inject
  MaxFaults,       \* bound on the number of injected faults
  CacheMayLag      \* may a reconciliation start from a stale store?

VARIABLES
  cr,      \* the API server's copy of every resource
  cache,   \* cache[o]: the reflector store of operator o
  obj,     \* obj[o][c]: the snapshot the running reconciliation works on
  pc,      \* pc[o][c]: the next call of the running reconciliation
  wake,    \* wake[o][c]: the pending reconcile request of c at o
  faults   \* faults injected so far

runtimeVars == <<cr, cache, obj, pc, wake, faults>>

(***************************************************************************)
(* Objects.  An absent object keeps its last spec and incarnation, which   *)
(* no code reads; uid counts incarnations.                                 *)
(***************************************************************************)
Phases == {"absent", "live", "deleting"}

Objects(specs, statuses) ==
  [phase : Phases, finalizer : BOOLEAN, gen : Nat, uid : Nat,
   spec : specs, status : statuses]

Exists(x) == x.phase # "absent"

(***************************************************************************)
(* The requeue an error earns.  Spec and Connection errors ("config") are  *)
(* retried at REQUEUE_CONFIG_ERR, all others at REQUEUE_ERR.               *)
(***************************************************************************)
IsConfigError(e) == e = "config"

ErrorPolicyAwait(e) == "none"   \* mutant: errors wait for a change

ErrorPolicy(e) == IF IsConfigError(e) THEN "configErr" ELSE "err"

Wakes == {"none", "now", "ok", "err", "configErr"}

RuntimeTypeOK(objects, steps) ==
  /\ cr \in [CRs -> objects]
  /\ cache \in [Operators -> [CRs -> objects]]
  /\ obj \in [Operators -> [CRs -> objects]]
  /\ pc \in [Operators -> [CRs -> steps]]
  /\ wake \in [Operators -> [CRs -> Wakes]]
  /\ faults \in Nat

RuntimeInit ==
  /\ cr = [c \in CRs |-> Blank]
  /\ cache = [o \in Operators |-> cr]
  /\ obj = [o \in Operators |-> [c \in CRs |-> Blank]]
  /\ pc = [o \in Operators |-> [c \in CRs |-> "idle"]]
  /\ wake = [o \in Operators |-> [c \in CRs |-> "none"]]
  /\ faults = 0

(***************************************************************************)
(* A fault of kind k happens in this step.                                 *)
(***************************************************************************)
Fault(k) ==
  /\ k \in FaultKinds
  /\ faults < MaxFaults
  /\ faults' = faults + 1

NoFault == UNCHANGED faults

-----------------------------------------------------------------------------
(***************************************************************************)
(* Users and the API server.                                               *)
(***************************************************************************)
CreateCR(c, s) ==
  /\ ~Exists(cr[c])
  /\ cr[c].uid < MaxIncarnation
  /\ cr' = [cr EXCEPT ![c] = [Blank EXCEPT !.phase = "live", !.gen = 1,
                                           !.uid = cr[c].uid + 1, !.spec = s]]
  /\ NoFault
  /\ UNCHANGED <<cache, obj, pc, wake>>

EditCR(c, s) ==
  /\ Exists(cr[c])
  /\ s # cr[c].spec
  /\ cr[c].gen < MaxGeneration
  /\ cr' = [cr EXCEPT ![c].spec = s, ![c].gen = @ + 1]
  /\ NoFault
  /\ UNCHANGED <<cache, obj, pc, wake>>

(***************************************************************************)
(* A deleted object that carries the finalizer stays until it is removed.  *)
(* Setting the deletion timestamp counts as a new generation.              *)
(***************************************************************************)
DeleteCR(c) ==
  /\ cr[c].phase = "live"
  /\ cr' = IF cr[c].finalizer
             THEN [cr EXCEPT ![c].phase = "deleting", ![c].gen = @ + 1]
             ELSE [cr EXCEPT ![c].phase = "absent"]
  /\ NoFault
  /\ UNCHANGED <<cache, obj, pc, wake>>

-----------------------------------------------------------------------------
(***************************************************************************)
(* The Controller.  A watch event updates the store and, unless the object *)
(* is gone, requests a reconciliation; a request that arrives while one is *)
(* running waits for it to end.                                            *)
(***************************************************************************)
Deliver(o, c) ==
  /\ cache[o][c] # cr[c]
  /\ cache' = [cache EXCEPT ![o][c] = cr[c]]
  /\ wake' = [wake EXCEPT ![o][c] = IF Exists(cr[c]) THEN "now" ELSE @]
  /\ NoFault
  /\ UNCHANGED <<cr, obj, pc>>

(***************************************************************************)
(* finalizer(): what a reconciliation does with the snapshot it is given.  *)
(***************************************************************************)
FinalizerEventEager(x) ==   \* mutant: applies before the finalizer is there
  CASE x.phase = "live"                    -> "apply"
    [] x.phase = "deleting" /\ x.finalizer -> "cleanup"
    [] OTHER                               -> "idle"

FinalizerEvent(x) ==
  CASE x.phase = "live" /\ x.finalizer      -> "apply"
    [] x.phase = "deleting" /\ x.finalizer  -> "cleanup"
    [] x.phase = "live" /\ ~x.finalizer     -> "addFinalizer"
    [] OTHER                                -> "idle"

(***************************************************************************)
(* A due request starts; one for an object the store no longer has, or     *)
(* that is deleted and already released, ends at once.                     *)
(***************************************************************************)
Start(o, c) ==
  /\ pc[o][c] = "idle"
  /\ wake[o][c] # "none"
  /\ CacheMayLag \/ cache[o][c] = cr[c]
  /\ wake' = [wake EXCEPT ![o][c] = "none"]
  /\ pc' = [pc EXCEPT ![o][c] = FinalizerEvent(cache[o][c])]
  /\ obj' = IF FinalizerEvent(cache[o][c]) = "idle"
              THEN obj
              ELSE [obj EXCEPT ![o][c] = cache[o][c]]
  /\ NoFault
  /\ UNCHANGED <<cr, cache>>

(***************************************************************************)
(* The reconciliation goes on to the call labelled l.                      *)
(***************************************************************************)
Goto(o, c, l) ==
  /\ pc' = [pc EXCEPT ![o][c] = l]
  /\ UNCHANGED <<cr, cache, obj, wake>>

(***************************************************************************)
(* The reconciliation ends and asks to be requeued as next says ("none" is *)
(* Action::await_change).  A request that arrived meanwhile is due first.  *)
(***************************************************************************)
Finish(o, c, next) ==
  /\ pc' = [pc EXCEPT ![o][c] = "idle"]
  /\ obj' = [obj EXCEPT ![o][c] = Blank]
  /\ wake' = [wake EXCEPT ![o][c] = IF @ = "now" THEN @ ELSE next]
  /\ UNCHANGED cache

(***************************************************************************)
(* A JSON patch tests that nobody added a finalizer and adds it; the       *)
(* reconciliation that applies the resource is the one its event starts.   *)
(***************************************************************************)
AddFinalizer(o, c) ==
  LET applies == cr[c].phase = "live" /\ ~cr[c].finalizer
      patched == [cr EXCEPT ![c].finalizer = TRUE]
  IN /\ pc[o][c] = "addFinalizer"
     /\ \/ applies /\ cr' = patched /\ NoFault /\ Finish(o, c, "none")
        \/ ~applies /\ UNCHANGED cr /\ NoFault /\ Finish(o, c, ErrorPolicy("retry"))
        \/ UNCHANGED cr /\ Fault("finalizer") /\ Finish(o, c, ErrorPolicy("retry"))
        \/ applies /\ cr' = patched /\ Fault("reply") /\ Finish(o, c, ErrorPolicy("retry"))

(***************************************************************************)
(* After a successful cleanup a JSON patch tests for the finalizer and     *)
(* removes it, which lets the API server drop a deleted object.            *)
(***************************************************************************)
RemoveFinalizer(o, c) ==
  LET applies == cr[c].finalizer
      released == [cr EXCEPT ![c].finalizer = FALSE,
                             ![c].phase = IF @ = "deleting" THEN "absent" ELSE @]
  IN /\ pc[o][c] = "removeFinalizer"
     /\ \/ applies /\ cr' = released /\ NoFault /\ Finish(o, c, "none")
        \/ ~applies /\ UNCHANGED cr /\ NoFault /\ Finish(o, c, ErrorPolicy("retry"))
        \/ UNCHANGED cr /\ Fault("finalizer") /\ Finish(o, c, ErrorPolicy("retry"))
        \/ applies /\ cr' = released /\ Fault("reply") /\ Finish(o, c, ErrorPolicy("retry"))

(***************************************************************************)
(* patch_status addresses the object by name only and drops its own error; *)
(* then the reconciliation returns next.                                   *)
(***************************************************************************)
PatchStatus(o, c, st, next) ==
  /\ \/ Exists(cr[c]) /\ cr' = [cr EXCEPT ![c].status = st] /\ NoFault
     \/ ~Exists(cr[c]) /\ UNCHANGED cr /\ NoFault
     \/ UNCHANGED cr /\ Fault("status")
  /\ Finish(o, c, next)

(***************************************************************************)
(* The process dies and a new one lists every object.                      *)
(***************************************************************************)
Restart(o) ==
  /\ Fault("crash")
  /\ pc' = [pc EXCEPT ![o] = [c \in CRs |-> "idle"]]
  /\ obj' = [obj EXCEPT ![o] = [c \in CRs |-> Blank]]
  /\ cache' = [cache EXCEPT ![o] = cr]
  /\ wake' = [wake EXCEPT ![o] = [c \in CRs |-> IF Exists(cr[c]) THEN "now" ELSE "none"]]
  /\ UNCHANGED cr

-----------------------------------------------------------------------------
(***************************************************************************)
(* No resource is ever forgotten: as long as it exists, every operator is  *)
(* reconciling it, will do so on a timer, or has a watch event for it on   *)
(* the way.  Returning await_change is safe only because the patch just    *)
(* made produces such an event (mod.rs watches no other kind of object).   *)
(***************************************************************************)
NeverForgotten ==
  \A o \in Operators, c \in CRs :
    Exists(cr[c]) => \/ pc[o][c] # "idle"
                     \/ wake[o][c] # "none"
                     \/ cache[o][c] # cr[c]
-----------------------------------------------------------------------------
(***************************************************************************)
(* Why a reconciliation may trust its snapshot when there is one operator. *)
(*                                                                         *)
(* x is y, or an earlier version of the resource of that name.             *)
(***************************************************************************)
SoleOperator == \A o, p \in Operators : o = p

Held(x) == x.phase = "live" /\ x.finalizer

Earlier(x, y) ==
  \/ x.uid < y.uid
  \/ /\ x.uid = y.uid
     /\ x.gen <= y.gen
     /\ x.gen = y.gen => x.spec = y.spec /\ (x.phase = "live" => y.phase # "deleting")

(***************************************************************************)
(* The server's copy x: a status that was reported is one of a resource    *)
(* with the finalizer, and never one of a generation that deletes it.      *)
(***************************************************************************)
ServerOK(x) ==
  /\ x.phase = "absent" => ~x.finalizer
  /\ x.phase = "deleting" => x.finalizer /\ x.status.observed < x.gen
  /\ x.phase = "live" /\ ~x.finalizer => x.status = Blank.status
  /\ x.status.observed <= x.gen

(***************************************************************************)
(* The store's copy k of x: as long as it shows a live resource with the   *)
(* finalizer, the server's copy is of the same incarnation and has it too; *)
(* one that is being deleted there does not come back as it was.           *)
(***************************************************************************)
CacheOK(k, x) ==
  /\ Earlier(k, x)
  /\ Held(k) => x.finalizer /\ k.uid = x.uid /\ x.status.observed <= k.gen
  /\ k.phase = "deleting" => ~Held(x) /\ (x.finalizer => k.uid = x.uid)

(***************************************************************************)
(* A reconciliation that stands at label l with snapshot s: apply() works  *)
(* on the incarnation the server has, on no older a generation than .status*)
(* or newer a one than the store shows; cleanup() finds nothing alive.     *)
(***************************************************************************)
RunOK(l, s, k, x, apply, cleanup) ==
  /\ l \in apply =>
       /\ Held(s) /\ x.finalizer /\ s.uid = x.uid /\ Earlier(s, x)
       /\ x.status.observed <= s.gen
       /\ Held(k) => s.gen <= k.gen
  /\ l \in cleanup =>
       /\ ~Held(x) /\ ~Held(k) /\ Earlier(s, x)
       /\ x.finalizer => s.uid = x.uid
  /\ l = "addFinalizer" /\ k.phase = "deleting" => x.phase = "deleting"

SnapshotsOK(apply, cleanup) ==
  \A c \in CRs :
    /\ ServerOK(cr[c])
    /\ \A o \in Operators :
         /\ CacheOK(cache[o][c], cr[c])
         /\ RunOK(pc[o][c], obj[o][c], cache[o][c], cr[c], apply, cleanup)
=============================================================================
