------------------------- MODULE AccessKeyController -------------------------
(***************************************************************************)
(* The AccessKey controller (src/reconcile/access_key.rs).                 *)
(*                                                                         *)
(* An AccessKey resource asks for a service account parented to a RustFS   *)
(* user.  The operator issues the pair (access key id, secret key) on the  *)
(* server and writes it to a credentials Secret beside the resource.  The  *)
(* server never shows a secret key again, so the server's copy and the     *)
(* Secret's copy are related only by the order of the operator's calls:    *)
(* that relation, and the revocation of every key that was issued, are     *)
(* what this module is about.                                              *)
(***************************************************************************)
EXTENDS Naturals

CONSTANTS
  CRs, Operators, MaxGeneration, MaxIncarnation, FaultKinds, MaxFaults,
  CacheMayLag,     \* see OperatorRuntime
  KeyIds,          \* access key ids
  GeneratedIds,    \* the ids generate_access_key() may draw
  SecretKeys,      \* the secret keys generate_secret_key() may draw
  Users,           \* RustFS users; a user's name is itself an access key id
  Specs,           \* the specs users may apply
  None             \* Option::None

SpecRecords ==
  [connection : {"ok", "invalid"}, user : Users,
   accessKey : KeyIds \union {None}, passwordRef : BOOLEAN,
   deletion : {"Delete", "Retain"}]

ASSUME SpecsAssumption == Specs # {} /\ Specs \subseteq SpecRecords
ASSUME IdsAssumption == GeneratedIds \subseteq KeyIds \ Users
ASSUME BoundsAssumption ==
  MaxGeneration \in Nat /\ MaxIncarnation \in Nat /\ MaxFaults \in Nat
ASSUME LagAssumption == CacheMayLag \in BOOLEAN

VARIABLES
  cr, cache, obj, pc, wake, faults,   \* see OperatorRuntime
  keys,    \* the server's service accounts: keys[k].sk = None if k is absent
  secret,  \* secret[c]: the credentials Secret of c; sk = None: no secretKey
  local    \* local[o][c]: the local variables of the running reconciliation

(***************************************************************************)
(* .status of an AccessKey.  message stands for the pair (ready, message): *)
(* ready is true exactly with the message "reconciled".                    *)
(***************************************************************************)
Messages == {"reconciled", "config", "retry"}

ASSUME NoneAssumption ==
  None \notin KeyIds \union SecretKeys \union Users \union CRs \union Messages

AccessKeyStatus ==
  [message : Messages \union {None}, observed : Nat,
   accessKey : KeyIds \union {None}]

Blank ==
  [phase |-> "absent", finalizer |-> FALSE, gen |-> 0, uid |-> 0,
   spec |-> CHOOSE s \in Specs : TRUE,
   status |-> [message |-> None, observed |-> 0, accessKey |-> None]]

INSTANCE OperatorRuntime

vars == <<cr, cache, obj, pc, wake, faults, keys, secret, local>>

externals == <<keys, secret>>

NoKey == [parent |-> None, sk |-> None, by |-> None]
NoSecret == [ak |-> None, sk |-> None, uid |-> 0]
NoLocal == [intact |-> FALSE, ak |-> None, sk |-> None, result |-> None]

Init ==
  /\ RuntimeInit
  /\ keys = [k \in KeyIds |-> NoKey]
  /\ secret = [c \in CRs |-> NoSecret]
  /\ local = [o \in Operators |-> [c \in CRs |-> NoLocal]]

-----------------------------------------------------------------------------
(***************************************************************************)
(* known_ak: the pinned id, else the id recorded in the snapshot's status. *)
(***************************************************************************)
KnownPinnedOnly(x) == x.spec.accessKey   \* mutant: forgets .status

Known(x) ==
  IF x.spec.accessKey # None THEN x.spec.accessKey ELSE x.status.accessKey

(***************************************************************************)
(* secret_intact: the stored id is k and there is some secretKey.  What    *)
(* the secretKey is cannot be compared with anything.                      *)
(***************************************************************************)
SecretIntactSwapped(c, k) ==   \* mutant: reads the wrong entry of the Secret
  k # None /\ secret[c].sk = k /\ secret[c].ak # None

SecretIntact(c, k) == k # None /\ secret[c].ak = k /\ secret[c].sk # None

(***************************************************************************)
(* An id that names a user is answered with a 500 whatever the request.    *)
(***************************************************************************)
NamesUser(k) == k \in Users

Issued(k) == keys[k].sk # None

(***************************************************************************)
(* Random ids and secret keys never repeat one that is still in use.       *)
(***************************************************************************)
IdsInUse ==
  {k \in KeyIds : Issued(k)}
    \union {secret[c].ak : c \in CRs}
    \union {cr[c].status.accessKey : c \in CRs}
    \union {cache[o][c].status.accessKey : o \in Operators, c \in CRs}
    \union {obj[o][c].status.accessKey : o \in Operators, c \in CRs}
    \union {local[o][c].ak : o \in Operators, c \in CRs}

SecretKeysInUse ==
  {keys[k].sk : k \in KeyIds} \union {secret[c].sk : c \in CRs}
    \union {local[o][c].sk : o \in Operators, c \in CRs}

Remember(o, c, r) == local' = [local EXCEPT ![o][c] = r]

FailSilently(o, c, e) ==   \* mutant: the error is swallowed
  /\ Goto(o, c, "status")
  /\ Remember(o, c, NoLocal)

Fail(o, c, e) ==
  /\ Goto(o, c, "status")
  /\ Remember(o, c, [NoLocal EXCEPT !.result = e])

-----------------------------------------------------------------------------
(***************************************************************************)
(* apply(), call by call.                                                  *)
(***************************************************************************)
ResolveConnection(o, c) ==
  LET valid == obj[o][c].spec.connection = "ok"
  IN /\ pc[o][c] = "apply"
     /\ \/ valid /\ NoFault /\ Goto(o, c, "readSecret") /\ UNCHANGED local
        \/ ~valid /\ NoFault /\ Fail(o, c, "config")
        \/ valid /\ Fault("connection") /\ Fail(o, c, "config")
        \/ valid /\ Fault("call") /\ Fail(o, c, "retry")
     /\ UNCHANGED externals

(***************************************************************************)
(* Reads the credentials Secret, whose failure reads as "not intact", and  *)
(* enters ensure_access_key: removed fields and ids that collide with the  *)
(* user are rejected before the server is asked anything.                  *)
(***************************************************************************)
ReadSecret(o, c) ==
  LET x == obj[o][c]
      k == Known(x)
      rejected == x.spec.passwordRef \/ k = x.spec.user
  IN /\ pc[o][c] = "readSecret"
     /\ \E intact \in BOOLEAN :
          /\ \/ intact = SecretIntact(c, k) /\ NoFault
             \/ ~intact /\ k # None /\ Fault("secretRead")
          /\ \/ /\ rejected
                /\ Fail(o, c, "config")
             \/ /\ ~rejected
                /\ Goto(o, c, IF k = None THEN "create" ELSE "get")
                /\ Remember(o, c, [NoLocal EXCEPT !.intact = intact])
     /\ UNCHANGED externals

GetAccessKey(o, c) ==
  LET k == Known(obj[o][c])
      intact == local[o][c].intact
  IN /\ pc[o][c] = "get"
     /\ \/ NamesUser(k) /\ NoFault /\ Fail(o, c, "retry")
        \/ Fault("call") /\ Fail(o, c, "retry")
        \/ Fault("notFound") /\ Goto(o, c, "create") /\ UNCHANGED local
        \/ /\ ~NamesUser(k) /\ Issued(k) /\ intact /\ NoFault
           /\ Goto(o, c, "status")
           /\ Remember(o, c, [NoLocal EXCEPT !.ak = k, !.result = "reconciled"])
        \/ /\ ~NamesUser(k) /\ ~(Issued(k) /\ intact) /\ NoFault
           /\ Goto(o, c, IF Issued(k) THEN "revoke" ELSE "create")
           /\ UNCHANGED local
     /\ UNCHANGED externals

(***************************************************************************)
(* delete_access_key treats an absent key as deleted; any error that       *)
(* mentions "not found" is taken for its absence.                          *)
(***************************************************************************)
DeleteAccessKey(k) == keys' = [keys EXCEPT ![k] = NoKey]

RevokeKey(o, c) ==
  /\ pc[o][c] = "revoke"
  /\ \/ /\ DeleteAccessKey(Known(obj[o][c])) /\ NoFault
        /\ Goto(o, c, "create") /\ UNCHANGED local
     \/ /\ DeleteAccessKey(Known(obj[o][c])) /\ Fault("reply")
        /\ Fail(o, c, "retry")
     \/ UNCHANGED keys /\ Fault("call") /\ Fail(o, c, "retry")
     \/ /\ UNCHANGED keys /\ Fault("notFound")
        /\ Goto(o, c, "create") /\ UNCHANGED local
  /\ UNCHANGED secret

(***************************************************************************)
(* create_access_key under the known id, or under a generated one.  The    *)
(* server rejects an id that is taken.                                     *)
(***************************************************************************)
CreateIds(o, c) ==
  IF Known(obj[o][c]) # None THEN {Known(obj[o][c])} ELSE GeneratedIds \ IdsInUse

CreateKey(o, c) ==
  /\ pc[o][c] = "create"
  /\ \E k \in CreateIds(o, c), sk \in SecretKeys \ SecretKeysInUse :
       LET free == ~NamesUser(k) /\ ~Issued(k)
           create == keys' = [keys EXCEPT ![k] =
                       [parent |-> obj[o][c].spec.user, sk |-> sk, by |-> c]]
       IN \/ /\ free /\ create /\ NoFault
             /\ Goto(o, c, "write")
             /\ Remember(o, c, [NoLocal EXCEPT !.ak = k, !.sk = sk])
          \/ free /\ create /\ Fault("reply") /\ Fail(o, c, "retry")
          \/ ~free /\ UNCHANGED keys /\ NoFault /\ Fail(o, c, "retry")
          \/ UNCHANGED keys /\ Fault("call") /\ Fail(o, c, "retry")
  /\ UNCHANGED secret

(***************************************************************************)
(* The Secret is applied with force and owned by this incarnation.         *)
(***************************************************************************)
CredentialsIfMissing(o, c) ==   \* mutant: an existing secretKey stays
  [ak |-> local[o][c].ak,
   sk |-> IF secret[c].sk = None THEN local[o][c].sk ELSE secret[c].sk,
   uid |-> obj[o][c].uid]

Credentials(o, c) ==
  [ak |-> local[o][c].ak, sk |-> local[o][c].sk, uid |-> obj[o][c].uid]

WriteSecret(o, c) ==
  LET written == [secret EXCEPT ![c] = Credentials(o, c)]
  IN /\ pc[o][c] = "write"
     /\ \/ /\ secret' = written /\ NoFault
           /\ Goto(o, c, "status")
           /\ Remember(o, c, [NoLocal EXCEPT !.ak = local[o][c].ak,
                                             !.result = "reconciled"])
        \/ UNCHANGED secret /\ Fault("secretWrite") /\ Fail(o, c, "retry")
        \/ secret' = written /\ Fault("reply") /\ Fail(o, c, "retry")
     /\ UNCHANGED keys

(***************************************************************************)
(* A merge patch leaves a field it does not name as the server has it: a   *)
(* failed reconciliation repeats the id its snapshot knew, if any.         *)
(***************************************************************************)
ReportedKeyOrNull(o, c) == local[o][c].ak   \* mutant: an error clears the id

ReportedKey(o, c) ==
  CASE local[o][c].result = "reconciled"  -> local[o][c].ak
    [] local[o][c].result # "reconciled" /\ obj[o][c].status.accessKey # None
                                          -> obj[o][c].status.accessKey
    [] OTHER                              -> cr[c].status.accessKey

(***************************************************************************)
(* The generation reported is the snapshot's, the one apply() acted upon.  *)
(***************************************************************************)
ObservedGenerationLatest(o, c) == cr[c].gen   \* mutant: the server's

ObservedGenerationHeartbeat(o, c) ==   \* mutant: every patch changes it
  IF cr[c].status.observed = obj[o][c].gen THEN 0 ELSE obj[o][c].gen

ObservedGeneration(o, c) == obj[o][c].gen

RequeueOnError(result) ==   \* mutant: success is not re-checked
  IF result = "reconciled" THEN "none" ELSE ErrorPolicy(result)

Requeue(result) ==
  IF result = "reconciled" THEN "ok" ELSE ErrorPolicy(result)

UpdateStatus(o, c) ==
  LET st == [message |-> local[o][c].result,
             observed |-> ObservedGeneration(o, c),
             accessKey |-> ReportedKey(o, c)]
  IN /\ pc[o][c] = "status"
     /\ PatchStatus(o, c, st, Requeue(local[o][c].result))
     /\ Remember(o, c, NoLocal)
     /\ UNCHANGED externals

-----------------------------------------------------------------------------
(***************************************************************************)
(* cleanup(), call by call.  It reports its errors to error_policy only.   *)
(***************************************************************************)
NothingRecorded(x) ==   \* mutant: a pinned id not yet in .status is missed
  x.spec.deletion = "Retain" \/ x.status.accessKey = None

NothingPinned(x) ==   \* mutant: a generated id is missed
  x.spec.deletion = "Retain" \/ x.spec.accessKey = None

NothingToRevoke(x) == x.spec.deletion = "Retain" \/ Known(x) = None

CleanupFails(o, c, e) == Finish(o, c, ErrorPolicy(e)) /\ UNCHANGED cr

Cleanup(o, c) ==
  LET x == obj[o][c]
      valid == x.spec.connection = "ok"
  IN /\ pc[o][c] = "cleanup"
     /\ \/ NothingToRevoke(x) /\ NoFault /\ Goto(o, c, "removeFinalizer")
        \/ /\ ~NothingToRevoke(x) /\ valid /\ NoFault
           /\ Goto(o, c, IF Known(x) = x.spec.user THEN "removeFinalizer" ELSE "cleanupRevoke")
        \/ ~NothingToRevoke(x) /\ ~valid /\ NoFault /\ CleanupFails(o, c, "config")
        \/ ~NothingToRevoke(x) /\ valid /\ Fault("connection") /\ CleanupFails(o, c, "config")
        \/ ~NothingToRevoke(x) /\ valid /\ Fault("call") /\ CleanupFails(o, c, "retry")
     /\ UNCHANGED <<keys, secret, local>>

CleanupRevoke(o, c) ==
  LET k == Known(obj[o][c])
  IN /\ pc[o][c] = "cleanupRevoke"
     /\ \/ /\ ~NamesUser(k) /\ DeleteAccessKey(k) /\ NoFault
           /\ Goto(o, c, "removeFinalizer")
        \/ NamesUser(k) /\ UNCHANGED keys /\ NoFault /\ CleanupFails(o, c, "retry")
        \/ UNCHANGED keys /\ Fault("call") /\ CleanupFails(o, c, "retry")
        \/ UNCHANGED keys /\ Fault("notFound") /\ Goto(o, c, "removeFinalizer")
        \/ ~NamesUser(k) /\ DeleteAccessKey(k) /\ Fault("reply") /\ CleanupFails(o, c, "retry")
     /\ UNCHANGED <<secret, local>>

-----------------------------------------------------------------------------
(***************************************************************************)
(* The world outside the operator: people and other tools lose the Secret, *)
(* its secretKey entry or the server's key; the garbage collector removes  *)
(* a Secret whose owner is gone.                                           *)
(***************************************************************************)
LoseSecret(c) ==
  /\ secret[c].ak # None
  /\ Fault("drift")
  /\ \/ secret' = [secret EXCEPT ![c] = NoSecret]
     \/ secret' = [secret EXCEPT ![c].sk = None]
  /\ UNCHANGED <<cr, cache, obj, pc, wake, keys, local>>

LoseKey(k) ==
  /\ Issued(k)
  /\ Fault("drift")
  /\ DeleteAccessKey(k)
  /\ UNCHANGED <<cr, cache, obj, pc, wake, secret, local>>

OwnerGone(c) == ~Exists(cr[c]) \/ cr[c].uid # secret[c].uid

CollectSecret(c) ==
  /\ secret[c].ak # None /\ OwnerGone(c)
  /\ secret' = [secret EXCEPT ![c] = NoSecret]
  /\ UNCHANGED <<cr, cache, obj, pc, wake, faults, keys, local>>

-----------------------------------------------------------------------------
Apply(o, c) ==
  \/ ResolveConnection(o, c) \/ ReadSecret(o, c) \/ GetAccessKey(o, c)
  \/ RevokeKey(o, c) \/ CreateKey(o, c) \/ WriteSecret(o, c)
  \/ UpdateStatus(o, c)

Runtime(o, c) ==
  /\ Start(o, c) \/ AddFinalizer(o, c) \/ RemoveFinalizer(o, c)
  /\ UNCHANGED <<keys, secret, local>>

Reconcile(o, c) ==
  Runtime(o, c) \/ Apply(o, c) \/ Cleanup(o, c) \/ CleanupRevoke(o, c)

Watch(o, c) == Deliver(o, c) /\ UNCHANGED <<keys, secret, local>>

Crash(o) ==
  /\ Restart(o)
  /\ local' = [local EXCEPT ![o] = [c \in CRs |-> NoLocal]]
  /\ UNCHANGED externals

UserStep(c) ==
  /\ \/ \E s \in Specs : CreateCR(c, s) \/ EditCR(c, s)
     \/ DeleteCR(c)
  /\ UNCHANGED <<keys, secret, local>>

Next ==
  \/ \E o \in Operators, c \in CRs : Reconcile(o, c) \/ Watch(o, c)
  \/ \E o \in Operators : Crash(o)
  \/ \E c \in CRs : UserStep(c) \/ LoseSecret(c) \/ CollectSecret(c)
  \/ \E k \in KeyIds : LoseKey(k)

SafetySpec == Init /\ [][Next]_vars

(***************************************************************************)
(* A live process makes progress on every reconciliation it has started or *)
(* has scheduled (timers fire), watches deliver, garbage is collected.     *)
(* Nothing is assumed of users or of faults.                               *)
(***************************************************************************)
Fairness ==
  /\ \A o \in Operators, c \in CRs : WF_vars(Reconcile(o, c)) /\ WF_vars(Watch(o, c))
  /\ \A c \in CRs : WF_vars(CollectSecret(c))

Spec == SafetySpec /\ Fairness

-----------------------------------------------------------------------------
(***************************************************************************)
(* Properties.                                                             *)
(***************************************************************************)
ApplySteps == {"apply", "readSecret", "get", "revoke", "create", "write", "status"}

CleanupSteps == {"cleanup", "cleanupRevoke", "removeFinalizer"}

Steps == {"idle", "addFinalizer"} \union ApplySteps \union CleanupSteps

KeyRecords ==
  [parent : Users \union {None}, sk : SecretKeys \union {None},
   by : CRs \union {None}]

SecretRecords ==
  [ak : KeyIds \union {None}, sk : SecretKeys \union {None}, uid : Nat]

LocalRecords ==
  [intact : BOOLEAN, ak : KeyIds \union {None}, sk : SecretKeys \union {None},
   result : Messages \union {None}]

LocalsSet ==
  \A o \in Operators, c \in CRs :
    /\ pc[o][c] = "write" => local[o][c].ak # None /\ local[o][c].sk # None
    /\ pc[o][c] = "status" => local[o][c].result # None

(***************************************************************************)
(* Every variable has the type its declaration in the code gives it; where *)
(* the reconciliation stands decides which of its locals are set: an       *)
(* Issued outcome has both halves of the pair, a result is Ok or Err.      *)
(***************************************************************************)
TypeOK ==
  /\ RuntimeTypeOK(Objects(Specs, AccessKeyStatus), Steps)
  /\ keys \in [KeyIds -> KeyRecords]
  /\ secret \in [CRs -> SecretRecords]
  /\ local \in [Operators -> [CRs -> LocalRecords]]
  /\ LocalsSet

(***************************************************************************)
(* A key is issued only for a resource that still carries the finalizer:   *)
(* whatever lags, fails or crashes, the resource cannot vanish without a   *)
(* cleanup of it.                                                          *)
(***************************************************************************)
IssueNeedsFinalizer ==
  [][\A k \in KeyIds : ~Issued(k) /\ Issued(k)' => cr[keys'[k].by].finalizer]_vars

(***************************************************************************)
(* Why that is so with a single operator: what a running reconciliation    *)
(* and the store may still say of the resource.                            *)
(***************************************************************************)
SnapshotInv == SnapshotsOK(ApplySteps, CleanupSteps)

(***************************************************************************)
(* When a resource with deletionPolicy Delete is gone, every key that was  *)
(* issued for it is revoked.                                               *)
(***************************************************************************)
GoneMeansRevoked ==
  \A c \in CRs, k \in KeyIds :
    ~Exists(cr[c]) /\ cr[c].spec.deletion = "Delete" => keys[k].by # c

(***************************************************************************)
(* One resource has one key on the server, however often its calls are     *)
(* retried, as long as the id of a generated key reaches .status.  If the  *)
(* id is lost (the reply of create, the write of the Secret or the status  *)
(* patch fails, the process dies before the patch) or the snapshot of the  *)
(* next reconciliation predates the patch, ensure_access_key knows no id   *)
(* and issues a second key.                                                *)
(***************************************************************************)
OneKeyPerCR ==
  \A j, k \in KeyIds : keys[j].by = keys[k].by /\ Issued(j) => j = k

(***************************************************************************)
(* The Secret and the server agree on the secret key of an id they both    *)
(* have, except between the call that issues it and the one that writes it.*)
(***************************************************************************)
PairConsistent ==
  \A c \in CRs, k \in KeyIds :
    secret[c].ak = k /\ secret[c].sk # None /\ Issued(k)
      => \/ secret[c].sk = keys[k].sk
         \/ \E o \in Operators : pc[o][c] = "write" /\ local[o][c].ak = k

(***************************************************************************)
(* The step that ends ensure_access_key with KeyOutcome::Kept.             *)
(***************************************************************************)
Keeps(o, c) == pc[o][c] = "get" /\ local'[o][c].result = "reconciled"

(***************************************************************************)
(* "Kept" means that what the Secret holds for the key opens the server.   *)
(***************************************************************************)
KeptIsIntact ==
  [][\A o \in Operators, c \in CRs :
       Keeps(o, c) /\ SecretIntact(c, Known(obj[o][c]))
         => secret[c].sk = keys[Known(obj[o][c])].sk]_vars

(***************************************************************************)
(* A reconciliation revokes a key only when nobody holds its secret key    *)
(* any more.                                                               *)
(***************************************************************************)
RevokeOnlyLost ==
  [][\A o \in Operators, c \in CRs :
       pc[o][c] = "revoke" /\ pc'[o][c] # "revoke" /\ keys' # keys
         => \A d \in CRs : secret[d].sk # keys[Known(obj[o][c])].sk]_vars

(***************************************************************************)
(* A spec that apply() accepts.                                            *)
(***************************************************************************)
Acceptable(s) ==
  s.connection = "ok" /\ ~s.passwordRef /\ ~NamesUser(s.accessKey)

(***************************************************************************)
(* ready with the current generation means that this very spec, and not an *)
(* older one, is the one apply() accepted, and names the key in use.       *)
(***************************************************************************)
ReadyIsCurrent ==
  \A c \in CRs :
    LET st == cr[c].status IN
    Exists(cr[c]) /\ st.message = "reconciled" /\ st.observed = cr[c].gen
      => /\ Acceptable(cr[c].spec)
         /\ cr[c].spec.accessKey \in {None, st.accessKey}

(***************************************************************************)
(* The id in .status is never lost while the resource lives, whatever a    *)
(* stale snapshot or a failed reconciliation reports: it may be the only   *)
(* handle on a generated key.                                              *)
(***************************************************************************)
RecordedKeyKept ==
  [][\A c \in CRs :
       cr[c].uid = cr'[c].uid /\ cr[c].status.accessKey # None
         => cr'[c].status.accessKey # None]_vars

(***************************************************************************)
(* The live resource is as it should end up.                               *)
(***************************************************************************)
Settled(c) ==
  LET st == cr[c].status
      s == cr[c].spec
  IN /\ st.observed = cr[c].gen
     /\ IF Acceptable(s)
          THEN /\ st.message = "reconciled"
               /\ Issued(st.accessKey)
               /\ SecretIntact(c, st.accessKey)
          ELSE st.message \in {"config", "retry"}

(***************************************************************************)
(* Once users and faults are quiet, .status tells the truth about the      *)
(* current spec: ready with a key on the server and the Secret, or the     *)
(* error that needs an edit.                                               *)
(***************************************************************************)
Converges == <>[](\A c \in CRs : cr[c].phase = "live" => Settled(c))

(***************************************************************************)
(* A resource whose key the server cannot be made to revoke.               *)
(***************************************************************************)
Irrevocable(x) ==
  /\ ~NothingToRevoke(x)
  /\ x.spec.connection # "ok" \/ (NamesUser(Known(x)) /\ Known(x) # x.spec.user)

(***************************************************************************)
(* A deleted resource goes away unless its key cannot be revoked: the      *)
(* connection is unusable, or the id is another user's name.               *)
(***************************************************************************)
DeletedEventuallyGone ==
  <>[](\A c \in CRs : cr[c].phase = "deleting" => Irrevocable(cr[c]))

(***************************************************************************)
(* The status patches of a reconciliation do not keep triggering the next. *)
(***************************************************************************)
Quiescent == <>[](\A o \in Operators, c \in CRs : wake[o][c] # "now")
=============================================================================
