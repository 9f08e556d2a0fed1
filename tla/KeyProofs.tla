------------------------------ MODULE KeyProofs ------------------------------
(***************************************************************************)
(* Theorems about the keys that AccessKeyController issues: who owns them, *)
(* who has their secret keys, and when they go.                            *)
(***************************************************************************)
EXTENDS AccessKeyProofs

Running == ApplySteps \union CleanupSteps

(***************************************************************************)
(* How one step leaves operator o's reconciliation of c: where it was,     *)
(* dead with its process, or a step of its own further.                    *)
(***************************************************************************)
Stays(o, c) ==
  pc'[o][c] = pc[o][c] /\ obj'[o][c] = obj[o][c] /\ local'[o][c] = local[o][c]

Dies(o, c) ==
  "crash" \in FaultKinds /\ pc'[o][c] = "idle" /\ local'[o][c] = NoLocal

\* A reconciliation that takes a step leaves all others where they are.
LEMMA Elsewhere ==
  ASSUME TypeOK, NEW o \in Operators, NEW c \in CRs, Reconcile(o, c),
         NEW p \in Operators, NEW d \in CRs, p # o \/ d # c
  PROVE  Stays(p, d)
<1>0. /\ pc \in [Operators -> [CRs -> Steps]] /\ obj \in [Operators -> [CRs -> ApiObjects]]
      /\ local \in [Operators -> [CRs -> LocalRecords]]
  BY DEF TypeOK, RuntimeTypeOK, ApiObjects
<1>1. ASSUME NEW l, Goto(o, c, l)
      PROVE  pc'[p][d] = pc[p][d] /\ obj'[p][d] = obj[p][d]
  BY <1>0, <1>1 DEF Goto
<1>2. ASSUME NEW e, Finish(o, c, e)
      PROVE  pc'[p][d] = pc[p][d] /\ obj'[p][d] = obj[p][d]
  BY <1>0, <1>2 DEF Finish
<1>3. ASSUME NEW r, Remember(o, c, r)
      PROVE  local'[p][d] = local[p][d]
  BY <1>0, <1>3 DEF Remember
<1>4. ASSUME NEW e, Fail(o, c, e)
      PROVE  Stays(p, d)
  BY <1>1, <1>3, <1>4 DEF Fail, Stays
<1>5. CASE Runtime(o, c)
  BY <1>0, <1>2, <1>5 DEF Runtime, Start, AddFinalizer, RemoveFinalizer, Stays
<1>6. CASE Cleanup(o, c) \/ CleanupRevoke(o, c)
  BY <1>1, <1>2, <1>6 DEF Cleanup, CleanupRevoke, CleanupFails, Stays
<1>7. CASE UpdateStatus(o, c)
  BY <1>2, <1>3, <1>7 DEF UpdateStatus, PatchStatus, Stays
<1>8. CASE ResolveConnection(o, c)
  BY <1>1, <1>4, <1>8 DEF ResolveConnection, Stays
<1>9. CASE ReadSecret(o, c)
  BY <1>1, <1>3, <1>4, <1>9 DEF ReadSecret, Stays
<1>10. CASE GetAccessKey(o, c)
  BY <1>1, <1>3, <1>4, <1>10 DEF GetAccessKey, Stays
<1>11. CASE RevokeKey(o, c)
  BY <1>1, <1>4, <1>11 DEF RevokeKey, Stays
<1>12. CASE CreateKey(o, c)
  BY <1>1, <1>3, <1>4, <1>12 DEF CreateKey, Stays
<1>13. CASE WriteSecret(o, c)
  BY <1>1, <1>3, <1>4, <1>13 DEF WriteSecret, Stays
<1> QED
  BY <1>5, <1>6, <1>7, <1>8, <1>9, <1>10, <1>11, <1>12, <1>13 DEF Reconcile, Apply

\* These are all the ways.
LEMMA Fates ==
  ASSUME TypeOK, [Next]_vars, NEW p \in Operators, NEW d \in CRs
  PROVE  Reconcile(p, d) \/ Stays(p, d) \/ Dies(p, d)
<1>0. /\ pc \in [Operators -> [CRs -> Steps]] /\ obj \in [Operators -> [CRs -> ApiObjects]]
      /\ local \in [Operators -> [CRs -> LocalRecords]]
  BY DEF TypeOK, RuntimeTypeOK, ApiObjects
<1>1. ASSUME NEW o \in Operators, NEW c \in CRs, Reconcile(o, c)
      PROVE  Reconcile(p, d) \/ Stays(p, d)
  BY <1>1, Elsewhere
<1>2. ASSUME NEW o \in Operators, Crash(o)
      PROVE  Stays(p, d) \/ Dies(p, d)
  BY <1>0, <1>2 DEF Crash, Restart, Fault, Stays, Dies
<1>3. ASSUME UNCHANGED <<pc, obj, local>>
      PROVE  Stays(p, d)
  BY <1>3 DEF Stays
<1> QED
  BY <1>1, <1>2, <1>3
  DEF Next, vars, Watch, Deliver, UserStep, CreateCR, EditCR, DeleteCR, LoseSecret,
      CollectSecret, LoseKey

(***************************************************************************)
(* How a reconciliation goes on: it ends, or stays what it is with the     *)
(* snapshot it has, or starts on what the store has.                       *)
(***************************************************************************)
Ends(o, c) == pc'[o][c] \in {"idle", "addFinalizer"}

GoesOn(o, c) ==
  /\ obj'[o][c] = obj[o][c]
  /\ \/ pc[o][c] \in ApplySteps /\ pc'[o][c] \in ApplySteps
     \/ pc[o][c] \in CleanupSteps /\ pc'[o][c] \in CleanupSteps

Begins(o, c) ==
  /\ obj'[o][c] = cache[o][c]
  /\ pc'[o][c] = FinalizerEvent(cache[o][c])
  /\ CacheMayLag \/ cache[o][c] = cr[c]
  /\ UNCHANGED <<cr, cache>>

\* So do its own steps.
LEMMA OwnGoes ==
  ASSUME TypeOK, NEW o \in Operators, NEW c \in CRs, Reconcile(o, c)
  PROVE  Ends(o, c) \/ GoesOn(o, c) \/ Begins(o, c)
<1>0. /\ pc \in [Operators -> [CRs -> Steps]] /\ obj \in [Operators -> [CRs -> ApiObjects]]
  BY DEF TypeOK, RuntimeTypeOK, ApiObjects
<1>1. ASSUME NEW l \in ApplySteps, pc[o][c] \in ApplySteps, Goto(o, c, l)
      PROVE  GoesOn(o, c)
  BY <1>0, <1>1 DEF Goto, GoesOn, ApplySteps
<1>2. ASSUME NEW l \in CleanupSteps, pc[o][c] \in CleanupSteps, Goto(o, c, l)
      PROVE  GoesOn(o, c)
  BY <1>0, <1>2 DEF Goto, GoesOn, CleanupSteps
<1>3. ASSUME NEW e, Finish(o, c, e)
      PROVE  Ends(o, c)
  BY <1>0, <1>3 DEF Finish, Ends
<1>4. ASSUME NEW e, Fail(o, c, e), pc[o][c] \in ApplySteps
      PROVE  GoesOn(o, c)
  BY <1>1, <1>4 DEF Fail, ApplySteps
<1>5. CASE Runtime(o, c)
  BY <1>0, <1>3, <1>5 DEF Runtime, Start, AddFinalizer, RemoveFinalizer, Begins, Ends
<1>6. CASE Cleanup(o, c) \/ CleanupRevoke(o, c)
  BY <1>2, <1>3, <1>6 DEF Cleanup, CleanupRevoke, CleanupFails, CleanupSteps
<1>7. CASE UpdateStatus(o, c)
  BY <1>3, <1>7 DEF UpdateStatus, PatchStatus
<1>8. CASE ResolveConnection(o, c)
  BY <1>1, <1>4, <1>8 DEF ResolveConnection, ApplySteps
<1>9. CASE ReadSecret(o, c)
  BY <1>1, <1>4, <1>9 DEF ReadSecret, ApplySteps
<1>10. CASE GetAccessKey(o, c)
  BY <1>1, <1>4, <1>10 DEF GetAccessKey, ApplySteps
<1>11. CASE RevokeKey(o, c)
  BY <1>1, <1>4, <1>11 DEF RevokeKey, ApplySteps
<1>12. CASE CreateKey(o, c)
  BY <1>1, <1>4, <1>12 DEF CreateKey, ApplySteps
<1>13. CASE WriteSecret(o, c)
  BY <1>1, <1>4, <1>13 DEF WriteSecret, ApplySteps
<1> QED
  BY <1>5, <1>6, <1>7, <1>8, <1>9, <1>10, <1>11, <1>12, <1>13 DEF Reconcile, Apply

\* How the store goes on.
LEMMA Caching ==
  ASSUME TypeOK, [Next]_vars, NEW p \in Operators, NEW d \in CRs
  PROVE  cache'[p][d] = cache[p][d] \/ cache'[p][d] = cr'[d]
<1>0. cache \in [Operators -> [CRs -> ApiObjects]]
  BY DEF TypeOK, RuntimeTypeOK, ApiObjects
<1>1. ASSUME NEW o \in Operators, NEW c \in CRs, Reconcile(o, c)
      PROVE  cache' = cache
  BY <1>1
  DEF Reconcile, Runtime, Start, AddFinalizer, RemoveFinalizer, Apply, ResolveConnection,
      ReadSecret, GetAccessKey, RevokeKey, CreateKey, WriteSecret, UpdateStatus, PatchStatus,
      Cleanup, CleanupRevoke, CleanupFails, Fail, Goto, Finish
<1>2. ASSUME NEW o \in Operators, NEW c \in CRs, Watch(o, c)
      PROVE  cache'[p][d] = cache[p][d] \/ cache'[p][d] = cr'[d]
  BY <1>0, <1>2 DEF Watch, Deliver
<1>3. ASSUME NEW o \in Operators, Crash(o)
      PROVE  cache'[p][d] = cache[p][d] \/ cache'[p][d] = cr'[d]
  BY <1>0, <1>3 DEF Crash, Restart
<1> QED
  BY <1>1, <1>2, <1>3
  DEF Next, vars, UserStep, CreateCR, EditCR, DeleteCR, LoseSecret, CollectSecret, LoseKey

-----------------------------------------------------------------------------
(***************************************************************************)
(* What a step makes of a key and of a Secret.                             *)
(***************************************************************************)
Creates(o, c, k) ==
  /\ pc[o][c] = "create" /\ k \in CreateIds(o, c) /\ ~NamesUser(k) /\ ~Issued(k)
  /\ keys'[k].by = c
  /\ keys'[k].sk \in SecretKeys \ SecretKeysInUse
  /\ \/ /\ pc'[o][c] = "write"
        /\ local'[o][c] = [NoLocal EXCEPT !.ak = k, !.sk = keys'[k].sk]
     \/ /\ "reply" \in FaultKinds
        /\ pc'[o][c] = "status" /\ local'[o][c] = [NoLocal EXCEPT !.result = "retry"]
  /\ UNCHANGED <<cr, cache, obj, secret>>

\* A key stays as it is, goes, or is created.
LEMMA KeyCases ==
  ASSUME TypeOK, [Next]_vars, NEW k \in KeyIds
  PROVE  \/ keys'[k] = keys[k] \/ keys'[k] = NoKey
         \/ \E o \in Operators, c \in CRs : Reconcile(o, c) /\ Creates(o, c, k)
<1>0. /\ pc \in [Operators -> [CRs -> Steps]] /\ local \in [Operators -> [CRs -> LocalRecords]]
      /\ keys \in [KeyIds -> KeyRecords]
  BY DEF TypeOK, RuntimeTypeOK
<1>1. ASSUME \E j : DeleteAccessKey(j)
      PROVE  keys'[k] = keys[k] \/ keys'[k] = NoKey
  BY <1>0, <1>1 DEF DeleteAccessKey
<1>2. ASSUME NEW o \in Operators, NEW c \in CRs, CreateKey(o, c), keys'[k] # keys[k]
      PROVE  Creates(o, c, k)
  <2>1. PICK j \in CreateIds(o, c), sk \in SecretKeys \ SecretKeysInUse :
          /\ ~NamesUser(j) /\ ~Issued(j)
          /\ keys' = [keys EXCEPT ![j] = [parent |-> obj[o][c].spec.user, sk |-> sk, by |-> c]]
          /\ \/ /\ Goto(o, c, "write") /\ Remember(o, c, [NoLocal EXCEPT !.ak = j, !.sk = sk])
             \/ Fault("reply") /\ Fail(o, c, "retry")
    BY <1>2 DEF CreateKey
  <2>2. j = k /\ keys'[k].by = c /\ keys'[k].sk = sk
    BY <1>0, <1>2, <2>1
  <2>3. /\ \/ /\ pc'[o][c] = "write" /\ local'[o][c] = [NoLocal EXCEPT !.ak = j, !.sk = sk]
           \/ /\ "reply" \in FaultKinds /\ pc'[o][c] = "status"
              /\ local'[o][c] = [NoLocal EXCEPT !.result = "retry"]
        /\ UNCHANGED <<cr, cache, obj>>
    BY <1>0, <2>1 DEF Goto, Remember, Fail, Fault
  <2> QED
    BY <1>2, <2>1, <2>2, <2>3 DEF Creates, CreateKey
<1>3. ASSUME NEW o \in Operators, NEW c \in CRs, Reconcile(o, c), keys'[k] # keys[k],
             keys'[k] # NoKey
      PROVE  CreateKey(o, c)
  BY <1>1, <1>3
  DEF Reconcile, Runtime, Apply, ResolveConnection, ReadSecret, GetAccessKey, RevokeKey,
      WriteSecret, UpdateStatus, Cleanup, CleanupRevoke, externals
<1> QED
  BY <1>1, <1>2, <1>3
  DEF Next, vars, externals, Watch, Crash, UserStep, LoseSecret, CollectSecret, LoseKey

Writes(o, c) == pc[o][c] = "write" /\ secret'[c] = Credentials(o, c)

\* A Secret stays as it is, loses its secretKey or is written.
LEMMA SecretCases ==
  ASSUME TypeOK, [Next]_vars, NEW c \in CRs
  PROVE  \/ secret'[c] = secret[c]
         \/ secret'[c].sk = None /\ secret'[c].ak \in {None, secret[c].ak}
         \/ \E o \in Operators : Reconcile(o, c) /\ Writes(o, c)
<1>0. secret \in [CRs -> SecretRecords]
  BY DEF TypeOK
<1>1. ASSUME NEW d \in CRs, LoseSecret(d) \/ CollectSecret(d)
      PROVE  secret'[c] = secret[c] \/ (secret'[c].sk = None /\ secret'[c].ak \in {None, secret[c].ak})
  BY <1>0, <1>1 DEF LoseSecret, CollectSecret, NoSecret, SecretRecords
<1>2. ASSUME NEW o \in Operators, NEW d \in CRs, WriteSecret(o, d), secret'[c] # secret[c]
      PROVE  d = c /\ Writes(o, c)
  BY <1>0, <1>2 DEF WriteSecret, Writes
<1>3. ASSUME NEW o \in Operators, NEW d \in CRs, Reconcile(o, d), secret' # secret
      PROVE  WriteSecret(o, d)
  BY <1>3
  DEF Reconcile, Runtime, Apply, ResolveConnection, ReadSecret, GetAccessKey, RevokeKey,
      CreateKey, UpdateStatus, Cleanup, CleanupRevoke, externals
<1> QED
  BY <1>1, <1>2, <1>3
  DEF Next, vars, externals, Watch, Crash, UserStep, LoseKey

-----------------------------------------------------------------------------
(***************************************************************************)
(* What is proved of deletions is proved for users who leave the id and    *)
(* the deletion policy of a resource alone as long as it exists, or its    *)
(* key was left to it.                                                     *)
(***************************************************************************)
Alike(x, y) ==
  x.spec.accessKey = y.spec.accessKey /\ x.spec.deletion = y.spec.deletion

Kept(c) == cr[c].spec.deletion = "Retain"

Holds(c) == cr[c].uid # 0 /\ (Exists(cr[c]) \/ Kept(c))

Steady == \A c \in CRs : Holds(c) => Alike(cr[c], cr'[c])

(***************************************************************************)
(* The copies of one incarnation are then alike; and if reconciliations    *)
(* start from what the server has, their snapshots know the id it knows.   *)
(***************************************************************************)
Identical(o, c) ==
  /\ Exists(cr[c]) => cr[c].uid # 0
  /\ cache[o][c].uid = cr[c].uid => Alike(cache[o][c], cr[c])
  /\ pc[o][c] \in Running /\ obj[o][c].uid = cr[c].uid =>
       /\ Alike(obj[o][c], cr[c])
       /\ ~CacheMayLag => obj[o][c].status = cr[c].status

IdentityInv == \A o \in Operators, c \in CRs : Identical(o, c)

\* How the server's copy goes on.
LEMMA CopyIdentity ==
  ASSUME TypeOK, SnapshotInv, [Next]_vars, Steady, NEW c \in CRs, Exists(cr[c]) => cr[c].uid # 0
  PROVE  /\ Exists(cr'[c]) => cr'[c].uid # 0
         /\ \/ cr'[c].uid = cr[c].uid + 1 /\ cr'[c].finalizer = FALSE /\ ~Exists(cr[c])
            \/ /\ cr'[c].uid = cr[c].uid /\ (Exists(cr'[c]) => Exists(cr[c]))
               /\ Alike(cr[c], cr'[c])
               /\ \/ cr'[c].status = cr[c].status
                  \/ \E o \in Operators : Reports(o, c)
<1>0. cr[c] \in ApiObjects /\ cr[c].uid \in Nat /\ cr[c].phase \in Phases
  BY DEF TypeOK, RuntimeTypeOK, ApiObjects, Objects
<1>1. CASE \E o \in Operators : Reports(o, c)
  BY <1>0, <1>1 DEF Reports, Exists, Alike, ApiObjects, Objects
<1>2. CASE Run!Created(cr[c], cr'[c])
  BY <1>0, <1>2 DEF Run!Created, Run!Exists, Exists
<1>3. CASE Run!Edited(cr[c], cr'[c])
  <2>1. Alike(cr[c], cr'[c])
    BY <1>3 DEF Run!Edited, Run!Exists, Steady, Holds, Exists
  <2> QED
    BY <1>3, <2>1 DEF Run!Edited, Run!Exists, Exists
<1>4. CASE \/ cr'[c] = cr[c] \/ Run!Deleted(cr[c], cr'[c])
           \/ Run!Added(cr[c], cr'[c]) \/ Run!Released(cr[c], cr'[c])
  BY <1>0, <1>4 DEF Run!Deleted, Run!Added, Run!Released, Alike, Exists, Phases
<1> QED
  BY <1>1, <1>2, <1>3, <1>4, WriteCases DEF Rewritten

\* A status is reported by the step with which apply() ends.
LEMMA StatusWriter ==
  ASSUME TypeOK, [Next]_vars, NEW c \in CRs, Exists(cr[c]), cr'[c].status # cr[c].status
  PROVE  \E o \in Operators : UpdateStatus(o, c) /\ pc'[o][c] = "idle"
<1>0. cr \in [CRs -> ApiObjects] /\ pc \in [Operators -> [CRs -> Steps]] /\ cr[c] \in ApiObjects
  BY DEF TypeOK, RuntimeTypeOK, ApiObjects
<1>1. ASSUME NEW d \in CRs, UserStep(d)
      PROVE  FALSE
  <2>1. CASE \E s : CreateCR(d, s)
    BY <1>0, <2>1 DEF CreateCR
  <2>2. CASE \E s : EditCR(d, s)
    BY <1>0, <2>2 DEF EditCR, ApiObjects, Objects
  <2>3. CASE DeleteCR(d)
    BY <1>0, <2>3 DEF DeleteCR, ApiObjects, Objects
  <2> QED
    BY <1>1, <2>1, <2>2, <2>3 DEF UserStep
<1>2. ASSUME NEW o \in Operators, NEW d \in CRs, UpdateStatus(o, d)
      PROVE  d = c /\ pc'[o][c] = "idle"
  BY <1>0, <1>2 DEF UpdateStatus, PatchStatus, Finish
<1>3. ASSUME NEW o \in Operators, NEW d \in CRs, AddFinalizer(o, d) \/ RemoveFinalizer(o, d)
      PROVE  FALSE
  BY <1>0, <1>3 DEF AddFinalizer, RemoveFinalizer, ApiObjects, Objects
<1>4. ASSUME NEW o \in Operators, NEW d \in CRs, Reconcile(o, d)
      PROVE  UpdateStatus(o, d)
  BY <1>3, <1>4
  DEF Reconcile, Runtime, Start, Apply, ResolveConnection, ReadSecret, GetAccessKey, RevokeKey,
      CreateKey, WriteSecret, Cleanup, CleanupRevoke, CleanupFails, Fail, Goto
<1> QED
  BY <1>1, <1>2, <1>4
  DEF Next, vars, Watch, Deliver, Crash, Restart, LoseSecret, CollectSecret, LoseKey

\* The copies stay alike,
LEMMA IdentityStep ==
  ASSUME TypeOK, SnapshotInv, IdentityInv, SoleOperator, [Next]_vars, Steady
  PROVE  IdentityInv'
<1> SUFFICES ASSUME NEW o \in Operators, NEW c \in CRs
             PROVE  Identical(o, c)'
  BY DEF IdentityInv
<1>0. /\ Identical(o, c) /\ CacheOK(cache[o][c], cr[c])
      /\ RunOK(pc[o][c], obj[o][c], cache[o][c], cr[c], ApplySteps, CleanupSteps)
      /\ cr[c].uid \in Nat /\ cache[o][c].uid \in Nat /\ obj[o][c].uid \in Nat
  BY DEF IdentityInv, SnapshotInv, SnapshotsOK, TypeOK, RuntimeTypeOK, Objects
<1>1. /\ Exists(cr'[c]) => cr'[c].uid # 0
      /\ \/ cr'[c].uid = cr[c].uid + 1 /\ cr'[c].finalizer = FALSE /\ ~Exists(cr[c])
         \/ /\ cr'[c].uid = cr[c].uid
            /\ Alike(cr[c], cr'[c])
  BY <1>0, CopyIdentity DEF Identical
<1>2. /\ cache[o][c].uid <= cr[c].uid
      /\ pc[o][c] \in Running => obj[o][c].uid <= cr[c].uid
  BY <1>0 DEF CacheOK, RunOK, Earlier, Running
<1>3. cache[o][c].uid = cr'[c].uid => cr'[c].uid = cr[c].uid /\ Alike(cache[o][c], cr'[c])
  BY <1>0, <1>1, <1>2 DEF Identical, Alike
<1>4. cache'[o][c].uid = cr'[c].uid => Alike(cache'[o][c], cr'[c])
  BY <1>3, Caching DEF Alike
<1>5. ASSUME pc'[o][c] \in Running, obj'[o][c].uid = cr'[c].uid
      PROVE  Alike(obj'[o][c], cr'[c]) /\ (~CacheMayLag => obj'[o][c].status = cr'[c].status)
  <2>1. CASE Begins(o, c)
    BY <1>3, <1>5, <2>1 DEF Begins
  <2>2. CASE obj'[o][c] = obj[o][c] /\ pc[o][c] \in Running
    <3>1. /\ obj[o][c].uid = cr[c].uid /\ Alike(obj[o][c], cr'[c])
          /\ ~CacheMayLag => obj[o][c].status = cr[c].status
      BY <1>0, <1>1, <1>2, <1>5, <2>2 DEF Identical, Alike
    <3>2. CASE cr'[c].status = cr[c].status
      BY <2>2, <3>1, <3>2
    <3>3. CASE cr'[c].status # cr[c].status
      <4>1. CASE Exists(cr[c])
        <5>1. PICK p \in Operators : pc'[p][c] = "idle"
          BY <3>3, <4>1, StatusWriter
        <5> QED
          BY <1>5, <5>1 DEF SoleOperator, Running, ApplySteps, CleanupSteps
      <4>2. CASE ~Exists(cr[c])
        <5>1. cr'[c].uid = cr[c].uid
          BY <1>5, <2>2, <3>1
        <5>2. cr'[c].uid # cr[c].uid + 1
          BY <1>0, <5>1
        <5>3. ~\E p \in Operators : Reports(p, c)
          BY <4>2 DEF Reports
        <5> QED
          BY <1>0, <3>3, <5>2, <5>3, CopyIdentity DEF Identical
      <4> QED
        BY <4>1, <4>2
    <3> QED
      BY <3>2, <3>3
  <2>3. "idle" \notin Running /\ "addFinalizer" \notin Running
    BY DEF Running, ApplySteps, CleanupSteps
  <2>4. Stays(o, c) \/ GoesOn(o, c) => obj'[o][c] = obj[o][c] /\ pc[o][c] \in Running
    BY <1>5 DEF Stays, GoesOn, Running
  <2> QED
    BY <1>5, <2>1, <2>2, <2>3, <2>4, Fates, OwnGoes DEF Ends, Dies
<1> QED
  BY <1>1, <1>4, <1>5 DEF Identical, Exists, Alike, Running

\* as they are at first.
LEMMA InitIdentity == Init => IdentityInv
<1> SUFFICES ASSUME Init, NEW o \in Operators, NEW c \in CRs
             PROVE  Identical(o, c)
  BY DEF IdentityInv
<1>1. /\ cr[c] = Blank /\ cache[o][c] = cr[c] /\ pc[o][c] = "idle" /\ Blank.phase = "absent"
  BY DEF Init, RuntimeInit, Blank
<1> QED
  BY <1>1 DEF Identical, Exists, Running, ApplySteps, CleanupSteps, Alike

-----------------------------------------------------------------------------
(***************************************************************************)
(* The ids are traceable if users pin them, or else if reconciliations     *)
(* start from what the server has, and nothing parts the creation of a key *)
(* from the status patch that records its id.                              *)
(***************************************************************************)
Pinned == \A s \in Specs : s.accessKey # None

Unparted == {"reply", "secretWrite", "status", "crash"} \intersect FaultKinds = {}

Traceable == Pinned \/ (~CacheMayLag /\ Unparted)

\* No error mentions "not found" of a key that exists.
Truthful == "notFound" \notin FaultKinds

(***************************************************************************)
(* Where the id k of a key made for c is to be found: with the resource,   *)
(* or in the hands of the apply() that is about to record it.              *)
(***************************************************************************)
InHand(o, c, k) ==
  /\ pc[o][c] = "write" \/ (pc[o][c] = "status" /\ local[o][c].result = "reconciled")
  /\ local[o][c].ak = k

Located(c, k) ==
  \/ Known(cr[c]) = k
  \/ ~Pinned /\ (Kept(c) \/ \E o \in Operators : InHand(o, c, k))

(***************************************************************************)
(* The key k that was made for c stays in its hands: c carries the         *)
(* finalizer, or is one whose key is kept; it is not let go unless the key *)
(* is kept; and whoever cleans up will find k.                             *)
(***************************************************************************)
Owned(c, k) ==
  /\ cr[c].uid # 0 /\ ~NamesUser(k)
  /\ cr[c].finalizer \/ Kept(c)
  /\ Located(c, k)
  /\ \A o \in Operators :
       /\ pc[o][c] = "removeFinalizer" => Kept(c)
       /\ cache[o][c].phase = "deleting" => Alike(cache[o][c], cr[c])
       /\ pc[o][c] \in CleanupSteps => Alike(obj[o][c], cr[c])

OwnedInv == \A c \in CRs, k \in KeyIds : keys[k].by = c => Owned(c, k)

MadeInv == \A k \in KeyIds : IF Issued(k) THEN keys[k].by # None ELSE keys[k] = NoKey

\* A key that is absent leaves nothing behind.
LEMMA MadeStep ==
  ASSUME TypeOK, MadeInv, [Next]_vars
  PROVE  MadeInv'
<1> SUFFICES ASSUME NEW k \in KeyIds
             PROVE  IF Issued(k)' THEN keys'[k].by # None ELSE keys'[k] = NoKey
  BY DEF MadeInv, Issued
<1>1. ASSUME NEW o \in Operators, NEW c \in CRs, Creates(o, c, k)
      PROVE  Issued(k)' /\ keys'[k].by # None
  BY <1>1, NoneAssumption DEF Creates, Issued
<1>2. keys'[k] = NoKey => ~Issued(k)'
  BY DEF NoKey, Issued
<1> QED
  BY <1>1, <1>2, KeyCases DEF MadeInv, Issued

\* The snapshot knows the id that the server knows.
LEMMA Knows ==
  ASSUME TypeOK, SnapshotInv, IdentityInv, Traceable, NEW o \in Operators, NEW c \in CRs,
         pc[o][c] \in Running, obj[o][c].uid = cr[c].uid
  PROVE  Known(obj[o][c]) = Known(cr[c])
<1>1. Alike(obj[o][c], cr[c]) /\ (~CacheMayLag => obj[o][c].status = cr[c].status)
  BY DEF IdentityInv, Identical
<1>2. obj[o][c].spec \in Specs /\ cr[c].spec \in Specs
  BY DEF TypeOK, RuntimeTypeOK, Objects
<1> QED
  BY <1>1, <1>2 DEF Traceable, Pinned, Known, Alike

(***************************************************************************)
(* The finalizer is asked off only for a key that is kept, or gone.        *)
(***************************************************************************)
LEMMA LeadsToRemoval ==
  ASSUME TypeOK, Truthful, NEW o \in Operators, NEW c \in CRs, Reconcile(o, c),
         pc'[o][c] = "removeFinalizer"
  PROVE  /\ pc[o][c] \in CleanupSteps
         /\ \/ obj[o][c].spec.deletion = "Retain"
            \/ Known(obj[o][c]) \in KeyIds
                 => NamesUser(Known(obj[o][c])) \/ keys'[Known(obj[o][c])] = NoKey
<1>0. /\ pc \in [Operators -> [CRs -> Steps]] /\ keys \in [KeyIds -> KeyRecords]
      /\ obj[o][c].spec \in SpecRecords
  BY SpecsAssumption DEF TypeOK, RuntimeTypeOK, Objects
<1>1. ASSUME NEW e, Finish(o, c, e)
      PROVE  FALSE
  BY <1>0, <1>1 DEF Finish
<1>2. CASE Cleanup(o, c)
  BY <1>0, <1>1, <1>2, NoneAssumption
  DEF Cleanup, CleanupFails, CleanupSteps, NothingToRevoke, SpecRecords, NamesUser, Goto
<1>3. CASE CleanupRevoke(o, c)
  BY <1>0, <1>1, <1>3
  DEF CleanupRevoke, CleanupFails, CleanupSteps, DeleteAccessKey, Truthful, Fault
<1>4. CASE ~(Cleanup(o, c) \/ CleanupRevoke(o, c))
  <2>1. pc[o][c] \notin CleanupSteps
    BY <1>1, <1>4
    DEF Reconcile, Runtime, Start, AddFinalizer, RemoveFinalizer, Apply, ResolveConnection,
        ReadSecret, GetAccessKey, RevokeKey, CreateKey, WriteSecret, UpdateStatus, CleanupSteps
  <2> QED
    BY <2>1, OwnGoes DEF Ends, GoesOn, Begins, FinalizerEvent, ApplySteps
<1> QED
  BY <1>2, <1>3, <1>4

\* With nothing in between, the apply() that has a key at hand records it.
LEMMA HandRecords ==
  ASSUME TypeOK, SnapshotInv, IdentityInv, ProgressInv, Unparted, [Next]_vars,
         NEW o \in Operators, NEW c \in CRs, NEW k \in KeyIds, InHand(o, c, k),
         Alike(cr[c], cr'[c])
  PROVE  InHand(o, c, k)' \/ Known(cr'[c]) = k
<1>0. /\ pc \in [Operators -> [CRs -> Steps]] /\ local \in [Operators -> [CRs -> LocalRecords]]
      /\ cr \in [CRs -> ApiObjects] /\ cr[c] \in ApiObjects
  BY DEF TypeOK, RuntimeTypeOK, ApiObjects
<1>1. CASE Stays(o, c)
  BY <1>1 DEF Stays, InHand
<1>2. CASE WriteSecret(o, c)
  <2>1. Goto(o, c, "status")
        /\ Remember(o, c, [NoLocal EXCEPT !.ak = local[o][c].ak, !.result = "reconciled"])
    BY <1>2 DEF WriteSecret, Unparted, Fault
  <2>2. /\ pc'[o][c] = "status"
        /\ local'[o][c] = [NoLocal EXCEPT !.ak = local[o][c].ak, !.result = "reconciled"]
    BY <1>0, <2>1 DEF Goto, Remember
  <2> QED
    BY <2>2 DEF InHand, NoLocal
<1>3. CASE UpdateStatus(o, c)
  <2>0. pc[o][c] = "status" /\ local[o][c].result = "reconciled" /\ local[o][c].ak = k
    BY <1>3 DEF UpdateStatus, InHand
  <2>1. cr[c].finalizer /\ obj[o][c].uid = cr[c].uid /\ Exists(cr[c])
    BY <2>0 DEF SnapshotInv, SnapshotsOK, RunOK, ServerOK, ApplySteps, Exists
  <2>2. cr'[c].status.accessKey = k
    BY <1>0, <1>3, <2>0, <2>1
    DEF UpdateStatus, PatchStatus, ReportedKey, Unparted, Fault, ApiObjects, Objects
  <2>3. Alike(obj[o][c], cr[c])
    BY <2>0, <2>1 DEF IdentityInv, Identical, Running, ApplySteps
  <2>4. Known(obj[o][c]) # None => k = Known(obj[o][c])
    BY <2>0 DEF ProgressInv, Checked
  <2> QED
    BY <2>2, <2>3, <2>4 DEF Known, Alike
<1>4. Reconcile(o, c) => WriteSecret(o, c) \/ UpdateStatus(o, c)
  BY DEF InHand, Reconcile, Runtime, Start, AddFinalizer, RemoveFinalizer, Apply,
     ResolveConnection, ReadSecret, GetAccessKey, RevokeKey, CreateKey, Cleanup, CleanupRevoke
<1> QED
  BY <1>1, <1>2, <1>3, <1>4, Fates DEF Dies, Unparted

\* A recorded id is repeated by every report.
LEMMA RecordStays ==
  ASSUME TypeOK, SnapshotInv, IdentityInv, ProgressInv, Traceable, [Next]_vars,
         NEW c \in CRs, NEW k \in KeyIds, Exists(cr[c]), Known(cr[c]) = k, Alike(cr[c], cr'[c])
  PROVE  Known(cr'[c]) = k
<1>0. k # None
  BY NoneAssumption
<1>1. CASE cr'[c].status = cr[c].status
  BY <1>1 DEF Known, Alike
<1>2. CASE cr'[c].status # cr[c].status
  <2>1. PICK o \in Operators : UpdateStatus(o, c)
    BY <1>2, StatusWriter
  <2>2. obj[o][c].uid = cr[c].uid /\ pc[o][c] = "status" /\ cr[c] \in ApiObjects
    BY <2>1 DEF UpdateStatus, SnapshotInv, SnapshotsOK, RunOK, ApplySteps, TypeOK, RuntimeTypeOK,
       ApiObjects
  <2>3. Known(obj[o][c]) = k /\ Alike(obj[o][c], cr[c])
    BY <2>2, Knows DEF Running, ApplySteps, IdentityInv, Identical
  <2>4. cr'[c].status.accessKey = ReportedKey(o, c)
    BY <1>2, <2>1, <2>2
    DEF UpdateStatus, PatchStatus, TypeOK, RuntimeTypeOK, Objects
  <2>5. local[o][c].result = "reconciled" => local[o][c].ak = k
    BY <1>0, <2>2, <2>3 DEF ProgressInv, Checked
  <2>6. CASE cr[c].spec.accessKey # None
    BY <2>6 DEF Known, Alike
  <2>7. CASE cr[c].spec.accessKey = None
    <3>1. obj[o][c].status.accessKey = k /\ cr[c].status.accessKey = k
      BY <2>3, <2>7 DEF Known, Alike
    <3> QED
      BY <1>0, <2>4, <2>5, <2>7, <3>1 DEF ReportedKey, Known, Alike
  <2> QED
    BY <2>6, <2>7
<1> QED
  BY <1>1, <1>2

\* So the key can be found for as long as it is not let go.
LEMMA LocatedStays ==
  ASSUME TypeOK, TypeOK', SnapshotInv, IdentityInv, ProgressInv, Traceable, [Next]_vars, Steady,
         NEW c \in CRs, NEW k \in KeyIds, Owned(c, k)
  PROVE  Located(c, k)'
<1>0. /\ ServerOK(cr[c]) /\ cr[c].phase \in Phases
      /\ cr[c].spec \in Specs /\ cr'[c].spec \in Specs
  BY DEF SnapshotInv, SnapshotsOK, TypeOK, RuntimeTypeOK, Objects
<1>1. Holds(c) /\ Alike(cr[c], cr'[c])
  BY <1>0 DEF Owned, Holds, ServerOK, Exists, Steady
<1>2. CASE Pinned
  BY <1>0, <1>1, <1>2 DEF Owned, Located, Pinned, Known, Alike
<1>3. CASE ~Pinned /\ Kept(c)
  BY <1>1, <1>3 DEF Located, Kept, Alike, Pinned
<1>4. CASE ~Pinned /\ ~Kept(c)
  <2>1. Exists(cr[c]) /\ Unparted
    BY <1>0, <1>4 DEF Owned, ServerOK, Exists, Traceable
  <2>2. CASE Known(cr[c]) = k
    BY <1>1, <2>1, <2>2, RecordStays DEF Located
  <2>3. ASSUME NEW o \in Operators, InHand(o, c, k)
        PROVE  Located(c, k)'
    BY <1>1, <1>4, <2>1, <2>3, HandRecords DEF Located, Pinned
  <2> QED
    BY <1>4, <2>2, <2>3 DEF Owned, Located
<1> QED
  BY <1>2, <1>3, <1>4

\* The finalizer stays until it is asked off.
LEMMA FinalizerStays ==
  ASSUME TypeOK, [Next]_vars, NEW c \in CRs, Exists(cr[c]), cr[c].finalizer,
         \A o \in Operators : pc[o][c] # "removeFinalizer"
  PROVE  cr'[c].finalizer
<1>0. cr \in [CRs -> ApiObjects] /\ cr[c] \in ApiObjects
  BY DEF TypeOK, RuntimeTypeOK, ApiObjects
<1>1. ASSUME NEW d \in CRs, UserStep(d)
      PROVE  cr'[c].finalizer
  BY <1>0, <1>1 DEF UserStep, CreateCR, EditCR, DeleteCR, ApiObjects, Objects
<1>2. ASSUME NEW o \in Operators, NEW d \in CRs,
             AddFinalizer(o, d) \/ RemoveFinalizer(o, d) \/ UpdateStatus(o, d)
      PROVE  cr'[c].finalizer
  BY <1>0, <1>2 DEF AddFinalizer, RemoveFinalizer, UpdateStatus, PatchStatus, ApiObjects, Objects
<1>3. ASSUME NEW o \in Operators, NEW d \in CRs, Reconcile(o, d)
      PROVE  cr'[c].finalizer
  BY <1>2, <1>3
  DEF Reconcile, Runtime, Start, Apply, ResolveConnection, ReadSecret, GetAccessKey, RevokeKey,
      CreateKey, WriteSecret, Cleanup, CleanupRevoke, CleanupFails, Fail, Goto
<1> QED
  BY <1>1, <1>3
  DEF Next, vars, Watch, Deliver, Crash, Restart, LoseSecret, CollectSecret, LoseKey

\* Whoever has a key keeps it until it is revoked.
LEMMA OwnedStays ==
  ASSUME TypeOK, TypeOK', SnapshotInv, IdentityInv, ProgressInv, SoleOperator, Truthful, Traceable,
         [Next]_vars, Steady,
         NEW c \in CRs, NEW k \in KeyIds, Owned(c, k), keys'[k] # NoKey
  PROVE  Owned(c, k)'
<1>0. /\ ServerOK(cr[c]) /\ cr[c].phase \in Phases /\ cr[c].uid \in Nat
      /\ cr[c].uid # 0
  BY DEF SnapshotInv, SnapshotsOK, TypeOK, RuntimeTypeOK, Objects, Owned
<1>1. Holds(c) /\ Alike(cr[c], cr'[c])
  BY <1>0 DEF Owned, Holds, ServerOK, Exists, Steady
<1>2. cr'[c].uid # 0
  <2>1. cr'[c].uid \in {cr[c].uid, cr[c].uid + 1}
    BY <1>0, CopyIdentity
  <2> QED
    BY <1>0, <2>1
<1>3. ASSUME NEW o \in Operators, pc'[o][c] = "removeFinalizer"
      PROVE  Kept(c)
  <2>1. CASE Stays(o, c)
    BY <1>3, <2>1 DEF Stays, Owned
  <2>2. CASE Reconcile(o, c)
    <3>1. pc[o][c] \in CleanupSteps /\ Alike(obj[o][c], cr[c])
      BY <1>3, <2>2, LeadsToRemoval DEF Owned
    <3>2. SUFFICES ASSUME ~Kept(c) PROVE FALSE
      OBVIOUS
    <3>3. obj[o][c].uid = cr[c].uid
      BY <3>1, <3>2 DEF Owned, SnapshotInv, SnapshotsOK, RunOK
    <3>4. Known(obj[o][c]) = Known(cr[c])
      BY <3>1, <3>3, Knows DEF Running
    <3>5. \A p \in Operators : ~InHand(p, c, k)
      BY <3>1 DEF SoleOperator, InHand, CleanupSteps
    <3>6. Known(obj[o][c]) = k
      BY <3>2, <3>4, <3>5 DEF Owned, Located
    <3> QED
      BY <1>3, <2>2, <3>1, <3>2, <3>6, LeadsToRemoval DEF Owned, Kept, Alike
  <2> QED
    BY <1>3, <2>1, <2>2, Fates DEF Dies
<1>4. cr'[c].finalizer \/ Kept(c)'
  <2>1. CASE Kept(c)
    BY <1>1, <2>1 DEF Kept, Alike
  <2>2. CASE ~Kept(c)
    <3>1. cr[c].finalizer /\ Exists(cr[c]) /\ \A o \in Operators : pc[o][c] # "removeFinalizer"
      BY <1>0, <2>2 DEF Owned, ServerOK, Exists
    <3> QED
      BY <3>1, FinalizerStays
  <2> QED
    BY <2>1, <2>2
<1>5. ASSUME NEW o \in Operators
      PROVE  /\ pc'[o][c] = "removeFinalizer" => Kept(c)'
             /\ cache'[o][c].phase = "deleting" => Alike(cache'[o][c], cr'[c])
             /\ pc'[o][c] \in CleanupSteps => Alike(obj'[o][c], cr'[c])
  <2>1. pc'[o][c] = "removeFinalizer" => Kept(c)'
    BY <1>1, <1>3 DEF Kept, Alike
  <2>2. cache[o][c].phase = "deleting" => Alike(cache[o][c], cr'[c])
    BY <1>1 DEF Owned, Alike
  <2>3. cache'[o][c].phase = "deleting" => Alike(cache'[o][c], cr'[c])
    BY <2>2, Caching DEF Alike
  <2>4. pc'[o][c] \in CleanupSteps => Alike(obj'[o][c], cr'[c])
    <3>1. CASE obj'[o][c] = obj[o][c] /\ pc[o][c] \in CleanupSteps
      BY <1>1, <3>1 DEF Owned, Alike
    <3>2. CASE Begins(o, c)
      BY <2>2, <3>2 DEF Begins, FinalizerEvent, CleanupSteps
    <3> QED
      BY <3>1, <3>2, Fates, OwnGoes
      DEF Stays, Dies, Ends, GoesOn, ApplySteps, CleanupSteps
  <2> QED
    BY <2>1, <2>3, <2>4
<1>6. Located(c, k)'
  BY LocatedStays
<1> QED
  BY <1>2, <1>4, <1>5, <1>6 DEF Owned, Alike, NamesUser

\* A key is in its resource's hands when it is created.
LEMMA OwnedMade ==
  ASSUME TypeOK, SnapshotInv, IdentityInv, SoleOperator, Traceable,
         NEW o \in Operators, NEW c \in CRs, NEW k \in KeyIds, Creates(o, c, k)
  PROVE  Owned(c, k)'
<1>0. /\ ServerOK(cr[c]) /\ CacheOK(cache[o][c], cr[c]) /\ cr[c].phase \in Phases
      /\ RunOK(pc[o][c], obj[o][c], cache[o][c], cr[c], ApplySteps, CleanupSteps)
      /\ Identical(o, c) /\ pc[o][c] = "create" /\ cr' = cr /\ cache' = cache
      /\ cr[c].spec \in Specs /\ obj[o][c].spec \in Specs
  BY DEF SnapshotInv, SnapshotsOK, TypeOK, RuntimeTypeOK, Objects, IdentityInv, Creates
<1>1. cr[c].finalizer /\ obj[o][c].uid = cr[c].uid /\ Exists(cr[c]) /\ cr[c].uid # 0
  BY <1>0 DEF RunOK, ServerOK, Exists, ApplySteps, Identical
<1>2. Known(obj[o][c]) = Known(cr[c])
  BY <1>0, <1>1, Knows DEF Running, ApplySteps
<1>3. Located(c, k)'
  <2>1. CASE Known(obj[o][c]) # None
    BY <1>0, <1>2, <2>1 DEF Creates, CreateIds, Located, Known
  <2>2. CASE Known(obj[o][c]) = None
    <3>1. ~Pinned /\ "reply" \notin FaultKinds
      BY <1>0, <2>2 DEF Pinned, Known, Traceable, Unparted
    <3>2. InHand(o, c, k)'
      BY <3>1 DEF Creates, InHand, NoLocal
    <3> QED
      BY <3>1, <3>2 DEF Located, Pinned
  <2> QED
    BY <2>1, <2>2
<1>4. cache[o][c].phase = "deleting" => Alike(cache[o][c], cr[c])
  BY <1>0, <1>1 DEF CacheOK, Identical
<1>5. \A p \in Operators : p = o
  BY DEF SoleOperator
<1>6. pc'[o][c] \notin CleanupSteps /\ pc'[o][c] # "removeFinalizer"
  BY DEF Creates, CleanupSteps
<1>7. ~NamesUser(k)
  BY DEF Creates
<1> QED
  BY <1>0, <1>1, <1>3, <1>4, <1>5, <1>6, <1>7 DEF Owned, Alike, NamesUser

\* Every step leaves every key in the hands of its resource.
LEMMA OwnedStep ==
  ASSUME TypeOK, TypeOK', SnapshotInv, IdentityInv, ProgressInv, MadeInv, OwnedInv, SoleOperator,
         Truthful, Traceable, [Next]_vars, Steady
  PROVE  OwnedInv'
<1> SUFFICES ASSUME NEW c \in CRs, NEW k \in KeyIds, keys'[k].by = c
             PROVE  Owned(c, k)'
  BY DEF OwnedInv
<1>1. keys'[k] # NoKey
  BY NoneAssumption DEF NoKey
<1>2. CASE keys'[k] = keys[k]
  BY <1>1, <1>2, OwnedStays DEF OwnedInv
<1>3. ASSUME NEW o \in Operators, NEW d \in CRs, Creates(o, d, k)
      PROVE  Owned(c, k)'
  BY <1>3, OwnedMade DEF Creates
<1> QED
  BY <1>1, <1>2, <1>3, KeyCases

\* It does so in every state.
LEMMA OwnedCorrect ==
  SoleOperator /\ Truthful /\ Traceable /\ SafetySpec /\ [][Steady]_vars
    => [](IdentityInv /\ MadeInv /\ OwnedInv)
<1> SUFFICES ASSUME SoleOperator, Truthful, Traceable
             PROVE  SafetySpec /\ [][Steady]_vars => [](IdentityInv /\ MadeInv /\ OwnedInv)
  OBVIOUS
<1>1. Init => MadeInv /\ OwnedInv
  BY NoneAssumption DEF Init, MadeInv, OwnedInv, NoKey, Issued
<1>2. TypeOK /\ SnapshotInv /\ IdentityInv /\ [Next]_vars /\ Steady => IdentityInv'
  BY IdentityStep
<1>3. TypeOK /\ MadeInv /\ [Next]_vars => MadeInv'
  BY MadeStep
<1>4. TypeOK /\ TypeOK' /\ SnapshotInv /\ IdentityInv /\ ProgressInv /\ MadeInv /\ OwnedInv
        /\ [Next]_vars /\ Steady => OwnedInv'
  BY OwnedStep
<1>5. UNCHANGED vars => Steady
  BY DEF vars, Steady, Alike
<1> QED
  BY <1>1, <1>2, <1>3, <1>4, <1>5, InitIdentity, TypeCorrect, SnapshotsCorrect, ProgressCorrect,
     PTL DEF SafetySpec

(***************************************************************************)
(* As long as one operator runs, and users leave ids and deletion policies *)
(* alone, a resource that is gone with deletionPolicy Delete has taken     *)
(* along every key that was issued for it, if its id could be traced.      *)
(***************************************************************************)
THEOREM GoneCorrect ==
  SoleOperator /\ Truthful /\ Traceable /\ SafetySpec /\ [][Steady]_vars => []GoneMeansRevoked
<1>1. SnapshotInv /\ OwnedInv => GoneMeansRevoked
  <2> SUFFICES ASSUME SnapshotInv, OwnedInv, NEW c \in CRs, NEW k \in KeyIds,
                      ~Exists(cr[c]), cr[c].spec.deletion = "Delete", keys[k].by = c
               PROVE  FALSE
    BY DEF GoneMeansRevoked
  <2>1. Owned(c, k)
    BY DEF OwnedInv
  <2>2. ~cr[c].finalizer
    BY DEF SnapshotInv, SnapshotsOK, ServerOK, Exists
  <2> QED
    BY <2>1, <2>2 DEF Owned, Kept
<1> QED
  BY <1>1, SnapshotsCorrect, OwnedCorrect, PTL

(***************************************************************************)
(* Nor has a resource more than one key on the server, as long as ids are  *)
(* pinned or can be traced (what AKSecondKey.cfg does without), unless a   *)
(* generated id was left behind on purpose.                                *)
(***************************************************************************)
THEOREM OneKeyCorrect ==
  /\ SoleOperator /\ Truthful /\ Traceable
  /\ Pinned \/ \A s \in Specs : s.deletion = "Delete"
  /\ SafetySpec /\ [][Steady]_vars
  => []OneKeyPerCR
<1> SUFFICES ASSUME SoleOperator, Truthful, Traceable,
                    Pinned \/ \A s \in Specs : s.deletion = "Delete"
             PROVE  SafetySpec /\ [][Steady]_vars => []OneKeyPerCR
  OBVIOUS
<1>1. TypeOK /\ SnapshotInv /\ IdentityInv /\ ProgressInv /\ MadeInv /\ OwnedInv => OneKeyPerCR
  <2> SUFFICES ASSUME TypeOK, SnapshotInv, IdentityInv, ProgressInv, MadeInv, OwnedInv,
                      NEW j \in KeyIds, NEW k \in KeyIds, keys[j].by = keys[k].by, Issued(j)
               PROVE  j = k
    BY DEF OneKeyPerCR
  <2>1. PICK c \in CRs : keys[j].by = c /\ keys[k].by = c
    <3>1. keys[j].by # None
      BY DEF MadeInv
    <3> QED
      BY <3>1 DEF TypeOK, KeyRecords
  <2>2. Owned(c, j) /\ Owned(c, k)
    BY <2>1 DEF OwnedInv
  <2>3. Kept(c) => Pinned
    BY DEF Kept, TypeOK, RuntimeTypeOK, Objects
  <2>4. ASSUME NEW i \in KeyIds, NEW o \in Operators, InHand(o, c, i)
        PROVE  Known(cr[c]) \in {None, i}
    <3>1. pc[o][c] \in ApplySteps /\ obj[o][c].uid = cr[c].uid
      BY <2>4 DEF InHand, SnapshotInv, SnapshotsOK, RunOK, ApplySteps
    <3>2. Known(obj[o][c]) = Known(cr[c])
      BY <3>1, Knows DEF Running
    <3> QED
      BY <2>4, <3>2 DEF InHand, ProgressInv, Checked
  <2>5. ASSUME NEW o \in Operators, NEW p \in Operators, InHand(o, c, j), InHand(p, c, k)
        PROVE  j = k
    BY <2>5 DEF SoleOperator, InHand
  <2> QED
    BY <2>2, <2>3, <2>4, <2>5, NoneAssumption DEF Owned, Located
<1> QED
  BY <1>1, TypeCorrect, SnapshotsCorrect, ProgressCorrect, OwnedCorrect, PTL
-----------------------------------------------------------------------------
(***************************************************************************)
(* The pair of an id and its secret key.  What is proved of it is proved   *)
(* for resources that do not share an id: c claims the ids it has or       *)
(* reconciles, and the one that is in its Secret.                          *)
(***************************************************************************)
Claims(c, k) ==
  \/ Exists(cr[c]) /\ Known(cr[c]) = k
  \/ secret[c].ak = k
  \/ \E o \in Operators :
       (pc[o][c] \in Running /\ Known(obj[o][c]) = k) \/ local[o][c].ak = k

Apart == \A c, d \in CRs, k \in KeyIds : Claims(c, k) /\ Claims(d, k) => c = d

\* No reply, write or process is lost between CreateKey and the Secret.
Handed == {"reply", "secretWrite", "crash"} \intersect FaultKinds = {}

\* Only CreateKey puts a secret key into the locals.
LEMMA LocalCases ==
  ASSUME TypeOK, [Next]_vars, NEW o \in Operators, NEW c \in CRs
  PROVE  \/ Stays(o, c)
         \/ pc'[o][c] # "write" /\ (local'[o][c] = local[o][c] \/ local'[o][c].sk = None)
         \/ \E k \in KeyIds : Reconcile(o, c) /\ Creates(o, c, k)
<1>0. /\ pc \in [Operators -> [CRs -> Steps]] /\ local \in [Operators -> [CRs -> LocalRecords]]
      /\ keys \in [KeyIds -> KeyRecords] /\ obj[o][c] \in ApiObjects
  BY DEF TypeOK, RuntimeTypeOK, ApiObjects
<1> DEFINE Sheds == pc'[o][c] # "write" /\ (local'[o][c] = local[o][c] \/ local'[o][c].sk = None)
<1>1. ASSUME NEW l, l # "write", Goto(o, c, l),
             UNCHANGED local \/ \E r : Remember(o, c, r) /\ r.sk = None
      PROVE  Sheds
  BY <1>0, <1>1 DEF Goto, Remember
<1>2. ASSUME NEW e, Finish(o, c, e),
             UNCHANGED local \/ \E r : Remember(o, c, r) /\ r.sk = None
      PROVE  Sheds
  BY <1>0, <1>2 DEF Finish, Remember
<1>3. ASSUME NEW e, Fail(o, c, e)
      PROVE  Sheds
  <2>1. [NoLocal EXCEPT !.result = e].sk = None
    BY DEF NoLocal
  <2> QED
    BY <1>1, <1>3, <2>1 DEF Fail
<1>4. CASE Dies(o, c)
  BY <1>4 DEF Dies, NoLocal
<1>5. CASE Runtime(o, c)
  BY <1>0, <1>2, <1>5
  DEF Runtime, Start, AddFinalizer, RemoveFinalizer, FinalizerEvent
<1>6. CASE Cleanup(o, c) \/ CleanupRevoke(o, c)
  BY <1>1, <1>2, <1>6 DEF Cleanup, CleanupRevoke, CleanupFails
<1>7. CASE UpdateStatus(o, c)
  BY <1>2, <1>7 DEF UpdateStatus, PatchStatus, NoLocal
<1>8. CASE ResolveConnection(o, c)
  BY <1>1, <1>3, <1>8 DEF ResolveConnection
<1>9. CASE ReadSecret(o, c)
  <2>1. \A i : [NoLocal EXCEPT !.intact = i].sk = None
    BY DEF NoLocal
  <2> QED
    BY <1>1, <1>3, <1>9, <2>1 DEF ReadSecret
<1>10. CASE GetAccessKey(o, c)
  <2>1. \A k : [NoLocal EXCEPT !.ak = k, !.result = "reconciled"].sk = None
    BY DEF NoLocal
  <2> QED
    BY <1>1, <1>3, <1>10, <2>1 DEF GetAccessKey
<1>11. CASE RevokeKey(o, c)
  BY <1>1, <1>3, <1>11 DEF RevokeKey
<1>12. CASE WriteSecret(o, c)
  <2>1. \A k : [NoLocal EXCEPT !.ak = k, !.result = "reconciled"].sk = None
    BY DEF NoLocal
  <2> QED
    BY <1>1, <1>3, <1>12, <2>1 DEF WriteSecret
<1>13. ASSUME CreateKey(o, c), ~Sheds
       PROVE  \E k \in KeyIds : Creates(o, c, k)
  <2>1. PICK k \in CreateIds(o, c), sk \in SecretKeys \ SecretKeysInUse :
          /\ ~NamesUser(k) /\ ~Issued(k) /\ pc[o][c] = "create"
          /\ keys' = [keys EXCEPT ![k] = [parent |-> obj[o][c].spec.user, sk |-> sk, by |-> c]]
          /\ Goto(o, c, "write") /\ Remember(o, c, [NoLocal EXCEPT !.ak = k, !.sk = sk])
    BY <1>3, <1>13 DEF CreateKey
  <2>2. k \in KeyIds
    BY <1>0, KnownType, IdsAssumption DEF CreateIds
  <2>3. pc'[o][c] = "write" /\ local'[o][c] = [NoLocal EXCEPT !.ak = k, !.sk = sk]
        /\ UNCHANGED <<cr, cache, obj, secret>>
    BY <1>0, <1>13, <2>1 DEF Goto, Remember, CreateKey
  <2>4. keys'[k].by = c /\ keys'[k].sk = sk
    BY <1>0, <2>1, <2>2
  <2>5. Creates(o, c, k)
    BY <2>1, <2>3, <2>4 DEF Creates
  <2> QED
    BY <2>2, <2>5
<1> QED
  BY <1>4, <1>5, <1>6, <1>7, <1>8, <1>9, <1>10, <1>11, <1>12, <1>13, Fates DEF Reconcile, Apply

\* The secret key of a new key is nobody's.
LEMMA FreshSecret ==
  ASSUME TypeOK, [Next]_vars, NEW o \in Operators, NEW c \in CRs, NEW k \in KeyIds,
         Reconcile(o, c), Creates(o, c, k)
  PROVE  /\ keys'[k].sk # None
         /\ \A j \in KeyIds : keys[j].sk # keys'[k].sk
         /\ \A d \in CRs : secret'[d].sk # keys'[k].sk
         /\ \A p \in Operators, d \in CRs : p # o \/ d # c =>
              local'[p][d] = local[p][d] /\ local'[p][d].sk # keys'[k].sk
         /\ local'[o][c].sk = keys'[k].sk => local'[o][c].ak = k
<1>1. keys'[k].sk \in SecretKeys \ SecretKeysInUse /\ UNCHANGED secret
  BY DEF Creates
<1>2. \A p \in Operators, d \in CRs : p # o \/ d # c => local'[p][d] = local[p][d]
  BY Elsewhere DEF Stays
<1>3. local'[o][c].sk = None \/ local'[o][c].ak = k
  BY DEF Creates, NoLocal
<1> QED
  BY <1>1, <1>2, <1>3, NoneAssumption DEF SecretKeysInUse

-----------------------------------------------------------------------------
(***************************************************************************)
(* Whoever is about to write a Secret has the key that the server has.     *)
(***************************************************************************)
WrittenInv ==
  \A o \in Operators, c \in CRs :
    pc[o][c] = "write" /\ Issued(local[o][c].ak) => keys[local[o][c].ak].sk = local[o][c].sk

\* While one creates a key, no other is about to write it.
LEMMA SoleCreator ==
  ASSUME TypeOK, SoleOperator, Apart, NEW o \in Operators, NEW c \in CRs, NEW k \in KeyIds,
         Creates(o, c, k), NEW p \in Operators, NEW d \in CRs, p # o \/ d # c
  PROVE  local[p][d].ak # k
<1> SUFFICES ASSUME local[p][d].ak = k PROVE FALSE
  OBVIOUS
<1>1. CASE Known(obj[o][c]) # None
  <2>1. Known(obj[o][c]) = k /\ pc[o][c] \in Running
    BY <1>1 DEF Creates, CreateIds, Running, ApplySteps
  <2>2. Claims(c, k) /\ Claims(d, k)
    BY <2>1 DEF Claims
  <2> QED
    BY <2>2 DEF Apart, SoleOperator
<1>2. CASE Known(obj[o][c]) = None
  BY <1>2 DEF Creates, CreateIds, IdsInUse
<1> QED
  BY <1>1, <1>2

\* It stays so, as nobody else creates the key in the meantime.
LEMMA WrittenStep ==
  ASSUME TypeOK, TypeOK', SoleOperator, Apart, WrittenInv, [Next]_vars
  PROVE  WrittenInv'
<1> SUFFICES ASSUME NEW o \in Operators, NEW c \in CRs, pc'[o][c] = "write",
                    Issued(local[o][c].ak)'
             PROVE  keys'[local'[o][c].ak].sk = local'[o][c].sk
  BY DEF WrittenInv
<1> DEFINE k == local'[o][c].ak
<1>0. k \in KeyIds
  BY DEF TypeOK, LocalRecords, LocalsSet
<1>1. ASSUME NEW j \in KeyIds, Reconcile(o, c), Creates(o, c, j)
      PROVE  keys'[k].sk = local'[o][c].sk
  BY <1>1 DEF Creates, NoLocal
<1>2. CASE Stays(o, c)
  <2>1. CASE keys'[k] = keys[k]
    BY <1>2, <2>1 DEF Stays, WrittenInv, Issued
  <2>2. CASE keys'[k] = NoKey
    BY <2>2 DEF Issued, NoKey
  <2>3. ASSUME NEW p \in Operators, NEW d \in CRs, Reconcile(p, d), Creates(p, d, k)
        PROVE  keys'[k].sk = local'[o][c].sk
    <3>1. p = o /\ d = c
      BY <1>0, <1>2, <2>3, SoleCreator DEF Stays
    <3> QED
      BY <1>0, <1>1, <2>3, <3>1
  <2> QED
    BY <1>0, <2>1, <2>2, <2>3, KeyCases
<1> QED
  BY <1>1, <1>2, LocalCases

\* Unless something is lost in between, whoever is about to write a Secret does.
LEMMA WriterWrites ==
  ASSUME TypeOK, Handed, [Next]_vars, NEW o \in Operators, NEW c \in CRs, pc[o][c] = "write"
  PROVE  IF Reconcile(o, c) THEN secret'[c] = Credentials(o, c) /\ UNCHANGED keys
                            ELSE Stays(o, c)
<1>1. ~Dies(o, c)
  BY DEF Dies, Handed
<1>2. ASSUME Reconcile(o, c)
      PROVE  WriteSecret(o, c)
  BY <1>2
  DEF Reconcile, Runtime, Start, AddFinalizer, RemoveFinalizer, Apply, ResolveConnection,
      ReadSecret, GetAccessKey, RevokeKey, CreateKey, UpdateStatus, Cleanup, CleanupRevoke
<1>3. ASSUME WriteSecret(o, c)
      PROVE  secret'[c] = Credentials(o, c) /\ UNCHANGED keys
  BY <1>3 DEF WriteSecret, TypeOK, Handed, Fault
<1> QED
  BY <1>1, <1>2, <1>3, Fates

\* The pair stays one.
LEMMA PairStep ==
  ASSUME TypeOK, TypeOK', SoleOperator, Handed, Apart, WrittenInv, PairConsistent, [Next]_vars
  PROVE  PairConsistent'
<1> DEFINE Writer(c, k) == \E o \in Operators : pc[o][c] = "write" /\ local[o][c].ak = k
<1> SUFFICES ASSUME NEW c \in CRs, NEW k \in KeyIds,
                    secret'[c].ak = k, secret'[c].sk # None, Issued(k)'
             PROVE  secret'[c].sk = keys'[k].sk \/ Writer(c, k)'
  BY DEF PairConsistent
<1>1. CASE keys'[k] = keys[k] /\ secret'[c] = secret[c]
  <2>1. CASE secret[c].sk = keys[k].sk
    BY <1>1, <2>1
  <2>2. ASSUME NEW o \in Operators, pc[o][c] = "write", local[o][c].ak = k
        PROVE  secret'[c].sk = keys'[k].sk \/ Writer(c, k)'
    <3>1. CASE Stays(o, c)
      BY <2>2, <3>1 DEF Stays
    <3>2. CASE secret'[c] = Credentials(o, c) /\ UNCHANGED keys
      BY <2>2, <3>2 DEF Credentials, WrittenInv, Issued
    <3> QED
      BY <2>2, <3>1, <3>2, WriterWrites
  <2> QED
    BY <1>1, <2>1, <2>2 DEF PairConsistent, Issued
<1>2. ASSUME NEW o \in Operators, NEW d \in CRs, Reconcile(o, d), Creates(o, d, k)
      PROVE  Writer(c, k)'
  <2>1. secret[c].ak = k /\ pc'[o][d] = "write" /\ local'[o][d].ak = k
    BY <1>2 DEF Creates, Handed, NoLocal
  <2>2. Claims(c, k)
    BY <2>1 DEF Claims
  <2>3. CASE Known(obj[o][d]) # None
    <3>1. Claims(d, k)
      BY <1>2, <2>3 DEF Creates, CreateIds, Claims, Running, ApplySteps
    <3> QED
      BY <2>1, <2>2, <3>1 DEF Apart
  <2>4. CASE Known(obj[o][d]) = None
    BY <1>2, <2>1, <2>4 DEF Creates, CreateIds, IdsInUse
  <2> QED
    BY <2>3, <2>4
<1>3. ASSUME NEW o \in Operators, Reconcile(o, c), Writes(o, c)
      PROVE  secret'[c].sk = keys'[k].sk
  <2>1. UNCHANGED keys
    BY <1>3, WriterWrites DEF Writes
  <2> QED
    BY <1>3, <2>1 DEF Writes, Credentials, WrittenInv, Issued
<1>4. keys'[k] # NoKey
  BY DEF Issued, NoKey
<1> QED
  BY <1>1, <1>2, <1>3, <1>4, KeyCases, SecretCases

(***************************************************************************)
(* As long as one operator runs, no id is shared, and nothing is lost      *)
(* between CreateKey and the Secret, the Secret and the server agree on    *)
(* the secret key of an id that both have, whatever else fails and         *)
(* whatever is lost or edited.                                             *)
(***************************************************************************)
THEOREM PairCorrect ==
  SoleOperator /\ Handed /\ SafetySpec /\ []Apart => []PairConsistent
<1> SUFFICES ASSUME SoleOperator, Handed
             PROVE  SafetySpec /\ []Apart => []PairConsistent
  OBVIOUS
<1>1. Init => WrittenInv /\ PairConsistent
  BY DEF Init, RuntimeInit, WrittenInv, PairConsistent, NoKey, NoSecret, Issued
<1>2. TypeOK /\ TypeOK' /\ Apart /\ WrittenInv /\ [Next]_vars => WrittenInv'
  BY WrittenStep
<1>3. TypeOK /\ TypeOK' /\ Apart /\ WrittenInv /\ PairConsistent /\ [Next]_vars => PairConsistent'
  BY PairStep
<1> QED
  BY <1>1, <1>2, <1>3, TypeCorrect, PTL DEF SafetySpec

-----------------------------------------------------------------------------
(***************************************************************************)
(* What a reconciliation has found out about the Secret: it keeps nothing  *)
(* before the server was asked, and as long as the Secret can be read it   *)
(* revokes only what the Secret does not have.                             *)
(***************************************************************************)
LostInv ==
  \A o \in Operators, c \in CRs :
    /\ pc[o][c] = "get" => local[o][c].result = None
    /\ "secretRead" \notin FaultKinds
         /\ (pc[o][c] = "revoke" \/ (pc[o][c] = "get" /\ ~local[o][c].intact))
         => ~SecretIntact(c, Known(obj[o][c]))

\* How a reconciliation comes to ask for its key, and to revoke it.
LEMMA ComesToAsk ==
  ASSUME TypeOK, NEW o \in Operators, NEW c \in CRs, Reconcile(o, c),
         pc'[o][c] \in {"get", "revoke"}
  PROVE  /\ secret'[c] = secret[c] /\ obj'[o][c] = obj[o][c]
         /\ IF pc'[o][c] = "get"
              THEN /\ local'[o][c].result = None
                   /\ "secretRead" \notin FaultKinds /\ ~local'[o][c].intact =>
                        ~SecretIntact(c, Known(obj[o][c]))
              ELSE pc[o][c] = "get" /\ ~local[o][c].intact
<1>0. /\ pc \in [Operators -> [CRs -> Steps]] /\ local \in [Operators -> [CRs -> LocalRecords]]
  BY DEF TypeOK, RuntimeTypeOK
<1>1. ASSUME NEW e, Fail(o, c, e)
      PROVE  FALSE
  BY <1>0, <1>1 DEF Fail, Goto
<1>2. ASSUME NEW e, Finish(o, c, e)
      PROVE  FALSE
  BY <1>0, <1>2 DEF Finish
<1>3. CASE ReadSecret(o, c)
  <2>1. PICK intact \in BOOLEAN :
          /\ "secretRead" \notin FaultKinds => intact = SecretIntact(c, Known(obj[o][c]))
          /\ Goto(o, c, IF Known(obj[o][c]) = None THEN "create" ELSE "get")
          /\ Remember(o, c, [NoLocal EXCEPT !.intact = intact])
    BY <1>1, <1>3 DEF ReadSecret, Fault
  <2>2. local'[o][c] = [NoLocal EXCEPT !.intact = intact] /\ obj' = obj /\ pc'[o][c] = "get"
    BY <1>0, <2>1 DEF Goto, Remember
  <2> QED
    BY <1>3, <2>1, <2>2 DEF ReadSecret, NoLocal, externals
<1>4. CASE GetAccessKey(o, c)
  BY <1>0, <1>1, <1>4 DEF GetAccessKey, Goto, externals
<1>5. CASE RevokeKey(o, c) \/ WriteSecret(o, c) \/ ResolveConnection(o, c)
  BY <1>0, <1>1, <1>5 DEF RevokeKey, WriteSecret, ResolveConnection, Goto
<1>6. CASE CreateKey(o, c)
  <2>1. pc'[o][c] \in {"write", "status"}
    BY <1>0, <1>6 DEF CreateKey, Fail, Goto
  <2> QED
    BY <2>1
<1>7. CASE UpdateStatus(o, c) \/ Cleanup(o, c) \/ CleanupRevoke(o, c)
  BY <1>0, <1>2, <1>7
  DEF UpdateStatus, PatchStatus, Cleanup, CleanupRevoke, CleanupFails, Goto
<1>8. CASE Runtime(o, c)
  BY <1>0, <1>2, <1>8 DEF Runtime, Start, AddFinalizer, RemoveFinalizer, FinalizerEvent
<1> QED
  BY <1>3, <1>4, <1>5, <1>6, <1>7, <1>8 DEF Reconcile, Apply

\* It stays so until the reconciliation has written another Secret itself.
LEMMA LostStep ==
  ASSUME TypeOK, SoleOperator, LostInv, [Next]_vars
  PROVE  LostInv'
<1> SUFFICES ASSUME NEW o \in Operators, NEW c \in CRs, pc'[o][c] \in {"get", "revoke"}
             PROVE  /\ pc'[o][c] = "get" => local'[o][c].result = None
                    /\ "secretRead" \notin FaultKinds
                         /\ (pc'[o][c] = "revoke" \/ ~local'[o][c].intact)
                         => ~SecretIntact(c, Known(obj[o][c]))'
  BY DEF LostInv
<1>1. CASE Reconcile(o, c)
  <2>1. secret'[c] = secret[c] /\ obj'[o][c] = obj[o][c]
    BY <1>1, ComesToAsk
  <2>2. SecretIntact(c, Known(obj[o][c]))' <=> SecretIntact(c, Known(obj[o][c]))
    BY <2>1 DEF SecretIntact, Known
  <2> QED
    BY <1>1, <2>2, ComesToAsk DEF LostInv
<1>2. CASE Stays(o, c)
  <2>1. pc[o][c] # "write"
    BY <1>2 DEF Stays
  <2>2. secret'[c] = secret[c] \/ secret'[c].sk = None
    BY <2>1, SecretCases DEF Writes, SoleOperator
  <2> QED
    BY <1>2, <2>2 DEF Stays, LostInv, SecretIntact, Known
<1> QED
  BY <1>1, <1>2, Fates DEF Dies

(***************************************************************************)
(* On the same terms "Kept" means that what the Secret holds for the key   *)
(* opens the server.                                                       *)
(***************************************************************************)
THEOREM KeptCorrect ==
  SoleOperator /\ Handed /\ SafetySpec /\ []Apart => KeptIsIntact
<1> SUFFICES ASSUME SoleOperator, Handed
             PROVE  SafetySpec /\ []Apart => KeptIsIntact
  OBVIOUS
<1> DEFINE Intact ==
      \A o \in Operators, c \in CRs :
        Keeps(o, c) /\ SecretIntact(c, Known(obj[o][c]))
          => secret[c].sk = keys[Known(obj[o][c])].sk
<1>1. Init => LostInv
  BY DEF Init, RuntimeInit, LostInv
<1>2. TypeOK /\ LostInv /\ [Next]_vars => LostInv'
  BY LostStep
<1>3. TypeOK /\ Apart /\ LostInv /\ PairConsistent /\ [Next]_vars => Intact
  <2> SUFFICES ASSUME TypeOK, Apart, LostInv, PairConsistent, [Next]_vars,
                      NEW o \in Operators, NEW c \in CRs,
                      Keeps(o, c), SecretIntact(c, Known(obj[o][c]))
               PROVE  secret[c].sk = keys[Known(obj[o][c])].sk
    OBVIOUS
  <2> DEFINE k == Known(obj[o][c])
  <2>0. pc[o][c] = "get" /\ local[o][c].result = None /\ local'[o][c].result = "reconciled"
    BY DEF Keeps, LostInv
  <2>1. k \in KeyIds /\ secret[c].ak = k /\ secret[c].sk # None
    BY KnownType DEF SecretIntact, TypeOK, RuntimeTypeOK, ApiObjects
  <2>2. Reconcile(o, c)
    BY <2>0, Fates, NoneAssumption DEF Stays, Dies, NoLocal, Messages
  <2>3. GetAccessKey(o, c)
    BY <2>0, <2>2
    DEF Reconcile, Runtime, Start, AddFinalizer, RemoveFinalizer, Apply, ResolveConnection,
        ReadSecret, RevokeKey, CreateKey, WriteSecret, UpdateStatus, Cleanup, CleanupRevoke
  <2>4. Issued(k)
    <3>1. \A e \in {"config", "retry"} : ~Fail(o, c, e)
      <4> SUFFICES ASSUME NEW e \in {"config", "retry"}, Fail(o, c, e) PROVE FALSE
        OBVIOUS
      <4>1. local'[o][c] = [NoLocal EXCEPT !.result = e]
        BY DEF Fail, Remember, TypeOK
      <4> QED
        BY <2>0, <4>1 DEF NoLocal
    <3> QED
      BY <2>0, <2>3, <3>1, NoneAssumption DEF GetAccessKey, Messages
  <2>5. ASSUME NEW p \in Operators, NEW d \in CRs, pc[p][d] = "write", local[p][d].ak = k
        PROVE  FALSE
    <3>1. Claims(c, k) /\ Claims(d, k)
      BY <2>1, <2>5 DEF Claims
    <3> QED
      BY <2>0, <2>1, <2>5, <3>1 DEF Apart, SoleOperator
  <2> QED
    BY <2>1, <2>4, <2>5 DEF PairConsistent
<1> QED
  BY <1>1, <1>2, <1>3, TypeCorrect, PairCorrect, PTL DEF SafetySpec, KeptIsIntact

-----------------------------------------------------------------------------
(***************************************************************************)
(* Whoever has the secret key of a key has its id.                         *)
(***************************************************************************)
Matches(k, x) == Issued(k) /\ x.sk = keys[k].sk => x.ak = k

UniqueInv ==
  \A k \in KeyIds :
    /\ \A c \in CRs : Matches(k, secret[c])
    /\ \A o \in Operators, c \in CRs : Matches(k, local[o][c])

\* New secret keys are fresh, and are handed on with their ids.
LEMMA UniqueStep ==
  ASSUME TypeOK, UniqueInv, [Next]_vars
  PROVE  UniqueInv'
<1> SUFFICES ASSUME NEW k \in KeyIds, Issued(k)'
             PROVE  /\ \A c \in CRs : Matches(k, secret[c])'
                    /\ \A o \in Operators, c \in CRs : Matches(k, local[o][c])'
  BY DEF UniqueInv, Matches
<1>1. ASSUME NEW o \in Operators, NEW c \in CRs, Reconcile(o, c), Creates(o, c, k)
      PROVE  /\ \A d \in CRs : Matches(k, secret[d])'
             /\ \A p \in Operators, d \in CRs : Matches(k, local[p][d])'
  BY <1>1, FreshSecret DEF Matches
<1>2. CASE keys'[k] = keys[k]
  <2>0. keys[k].sk # None /\ Issued(k)
    BY <1>2 DEF Issued
  <2>1. ASSUME NEW c \in CRs
        PROVE  Matches(k, secret[c])'
    <3>1. CASE secret'[c] = secret[c] \/ secret'[c].sk = None
      BY <1>2, <2>0, <3>1 DEF UniqueInv, Matches
    <3>2. ASSUME NEW o \in Operators, Writes(o, c)
          PROVE  Matches(k, secret[c])'
      BY <1>2, <2>0, <3>2 DEF UniqueInv, Matches, Writes, Credentials
    <3> QED
      BY <3>1, <3>2, SecretCases
  <2>2. ASSUME NEW o \in Operators, NEW c \in CRs
        PROVE  Matches(k, local[o][c])'
    <3>1. CASE local'[o][c] = local[o][c] \/ local'[o][c].sk = None
      BY <1>2, <2>0, <3>1 DEF UniqueInv, Matches
    <3>2. ASSUME NEW j \in KeyIds, Reconcile(o, c), Creates(o, c, j)
          PROVE  Matches(k, local[o][c])'
      <4>1. local'[o][c].sk = keys'[j].sk \/ local'[o][c].sk = None
        BY <3>2 DEF Creates, NoLocal
      <4> QED
        BY <1>2, <2>0, <3>2, <4>1, FreshSecret DEF Matches
    <3> QED
      BY <3>1, <3>2, LocalCases DEF Stays
  <2> QED
    BY <2>1, <2>2
<1>3. keys'[k] # NoKey
  BY DEF Issued, NoKey
<1> QED
  BY <1>1, <1>2, <1>3, KeyCases

(***************************************************************************)
(* As long as one operator runs, no id is shared and the Secret can be     *)
(* read, a reconciliation revokes a key only when nobody holds its secret  *)
(* key any more: whatever failed, died or was lost on the way.            *)
(***************************************************************************)
THEOREM RevokeCorrect ==
  SoleOperator /\ "secretRead" \notin FaultKinds /\ SafetySpec /\ []Apart => RevokeOnlyLost
<1> SUFFICES ASSUME SoleOperator, "secretRead" \notin FaultKinds
             PROVE  SafetySpec /\ []Apart => RevokeOnlyLost
  OBVIOUS
<1> DEFINE OnlyLost ==
      \A o \in Operators, c \in CRs :
        pc[o][c] = "revoke" /\ pc'[o][c] # "revoke" /\ keys' # keys
          => \A d \in CRs : secret[d].sk # keys[Known(obj[o][c])].sk
<1>1. Init => LostInv /\ UniqueInv /\ MadeInv
  BY NoneAssumption DEF Init, RuntimeInit, LostInv, UniqueInv, MadeInv, Matches, NoKey, Issued
<1>2. TypeOK /\ LostInv /\ UniqueInv /\ MadeInv /\ [Next]_vars
        => LostInv' /\ UniqueInv' /\ MadeInv'
  BY LostStep, UniqueStep, MadeStep
<1>3. TypeOK /\ Apart /\ LostInv /\ UniqueInv /\ MadeInv /\ [Next]_vars => OnlyLost
  <2> SUFFICES ASSUME TypeOK, Apart, LostInv, UniqueInv, MadeInv, [Next]_vars,
                      NEW o \in Operators, NEW c \in CRs, NEW d \in CRs,
                      pc[o][c] = "revoke", pc'[o][c] # "revoke", keys' # keys,
                      secret[d].sk = keys[Known(obj[o][c])].sk
               PROVE  FALSE
    OBVIOUS
  <2> DEFINE k == Known(obj[o][c])
  <2>1. Reconcile(o, c)
    <3>1. ASSUME NEW p \in Operators, NEW e \in CRs, Reconcile(p, e)
          PROVE  Reconcile(o, c)
      BY <3>1, Elsewhere DEF Stays
    <3> QED
      BY <3>1
      DEF Next, vars, Watch, Deliver, Crash, externals, UserStep, CreateCR, EditCR, DeleteCR,
          LoseSecret, CollectSecret, LoseKey
  <2>2. RevokeKey(o, c)
    BY <2>1
    DEF Reconcile, Runtime, Start, AddFinalizer, RemoveFinalizer, Apply, ResolveConnection,
        ReadSecret, GetAccessKey, CreateKey, WriteSecret, UpdateStatus, Cleanup, CleanupRevoke
  <2>3. keys' = [keys EXCEPT ![k] = NoKey]
    BY <2>2 DEF RevokeKey, DeleteAccessKey
  <2>4. k \in KeyIds /\ keys[k] # NoKey
    BY <2>3 DEF TypeOK
  <2>5. secret[d].ak = k
    BY <2>4 DEF MadeInv, UniqueInv, Matches
  <2>6. c = d
    <3>1. Claims(c, k) /\ Claims(d, k)
      BY <2>5 DEF Claims, Running, ApplySteps
    <3> QED
      BY <2>4, <3>1 DEF Apart
  <2>7. SecretIntact(c, k)
    BY <2>4, <2>5, <2>6, NoneAssumption DEF SecretIntact, MadeInv, Issued
  <2> QED
    BY <2>7 DEF LostInv
<1> QED
  BY <1>1, <1>2, <1>3, TypeCorrect, PTL DEF SafetySpec, RevokeOnlyLost
=============================================================================
