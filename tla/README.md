# A formal model of rustfs-operator

TLA+ modules, TLC configurations and TLAPS proofs for the Kubernetes operator
in `src/`, which manages buckets, users, policies and access keys of a RustFS
object store through custom resources. Paths below are relative to the
repository; line numbers are those of the modelled commit.

## 1. The system

| Part | Source | State it keeps | Operations |
|---|---|---|---|
| Controller runtime | `src/reconcile/mod.rs`, `src/error.rs` | reflector store, pending requeues, running reconciliations (in kube-rs) | watch event, start, `finalizer()`, `patch_status`, `error_policy`, restart |
| AccessKey controller | `src/reconcile/access_key.rs` | the locals of a running `apply()`; durable: the service account, the credentials Secret, `.status.accessKey` | resolve connection, read Secret, get / revoke / create key, write Secret, patch status; cleanup |
| Bucket controller | `src/reconcile/bucket.rs` | none of its own; durable: the bucket | head / create, get / set versioning, get / set quota, patch status; cleanup |
| User controller | `src/reconcile/user.rs` | what `apply()` has read; durable: the user and its attachments | read password Secret, get / create user, set status, set policies, patch status; cleanup |
| Policy controller | `src/reconcile/policy.rs` | none; durable: the policy | get / put policy, patch status; cleanup |
| Connection resolution | `src/connection.rs` | none: Secret and ClusterConnection are read anew, one after the other, by every reconciliation | `provider_for`, `from_local_secret`, `from_cluster_connection`, `secret_key_value` |
| Provider | `src/provider.rs` | none | one RustFS call per method; `absent` and `optional` take every error that mentions "not found" for absence |
| Custom resources | `src/crd.rs` | specs and statuses | defaults, names |
| Command line | `src/main.rs`, `src/lib.rs` | none | `run`, `crd` |
| Charts, manifests, scripts, tests | `charts/`, `deploy/`, `scripts/`, `tests/` | none | installation and testing |

How they interact. `run_all` starts one Controller per kind in one process;
they share nothing but the Kubernetes and RustFS servers. A Controller keeps a
store that follows the API server by watch events, and starts a reconciliation
on a *snapshot* of an object from that store, at most one at a time per object.
Every `reconcile` wraps `apply` and `cleanup` in kube-rs' `finalizer()`. `apply`
resolves the connection, makes its calls one by one (each is an `await`, at
which other objects, users, other tools, a crash may come in), stops at the
first error, and patches `.status` whatever the outcome; the patch itself is
best effort. `cleanup` returns its error to `error_policy` and leaves `.status`
alone. Nothing but the object's own watch and its timer ever starts a
reconciliation: the operator watches neither Secrets nor ClusterConnections.

What is hard here: decisions from a snapshot that lags; a key pair whose two
halves live on two servers and whose secret key is shown once; several calls of
which one fails; lost replies; restarts between any two calls; users who edit,
delete and re-create in the meantime; other tools that change the server; errors
only a human can lift; statuses that must not vouch for a spec they never saw.
`PROJECT.json` lists the hazards line by line with the properties that watch
them.

## 2. The modules

| Module | Models | Uses |
|---|---|---|
| `OperatorRuntime` | API server objects, store, scheduling, `finalizer()`, `patch_status`, `error_policy`, restart | |
| `AccessKeyController` | `access_key.rs`, call by call | INSTANCE `OperatorRuntime` |
| `ResourceController` | what Bucket, User and Policy share: Result, status, connection, calls and how they fail, cleanup | INSTANCE `OperatorRuntime` |
| `BucketController` | `bucket.rs`, with requests that are carried out late | EXTENDS `ResourceController` |
| `IamServer` | users and policies of the server, external | EXTENDS `ResourceController` |
| `UserController` | `user.rs` | EXTENDS `IamServer` |
| `PolicyDocuments` | `documents_equivalent` and `canonicalize` over JSON values, the server's normal form, what a document allows | |
| `PolicyController` | `policy.rs` | EXTENDS `IamServer`, `PolicyDocuments` |
| `IamControllers` | both, composed as `run_all` joins them, and their properties | EXTENDS both |
| `ConnectionResolution` | `connection.rs`, read by read, under a controller that has one call to make | EXTENDS `ResourceController` |
| `ManagedResources` | the abstract specification: what the operator promises of a resource and its remote object | |
| `RuntimeProofs` | what the steps of `OperatorRuntime` keep, for every controller built on it | EXTENDS it, TLAPS |
| `ManagedProofs` | what `ManagedResources` promises, and a step of one resource in terms of it | EXTENDS it, TLAPS |
| `AccessKeyProofs` | theorems about `AccessKeyController`: types, snapshots, statuses | EXTENDS it; INSTANCE `RuntimeProofs` |
| `KeyProofs` | theorems about it: the keys, their owners and their secret keys | EXTENDS `AccessKeyProofs` |
| `ResourceProofs` | what the steps of `ResourceController` keep, for every controller built on it | EXTENDS it; INSTANCE `RuntimeProofs` |
| `BucketProofs` | theorems about `BucketController` | EXTENDS it, `ResourceProofs`; INSTANCE `ManagedProofs` |
| `IamProofs` | theorems about `IamControllers` | EXTENDS it, `ResourceProofs`; INSTANCE `ManagedProofs` |
| `ConnectionProofs` | theorems about `ConnectionResolution` | EXTENDS it, `ResourceProofs` |
| `MCAccessKey`, `MCBucket`, `MCIam`, `MCConnections` | small instances for TLC | |

### State

- `cr[c]` is the API server's object: phase (absent, live, deleting), finalizer,
  generation, incarnation (`uid`), spec, status. `cache[o]` is the store of
  operator process `o`; `obj[o][c]` the snapshot its running reconciliation was
  given; `pc[o][c]` the next call of that reconciliation (`"idle"`: none runs);
  `wake[o][c]` the pending request: `now` (a watch event came), or a timer named
  after its constant, `ok` (REQUEUE_OK), `err` (REQUEUE_ERR), `configErr`
  (REQUEUE_CONFIG_ERR), or `none` (`Action::await_change`). Durations are left
  out: a timer may fire at any moment, and a pending one does fire.
- `faults` counts injected faults; `FaultKinds` says which may occur.
- AccessKey: `keys[k]` the service accounts with parent, secret key, and the
  resource they were issued for (`by`, a ghost field); `secret[c]` the
  credentials Secret; `local[o][c]` the locals of `apply()`.
- The other kinds: `result[o][c]` the `Result` of the running `apply()`;
  `buckets`, `users`, `policies` the server, each with its ghost `by`;
  `inFlight` the bucket requests whose senders gave them up; `passwords[c]` the
  password Secrets; `seen[o][c]` what a user's `apply()` has read; `meddled`, a
  history variable: has another tool changed the server, or an answer or a
  request gone astray?
- Connections: `config` the Secrets (by namespace and name) and the
  ClusterConnections; `conn[o][c]` the ClusterConnection a resolution has read,
  `client[o][c]` the client it has reached; `remote` the pairs of a server and a
  resource whose object it has; `lived[o][c]`, a history variable: the
  configurations there have been since the resolution began.

`message` in a status stands for the pair (ready, message) of the code: ready
is true exactly with "reconciled"; "config" are the errors of
`is_config_error`, "retry" all others.

### Actions

One action per await point, named after the call. Each has one disjunct per
outcome: it succeeds, the server refuses it, the call is lost (`Fault("call")`),
or its effect happens and the reply is lost (`Fault("reply")`). The `?` of the
code is `Fail`: go to the status patch with the error, all later calls undone.
Where the code goes through `absent()` or `optional()` there is one outcome more,
`Fault("notFound")` (`Denied`): an error that merely mentions "not found" is taken
for the absence of the object. A bucket request may also be given up
(`Fault("late")`, `GiveUp`) and be carried out at any later moment (`Land`), be it
after the resource is gone; this is the timeout of a client and the death of a
process in the middle of a call in one.

Abstractions. Specs are records of what the controllers branch on. In every module
but `ConnectionResolution` a connection is usable, invalid (an error only an edit
lifts) or fails for a while; in that module it is resolved read by read, and what
is then done with the client is one call. Specs name policy documents, `Text` has
their JSON, in which all scalars are strings. `canonicalize` is modelled by what it
computes: fields whose canonical value is an empty string, object or array are
dropped and arrays become bags (sorting by the serialized form; null is treated by
the code as the empty string is, and is not told apart from it). An access key's
description and inline policy are left out, as they are passed through when it is
issued and never compared. Random ids and secret keys are fresh. Names of remote
objects do not change within a run.

### The environment

Users create, edit, delete and re-create resources and edit password Secrets at
any moment. A deleted resource with a finalizer stays, and can still be edited.
Drift is what other tools do: keys, Secrets, buckets, users, policies are lost or
changed. Administrators and teams edit Secrets and ClusterConnections, one object
kind at a time. The server refuses to delete buckets with objects and policies in
use, to create a key under a taken id, answers 500 for an id that is a user's name
(`docs/iam-model.md:73-85`), and refuses every call with a login that is not its
own. Creating a user that exists replaces its password (`README.md`, "User
passwords"). Whether attaching an unknown policy is refused is a constant, and both
answers are run. A policy comes back wrapped in metadata, with empty `ID`, `Sid` and
`Condition` added and perhaps with its lists in another order (`policy.rs:17-21`
and the tests there).

Two things of Kubernetes are weaker here than in reality, on purpose: a watch event
is due exactly while store and server differ, so a change and its exact reversal
before the store has seen the first make no event; and finalizer patches test for
the finalizer only, not for the incarnation, as the JSON patch of kube-rs does.

## 3. What is checked

Every run ends with all states explored. `CHECK_DEADLOCK FALSE` stands in every
configuration because the system may really stop: all resources gone, no name
may be created again within the bound, nothing to reconcile.

| Run | Properties | Instance |
|---|---|---|
| `AKPinned` | `TypeOK` `SnapshotInv` `NeverForgotten` `GoneMeansRevoked` `ReadyIsCurrent` `IssueNeedsFinalizer` `RecordedKeyKept` | pinned id, any 2 faults of 9 kinds, lagging store, edits, 2 incarnations |
| `AKPairs` | `GoneMeansRevoked` `OneKeyPerCR` `PairConsistent` `KeptIsIntact` `RevokeOnlyLost` | pinned, generated, refused ids; any 3 of failing calls and drift, so that every id issued is recorded and every pair written; 2 incarnations |
| `AKLive` | `Converges` `DeletedEventuallyGone` `Quiescent` | every kind of spec and edits between them, any 1 fault of 10 kinds |
| `BucketCtl` | `TypeOK` `SnapshotInv` `GoneMeansRemoved` `ReadyMeansDeclared` `MatchingUntouched` `Managed` `Converges` `DeletedEventuallyGone` | attributes managed, changed, left alone, quota 0; any 2 faults of 10 kinds, late requests among them; edits, 2 incarnations |
| `IamEach` | `TypeOK` `SnapshotInv` `GoneMeansRemoved` `ReadyMeansDeclared` `PasswordsStick` `InSyncUntouched` | one user or one policy (constraint `OneKind`), edited spec, password and document, 2 faults, lagging store |
| `IamCtl` | `ReadyMeansDeclared` `Managed` `Converges` `DeletedEventuallyGone` | a user and its policy, 1 lost call, crash, drift or misleading answer |
| `Connections` | `TypeOK` `ResolvedAsConfigured` `Converges` `DeletedEventuallyGone` | a Secret, a ClusterConnection, both or neither of two servers; any 2 edits of either, failures or crashes |

What they say, in short:

- *No orphans.* A resource that is gone with deletionPolicy Delete leaves no
  remote object behind (`GoneMeansRevoked`, `GoneMeansRemoved`), because nothing
  is created for it unless it carries the finalizer at that very moment
  (`IssueNeedsFinalizer`, `SnapshotInv`), and the id of a generated key, once
  recorded, stays so (`RecordedKeyKept`). What becomes of keys whose id is not
  recorded, or not yet seen by the store, is in `AKSecondKey` and `AKOrphan` below.
- *An honest status.* ready with the current generation means that this spec was
  accepted (`ReadyIsCurrent`), and for buckets, users and policies that the
  server is as declared (`ReadyMeansDeclared`); for a policy that means: allows the
  same requests as the document of the spec, and not: counts as equivalent to it.
- *The pair.* Secret and server agree on the secret key (`PairConsistent`,
  `KeptIsIntact`); a key is revoked only when nobody has its secret key
  (`RevokeOnlyLost`). A resource has one key (`OneKeyPerCR`) *as long as the id of
  a generated key reaches* `.status`: failing calls, drift, reissues and new
  incarnations make no second one. A retry that does not know the id does:
  `AKSecondKey` below.
- *No surprise.* Buckets as declared are not written (`MatchingUntouched`),
  policies the server only normalized are not put again (`InSyncUntouched`),
  passwords of users that exist are not replaced (`PasswordsStick`).
- *The right server.* No call is made with an endpoint and a login other than what
  the reference has meant at some instant since the reconciliation began
  (`ResolvedAsConfigured`): a namespace that is barred, or a login that is revoked,
  before a reconciliation starts is out of use in it. There is one exception, and
  the property is false without it: if the ClusterConnection *and* its Secret are
  edited between the two reads, the old endpoint is asked with the new login.
- *Progress.* No resource is stranded (`NeverForgotten`); after the last fault
  and edit everything is as declared or reports the error a human must lift
  (`Converges`), also after edits of Secrets and ClusterConnections, which wake
  nobody; deletions complete unless the server or the connection stands
  in the way (`DeletedEventuallyGone`); the status patches, which are watch
  events themselves, do not feed an endless loop (`Quiescent`).

Where safety is stated "unless meddled", a premise the code cannot do without is
meant: a delete that is answered "not found" of something else leaves its object,
and a late create makes one nobody asks for. Liveness is stated without it.

### Refinement

`ManagedResources` has, for every resource, whether it is asked for, whether its
object is to be kept, whether there is an object made for it, whether the server is
as the spec has it and whether the status says so, and nine actions on these, of
users and operator, each with the promise it must keep in its guard: objects are
made and changed only while asked for and not yet acknowledged, removed only when
the resource is deleted and does not keep them, acknowledged only when they fit; a
resource goes only without its object unless that is kept. Another tool may
`Meddle`, after which fewer promises are kept. `Managed` in `BucketController` and in `IamControllers`
says that they implement it, under the mapping that takes `request` and `keep` from
the API server's copy of the resource, `ready` from its status, `remote` from the
ghost `by` and `fits` from `Declared`. Every step of a controller sees at most one
of the two servers, by a snapshot that may be old; that each of them is nevertheless
one of the nine or a stutter is what the runs check and `ManagedCorrect` proves. Access keys are not mapped: a
key is never compared with the spec again once it is issued, so that `fits` would
say nothing of it.

### Bounds

`MaxGeneration` bounds edits (a deletion adds one generation more),
`MaxIncarnation` creations of one name, `MaxFaults` faults. Two generations are
enough for a snapshot to be older than an edit, two incarnations for a status
patch or a Secret to belong to a former one, two faults for a retry to fail in
its turn. One resource per kind and name is enough because controllers share no
state between objects; what objects share on the server (a user and its policy)
is composed in `IamCtl`. `BucketCtl`, `IamCtl` and `Connections` start
reconciliations from a store that is up to date; the snapshot is still outdated by
whatever happens while it runs, and the lagging store is in `AKPinned` and
`IamEach`. `IamEach`, `IamCtl` and `Connections` have one incarnation of each name,
`IamCtl` and `Connections` no edits of a spec: what changes under them is the other
resource, and the configuration. Secret keys and generated ids come from pools
large enough for the retries the faults allow; they are interchangeable, so the
safety runs of `MCAccessKey` use symmetry.

### Fairness

Weak fairness of each reconciliation (a process that lives finishes
what it has started and its timers fire), of each watch (the watcher reconnects),
and of the garbage collector. A crash is followed by a restart, which the
Deployment guarantees. Nothing is assumed of users, drift, the emptying of
buckets or of late requests, which need never arrive. Liveness is stated with
`<>[]`: faults and edits are finitely many, so it speaks of what holds once they
have stopped.

### Disagreements between the code and what is said of it

Each is a run that TLC must find violated.

| Run | Property | What happens |
|---|---|---|
| `AKLostWrite` | `KeptIsIntact` | A pinned key lost on the server is reissued and the Secret write fails. `secret_intact` (`access_key.rs:168-184`) sees the id and some secretKey and takes the Secret for intact: ready, with credentials the server rejects, for good. |
| `AKSecondKey` | `OneKeyPerCR` | `docs/iam-model.md:25-27` says that an AccessKey manages one credential pair. The id of a generated key is known only once the status patch has recorded it; if the reply of create is lost, the write of the Secret fails, the status patch is dropped or the process dies before it, `known_ak` is empty again and `ensure_access_key` (`access_key.rs:123-132`) issues a second key. The first works for good and no cleanup finds it. Each of the four faults suffices by itself, and so does a snapshot that predates the patch, without any fault. |
| `AKOrphan` | `GoneMeansRevoked` | No fault at all: a deletion seen before the event of the status patch lets `cleanup` (`access_key.rs:288-295`) find no id; the generated key stays. |
| `IamEmptyValue` | `ReadyMeansDeclared` | An edit restricts a policy to requests with the empty prefix. `canonicalize` (`policy.rs:41`) drops the empty value and with it the whole condition: the edit counts as equivalent, is never put, and is reported ready. |
| `BucketRollout` | `GoneMeansRemoved` | Two processes, as while a rolling update runs, and no fault: one removes bucket and finalizer, the other, in the middle of `apply()`, creates the bucket again. `run_all` (`reconcile/mod.rs:87`) elects no leader. |

Seen on the way and not given a run:

- A policy in use is deleted: `README.md:129-130` and `docs/iam-model.md:182` say
  that the resource reports the error and retries. It retries
  (`DeletedEventuallyGone`), but `cleanup` (`policy.rs:111-119`) returns the error to
  `error_policy` only: `.status` goes on saying "reconciled" and ready.
- While the write of the Secret keeps failing, every retry of a resource without a
  pinned id issues a further key (`AKSecondKey` stops at the second).
- One failed read of an intact Secret counts as a lost one and revokes the key
  (`access_key.rs:182`); `RevokeOnlyLost` is checked without that fault.
- An edit of `spec.user`, policy or description of an issued key is Kept, and
  reported ready with the new generation (`access_key.rs:105`).
- An edit of `bucketName`, `username`, `policyName`, `accessKey` or of the connection
  leaves the former object behind.
- Two User resources for one username, both reconciled while it is absent, or a
  misleading "not found" in reply to `get_user`: the creation replaces the password
  (`user.rs:34`).
- `quotaBytes: 0` is written again by every reconciliation, because
  `get_bucket_quota` reads 0 as none (`provider.rs:174`).
- A user that exists is no longer managed once its password Secret is gone
  (`user.rs:78`).
- Every failure of a read in `connection.rs`, also one that passes (`connection.rs:36`),
  becomes an error of the kind that is retried at the longer delay only
  (`error.rs:26-28`, `reconcile/mod.rs:25-27`).
- `deletionPolicy` edited while the resource is being deleted races with the
  cleanup, which acts on its snapshot.
- The comments at `crd.rs:212` ("RustFS cannot update it"), `crd.rs:236-238` and
  `docs/iam-model.md:3-5` (the operator authenticates as the user) describe earlier
  behaviour.

Every property of a passing run has a mutant in `PROJECT.json`: a plausible bug
in a modelled definition, kept beside the definition it replaces (marked
`mutant`), under which TLC finds the property violated.

## 4. What is proved

Every safety invariant and every action property of the passing runs, and both
refinements, are theorems for every number of resources, operators, keys, buckets,
users, policies, edits, incarnations and faults, but for `InSyncUntouched`; so is
what follows from the abstract specification. A strengthened invariant was checked
by TLC on the instances of the runs before it was proved. The constants are assumed to
be what the modules' `ASSUME`s say, which TLC evaluates on every instance: specs are
records of the fields named, None is no value of any other kind, generated ids are no
user names, bounds are numbers. What else a theorem needs is a hypothesis in its
statement:

| Hypothesis | Says | Needed because |
|---|---|---|
| `SoleOperator` | there is one operator process | a second one releases a resource under the first (`BucketRollout`) |
| `[]Apart` | no two resources of a kind are about one object, now or in a running reconciliation; for keys: claim one id | `bucket.rs:18` and the like keep nobody from naming another's object |
| `[]Distinct` | the same, and about none that a former resource left behind | whose object it is would be ambiguous in the abstract specification |
| `[][Steady]_vars` | users leave the name or id and the deletionPolicy of a resource alone while it exists or has left its object behind | an edited name leaves the former object behind |
| `Discerning` | documents that count as equivalent allow the same requests | it fails in `IamEmptyValue` |
| `Truthful` | no error mentions "not found" of an object that exists | `Denied` leaves it behind |
| `Traceable` | all ids are pinned, or reconciliations start from the server's copy and nothing comes between `CreateKey` and the status patch | it fails in `AKOrphan` and `AKSecondKey` |
| `Handed` | nothing comes between `CreateKey` and the write of the Secret | it fails in `AKLostWrite` |

The instances of the passing runs satisfy the hypotheses of the theorems about the
properties they check, so that none of them is empty; where those runs have misleading
answers and late requests, properties and theorems say "unless meddled".

### The runtime, once for all controllers (`RuntimeProofs`)

All safety of this operator comes down to one question: may a reconciliation that runs
on an old snapshot still act on it? `SnapshotsOK` answers it. `CacheOK` and `RunOK` say
what the store and a snapshot may still tell of the server's copy: as long as the store
shows a live resource with the finalizer, the server has the same incarnation with its
finalizer; an `apply()` works on the incarnation the server has, which keeps its
finalizer, and on no older a generation than `.status` reports; a `cleanup()` runs only
when neither server nor store has a live resource. Neither half is inductive without
the other: `RunOK` begins with what the store has, and `CacheOK` survives the removal of
a finalizer only because of what `RunOK` knows of the cleanup before it. The lemmas say
what each write of the server's copy, each delivery and each step of a reconciliation
does to it, for any labels and any statuses; `Fits` is what they ask of a controller.
`NeverForgotten` is kept beside it, since a reconciliation that ends without a timer
(`await_change`) is safe only if its patch was one the store has yet to see.
`ResourceProofs` brings these lemmas, and those on types, to the steps of
`ResourceController`, and has what the copies of one incarnation agree on
(`IdentityInv`) and what becomes of an object in the hands of its resource (`Owned`).

In every controller: `TypeCorrect` (`SafetySpec => []TypeOK`, with any number of
operators), `SnapshotsCorrect` and `NothingForgotten` (with `SoleOperator`).

### Access keys (`AccessKeyProofs`, `KeyProofs`)

- `IssueCorrect`: no key is issued for a resource that could vanish without a cleanup.
- `RecordedKeyCorrect`: no status patch erases a recorded id. With any number of
  operators.
- `ReadyCorrect`: `ReadyIsCurrent`. `ProgressInv` says what a reconciliation that has
  come as far as a label has checked of its snapshot (`Checked`); that the snapshot is of
  the generation reported and no later edit passes for it is `SnapshotInv`.
- `GoneCorrect`: `GoneMeansRevoked`, with `Truthful`, `Traceable` and `Steady`. The
  invariant `OwnedInv` follows a key through its life: its resource carries the
  finalizer, its id is where a cleanup will find it (`Located`: in the spec or status,
  or in the locals of the `apply()` that is about to record it), and nobody is about to
  remove the finalizer. `IdentityInv` makes "will find it" follow from what the
  server has: the cleanup looks in its snapshot.
- `OneKeyCorrect`: `OneKeyPerCR`, with the same hypotheses and from the same invariant:
  two keys of one resource would be located in one place. Without `Traceable` it is
  false (`AKSecondKey`).
- `PairCorrect`: `PairConsistent`, with `Handed` and `Apart`. It is inductive with
  `WrittenInv`: whoever is about to write a Secret has the secret key the server has.
- `KeptCorrect`: `KeptIsIntact`, on the same terms. When the server is asked for a key
  of this resource nobody is about to write its Secret, so that the exception of
  `PairConsistent` does not apply.
- `RevokeCorrect`: `RevokeOnlyLost`, if Secrets can be read, with `Apart` and whatever
  other faults, lost replies and crashes included. `LostInv`: what the
  reconciliation has read of the Secret stays so, until it has itself written another;
  `UniqueInv`: whoever has the secret key of a key has its id.

### Buckets, users, policies (`BucketProofs`, `IamProofs`)

- `ReadyCorrect`: `ReadyMeansDeclared`, with `Apart`, and `Discerning` for policies.
  `ProgressInv` (`UserProgressInv`, `PolicyProgressInv`) says what the calls already made
  have established of the object; `LateInv` that requests given up are on their way only
  after meddling. The step that reports it hands it over to the
  status, and whoever writes the object afterwards does so for the same snapshot, or the
  generation has changed.
- `MatchingCorrect`: `MatchingUntouched`, and `PasswordsStickCorrect`: `PasswordsStick`,
  from the same invariants: what was read is still so when it is acted upon.
- `GoneCorrect`: `GoneMeansRemoved`, with `Steady`, and `Truthful` for users and policies
  (theirs is proved whatever other tools do). `OwnedInv` as for keys.
- `ManagedCorrect`: `Managed`, that is, the controllers implement `ManagedResources`,
  with `Distinct`, `Steady`, and `Discerning` for policies. It needs all invariants above
  (`AllInv`) to show of each kind of step which of the nine abstract ones it is.
  `ManagedProofs` reduces what must be shown: a step that concerns one resource, and of
  it only what `Concerned` lists, is one of the nine or a stutter (`ConcernedSteps`);
  any step that meddles is `Meddle`.

`PromisesKept` in `ManagedProofs`: whatever implements `ManagedResources` says ready only
of what is wanted and as the spec has it, and a resource that is gone has left only an
object it was to keep, unless another tool meddled.

### Connections (`ConnectionProofs`)

- `ConnectionTypes`: `Spec => []TypeOK`, a client being at hand exactly at the calls
  that use it and a ClusterConnection exactly until its credentials are read.
- `ConnectionAsConfigured`: `Spec => []ResolvedAsConfigured`, with any number of
  operators. The property speaks only of clients, so that it is not inductive: when the
  credentials are read it must be known where the ClusterConnection at hand came from.
  The invariant `Grounded` adds that it is that of one of the configurations seen, under
  the name the reference gives it, and open to the namespace. When the credentials are
  then read, either one of the two objects is as it was then, and the client is meant by
  one configuration, or both have changed, which is the exception of the property. The
  history only grows while something is at hand (`FollowGrows`, `SeenGrows`), and
  every step of a reconciliation is brought to one form, `MovesWith`, for which
  `MovesIInv` does the induction once.

### Only model-checked

`InSyncUntouched`, and with it that `canonicalize` takes a document for what the server
makes of it (an induction over JSON values, which the prover cannot do; nor can it show
`Discerning` of given documents). All liveness: `Converges`, `DeletedEventuallyGone`,
`Quiescent`. The disagreements of section 3 are counterexamples, and need no proof.

## 5. Not modelled

Names shared between resources, and names that change. Two operator processes,
except in `BucketRollout`. Late requests of kinds other than buckets. The regions
and TLS settings of connections, the log of equivalent commands, errors' wording
beyond whether it mentions "not found". The command line and CRD generation, which
keep no state; charts, scripts and tests, which are declarative or outside the
operator. `crd.rs` is modelled as far as the controllers read it: schema generation
and serde defaults are not.

## 6. Plan

1. Done: runtime, AccessKey, Bucket, User and Policy controllers with their runs;
   type correctness and the finalizer argument for AccessKey proved.
2. Done: connection resolution; policy documents; late requests and misleading
   answers; a second operator process; the abstract specification and the
   refinement; the resolution argument proved.
3. Done: the runtime's argument proved once for all controllers; type correctness,
   snapshots and `NeverForgotten` of all of them; the statuses, deletions and pairs
   they promise; the refinement of `ManagedResources` and what follows from it.
4. Left: the consequences of `ManagedResources` in the controllers' own words, and
   theorems with weaker hypotheses: keys with generated ids under a lagging store, as
   far as they can be traced there, and names that change while the object is kept.
