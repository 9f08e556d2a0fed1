--------------------------- MODULE ConnectionProofs ---------------------------
(***************************************************************************)
(* Theorems about ConnectionResolution, for every number of resources,     *)
(* operators, namespaces, configurations, edits and faults.                *)
(***************************************************************************)
EXTENDS ConnectionResolution, ResourceProofs

(***************************************************************************)
(* The inductive invariant: what is at hand was found in what has been     *)
(* seen since the reconciliation began, the client as Attested says, the   *)
(* ClusterConnection in one of the configurations, open to the namespace.  *)
(***************************************************************************)
AttestedBy(c, ref, seen, k) ==
  \E m, n \in seen :
    /\ m = n \/ (m.clusters # n.clusters /\ m.secrets # n.secrets)
    /\ Means(c, ref, m.clusters, n.secrets, k)

FoundIn(c, ref, seen, k) ==
  /\ ref.clusterRef # None /\ ref.secretRef = None
  /\ k.allowed = None \/ NamespaceOf[c] \in k.allowed
  /\ \E m \in seen :
       ref.clusterRef \in DOMAIN m.clusters /\ m.clusters[ref.clusterRef] = k

Grounded ==
  \A o \in Operators, c \in CRs :
    /\ client[o][c] # None => AttestedBy(c, Ref(o, c), lived[o][c], client[o][c])
    /\ conn[o][c] # None => FoundIn(c, Ref(o, c), lived[o][c], conn[o][c])

IInv == TypeOK /\ Grounded

HandlesOK ==
  \A o \in Operators, c \in CRs :
    /\ client[o][c] # None <=> pc[o][c] \in {"ensure", "delete"}
    /\ conn[o][c] # None <=> pc[o][c] = "credentials"

\* What the invariant says of the client is what the property says.
LEMMA GroundedIsResolved == IInv => ResolvedAsConfigured
BY DEF IInv, Grounded, ResolvedAsConfigured, Attested, AttestedBy

\* The initial states satisfy the invariant.
LEMMA InitIInv == Init => IInv
<1> SUFFICES ASSUME Init PROVE IInv
  OBVIOUS
<1>1. Typed(Steps)
  BY InitTyped DEF Init
<1>2. client = conn /\ conn \in [Operators -> [CRs -> {None}]]
  BY DEF Init
<1>3. \A o \in Operators, c \in CRs : pc[o][c] = "idle"
  BY DEF Init, ControllerInit, RuntimeInit
<1>4. TypeOK
  BY <1>1, <1>2, <1>3 DEF Init, TypeOK, Typed
<1> QED
  BY <1>2, <1>4 DEF IInv, Grounded

-----------------------------------------------------------------------------
(***************************************************************************)
(* What is at hand stays grounded as more is seen.                         *)
(***************************************************************************)
LEMMA SeenGrows ==
  ASSUME NEW c, NEW ref, NEW k, NEW S, NEW T, S \subseteq T
  PROVE  /\ AttestedBy(c, ref, S, k) => AttestedBy(c, ref, T, k)
         /\ FoundIn(c, ref, S, k) => FoundIn(c, ref, T, k)
BY DEF AttestedBy, FoundIn

\* The history holds configurations, and grows while something is at hand.
LEMMA FollowGrows ==
  ASSUME TypeOK, config' \in Configs, Follow
  PROVE  /\ lived' \in [Operators -> [CRs -> SUBSET Configs]]
         /\ \A o \in Operators, c \in CRs :
              pc'[o][c] \in ConnectedSteps => lived'[o][c] = lived[o][c] \union {config'}
BY DEF TypeOK, Follow

\* A step that leaves the reconciliations alone keeps the invariant.
LEMMA StayIInv ==
  ASSUME IInv, Typed(Steps)', UNCHANGED <<obj, pc, conn, client, remote>>,
         config' \in Configs, Follow
  PROVE  IInv'
<1>1. TypeOK'
  BY FollowGrows DEF IInv, TypeOK, Typed
<1>2. ASSUME NEW o \in Operators, NEW c \in CRs,
             client[o][c] # None \/ conn[o][c] # None
      PROVE  lived[o][c] \subseteq lived'[o][c]
  <2>1. pc'[o][c] \in {"ensure", "delete", "credentials"}
    BY <1>2 DEF IInv, TypeOK
  <2> QED
    BY <2>1, FollowGrows DEF IInv, ConnectedSteps
<1>3. Grounded'
  BY <1>2, SeenGrows DEF IInv, Grounded, Ref
<1> QED
  BY <1>1, <1>3 DEF IInv

(***************************************************************************)
(* A step of the reconciliation of c by o that goes on to l with the       *)
(* client k and the ClusterConnection n at hand.                           *)
(***************************************************************************)
MovesWith(o, c, l, k, n) ==
  /\ pc' = [pc EXCEPT ![o][c] = l]
  /\ client' = [client EXCEPT ![o][c] = k]
  /\ conn' = [conn EXCEPT ![o][c] = n]
  /\ k # None <=> l \in {"ensure", "delete"}
  /\ n # None <=> l = "credentials"
  /\ obj' = obj \/ obj' = [obj EXCEPT ![o][c] = obj'[o][c]]
  /\ k # None \/ n # None => obj' = obj
  /\ k # None => AttestedBy(c, Ref(o, c), lived[o][c] \union {config}, k)
  /\ n # None => FoundIn(c, Ref(o, c), lived[o][c] \union {config}, n)

\* Such a step keeps the invariant.
LEMMA MovesIInv ==
  ASSUME IInv, NEW o \in Operators, NEW c \in CRs, NEW l,
         NEW k \in ConnectionInfo \union {None},
         NEW n \in ClusterConnections \union {None},
         MovesWith(o, c, l, k, n), Typed(Steps)', remote' \subseteq Endpoints \X CRs,
         UNCHANGED config, Follow
  PROVE  IInv'
<1>1. /\ client' \in [Operators -> [CRs -> ConnectionInfo \union {None}]]
      /\ conn' \in [Operators -> [CRs -> ClusterConnections \union {None}]]
  BY DEF MovesWith, IInv, TypeOK
<1>2. HandlesOK'
  BY DEF MovesWith, IInv, TypeOK, HandlesOK, Typed, ControllerTypeOK, RuntimeTypeOK
<1>3. config' \in Configs
  BY DEF IInv, TypeOK
<1>4. TypeOK'
  BY <1>1, <1>2, <1>3, FollowGrows DEF IInv, TypeOK, HandlesOK, Typed
<1>5. ASSUME NEW p \in Operators, NEW d \in CRs
      PROVE  /\ client'[p][d] # None =>
                  AttestedBy(d, Ref(p, d)', lived'[p][d], client'[p][d])
             /\ conn'[p][d] # None => FoundIn(d, Ref(p, d)', lived'[p][d], conn'[p][d])
  <2>1. client'[p][d] # None \/ conn'[p][d] # None =>
          lived'[p][d] = lived[p][d] \union {config}
    BY <1>2, <1>3, FollowGrows DEF IInv, HandlesOK, ConnectedSteps
  <2>2. CASE p = o /\ d = c
    <3>1. client'[p][d] = k /\ conn'[p][d] = n
      BY <2>2 DEF MovesWith, IInv, TypeOK
    <3> QED
      BY <2>1, <2>2, <3>1 DEF MovesWith, Ref
  <2>3. CASE p # o \/ d # c
    <3>1. /\ client'[p][d] = client[p][d] /\ conn'[p][d] = conn[p][d]
          /\ obj'[p][d] = obj[p][d]
      BY <2>3 DEF MovesWith, IInv, TypeOK, ControllerTypeOK, RuntimeTypeOK
    <3> QED
      BY <2>1, <3>1, SeenGrows DEF IInv, Grounded, Ref
  <2> QED
    BY <2>2, <2>3
<1> QED
  BY <1>4, <1>5 DEF IInv, Grounded

-----------------------------------------------------------------------------
(***************************************************************************)
(* Nothing is at hand before a resolution and none of the resource's own   *)
(* steps change that.                                                      *)
(***************************************************************************)
LEMMA EmptyHanded ==
  ASSUME TypeOK, NEW o \in Operators, NEW c \in CRs
  PROVE  /\ pc[o][c] \notin {"ensure", "delete"} => client = [client EXCEPT ![o][c] = None]
         /\ pc[o][c] # "credentials" => conn = [conn EXCEPT ![o][c] = None]
BY DEF TypeOK

\* The resource's own steps put nothing at hand.
LEMMA OwnStepMoves ==
  ASSUME TypeOK, NEW o \in Operators, NEW c \in CRs, OwnStep(o, c),
         UNCHANGED <<conn, client>>
  PROVE  \E l : MovesWith(o, c, l, None, None)
<1>1. /\ pc[o][c] \notin {"ensure", "delete", "credentials"}
      /\ \E l : /\ l \notin {"ensure", "delete", "credentials"}
                /\ pc' = [pc EXCEPT ![o][c] = l]
      /\ obj' = obj \/ obj' = [obj EXCEPT ![o][c] = obj'[o][c]]
  <2>0. obj \in [Operators -> [CRs -> ApiObjects]]
    BY DEF TypeOK, ControllerTypeOK, RuntimeTypeOK, ApiObjects
  <2>1. CASE Start(o, c)
    <3>1. FinalizerEvent(cache[o][c]) \notin {"ensure", "delete", "credentials"}
      BY DEF FinalizerEvent
    <3> QED
      BY <2>0, <2>1, <3>1 DEF Start
  <2>2. CASE AddFinalizer(o, c) \/ RemoveFinalizer(o, c) \/ UpdateStatus(o, c)
    <3>1. /\ pc[o][c] \in {"addFinalizer", "removeFinalizer", "status"}
          /\ \E e : Finish(o, c, e)
      BY <2>2 DEF AddFinalizer, RemoveFinalizer, UpdateStatus, PatchStatus
    <3> QED
      BY <2>0, <3>1 DEF Finish
  <2>3. CASE Retained(o, c)
    BY <2>3 DEF Retained, Proceed, Goto
  <2> QED
    BY <2>1, <2>2, <2>3 DEF OwnStep
<1> QED
  BY <1>1, EmptyHanded DEF MovesWith

(***************************************************************************)
(* A resolution that fails puts nothing at hand.                           *)
(***************************************************************************)
LEMMA ResolutionFailsMoves ==
  ASSUME TypeOK, NEW o \in Operators, NEW c \in CRs, NEW e \in {"config", "retry"},
         ResolutionFails(o, c, e),
         pc[o][c] \in {"apply", "cleanup", "credentials"},
         conn' = [conn EXCEPT ![o][c] = None], faults' \in Nat, NoMeddling
  PROVE  Typed(Steps)' /\ \E l : MovesWith(o, c, l, None, None)
<1>1. meddled' \in BOOLEAN /\ Typed(Steps)
  BY DEF TypeOK, Typed, ControllerTypeOK, NoMeddling
<1>2. client' = [client EXCEPT ![o][c] = None]
  BY EmptyHanded DEF ResolutionFails
<1>3. obj \in [Operators -> [CRs -> ApiObjects]]
  BY DEF TypeOK, ControllerTypeOK, RuntimeTypeOK, ApiObjects
<1>4. CASE CleanupFails(o, c, e)
  <2>1. Typed(Steps)'
    BY <1>1, <1>4, CleanupFailsTyped
  <2>2. MovesWith(o, c, "idle", None, None)
    BY <1>2, <1>3, <1>4 DEF CleanupFails, Finish, MovesWith
  <2> QED
    BY <2>1, <2>2
<1>5. CASE Fail(o, c, e)
  <2>1. Typed(Steps)'
    BY <1>1, <1>5, FailTyped
  <2>2. MovesWith(o, c, "status", None, None)
    BY <1>2, <1>5 DEF Fail, Goto, MovesWith
  <2> QED
    BY <2>1, <2>2
<1> QED
  BY <1>4, <1>5 DEF ResolutionFails

\* So does one that finds an error of the connection.
LEMMA ConnectionFailsMoves ==
  ASSUME TypeOK, NEW o \in Operators, NEW c \in CRs, ConnectionFails(o, c),
         pc[o][c] \in {"apply", "cleanup", "credentials"},
         conn' = [conn EXCEPT ![o][c] = None], faults' \in Nat, NoMeddling
  PROVE  Typed(Steps)' /\ \E l : MovesWith(o, c, l, None, None)
BY ResolutionFailsMoves DEF ConnectionFails

(***************************************************************************)
(* A Secret that is read leads to the client it says or to an error.       *)
(***************************************************************************)
LEMMA GetSecretMoves ==
  ASSUME TypeOK, NEW o \in Operators, NEW c \in CRs,
         NEW name, NEW known \in Endpoints \union {None},
         GetSecret(o, c, name, known),
         pc[o][c] \in {"apply", "cleanup", "credentials"},
         conn' = [conn EXCEPT ![o][c] = None], NoMeddling,
         ASSUME NEW k \in ConnectionInfo, name \in DOMAIN config.secrets,
                k.endpoint = IF known # None THEN known ELSE config.secrets[name].endpoint,
                k.login = config.secrets[name].login
         PROVE  AttestedBy(c, Ref(o, c), lived[o][c] \union {config}, k)
  PROVE  /\ Typed(Steps)'
         /\ \E l, k : k \in ConnectionInfo \union {None} /\ MovesWith(o, c, l, k, None)
<1>1. faults' \in Nat /\ meddled' \in BOOLEAN /\ Typed(Steps)
  BY FaultsTyped
  DEF GetSecret, Connected, TypeOK, Typed, ControllerTypeOK, RuntimeTypeOK, NoMeddling
<1>2. CASE \E e \in {"config", "retry"} : ResolutionFails(o, c, e)
  BY <1>1, <1>2, ResolutionFailsMoves
<1>3. CASE /\ name \in DOMAIN config.secrets
           /\ ~\E e \in {"config", "retry"} : ResolutionFails(o, c, e)
  <2> DEFINE s == config.secrets[name]
             e == IF known # None THEN known ELSE s.endpoint
             k == [endpoint |-> e, login |-> s.login]
             l == IF ForCleanup(o, c) THEN "delete" ELSE "ensure"
  <2>1. s \in Secrets
    BY <1>3, ConfigsAssumption DEF TypeOK
  <2>2. /\ e # None /\ s.login # None
        /\ client' = [client EXCEPT ![o][c] = k]
        /\ Proceed(o, c, l)
    BY <1>3 DEF GetSecret, Connected, ConnectionFails
  <2>3. k \in ConnectionInfo
    BY <2>1, <2>2 DEF ConnectionInfo, Secrets
  <2>4. k # None
    BY <2>3, ConfigsAssumption
  <2>5. AttestedBy(c, Ref(o, c), lived[o][c] \union {config}, k)
    BY <1>3, <2>3
  <2>6. l \in {"delete", "ensure"} /\ l \in Steps \union ResourceSteps
    BY DEF Steps, ResourceSteps
  <2> HIDE DEF k, l
  <2>7. Typed(Steps)'
    BY <1>1, <2>2, <2>6, ProceedTyped
  <2>8. MovesWith(o, c, l, k, None)
    BY <2>2, <2>4, <2>5, <2>6 DEF MovesWith, Proceed, Goto
  <2> QED
    BY <2>3, <2>7, <2>8
<1> QED
  BY <1>2, <1>3 DEF GetSecret, ConnectionFails

-----------------------------------------------------------------------------
(***************************************************************************)
(* The steps of a resolution.                                              *)
(***************************************************************************)
LEMMA ResolveIInv ==
  ASSUME IInv, NEW o \in Operators, NEW c \in CRs, Resolve(o, c),
         UNCHANGED remote, NoMeddling, UNCHANGED config, Follow
  PROVE  IInv'
<1>0. /\ TypeOK /\ remote' \subseteq Endpoints \X CRs
      /\ None \in ConnectionInfo \union {None} /\ None \in ClusterConnections \union {None}
  BY DEF IInv, TypeOK
<1>1. Resolving(o, c) => /\ pc[o][c] \in {"apply", "cleanup", "credentials"}
                         /\ UNCHANGED conn => conn' = [conn EXCEPT ![o][c] = None]
  BY <1>0, EmptyHanded DEF Resolving
<1>2. CASE Misreferenced(o, c)
  <2>1. faults' \in Nat
    BY <1>0, <1>2 DEF Misreferenced, NoFault, TypeOK, ControllerTypeOK, RuntimeTypeOK
  <2> QED
    BY <1>0, <1>1, <1>2, <2>1, ConnectionFailsMoves, MovesIInv DEF Misreferenced
<1>3. CASE FromLocalSecret(o, c)
  <2> DEFINE ref == Ref(o, c)
             name == <<NamespaceOf[c], ref.secretRef>>
  <2>1. /\ ref.secretRef # None /\ ref.clusterRef = None
        /\ GetSecret(o, c, name, None) /\ UNCHANGED conn /\ Resolving(o, c)
    BY <1>3 DEF FromLocalSecret, WellFormed
  <2>2. ASSUME NEW k \in ConnectionInfo, name \in DOMAIN config.secrets,
               k.endpoint = config.secrets[name].endpoint,
               k.login = config.secrets[name].login
        PROVE  AttestedBy(c, ref, lived[o][c] \union {config}, k)
    <3>1. Means(c, ref, config.clusters, config.secrets, k)
      BY <2>1, <2>2 DEF Means
    <3> QED
      BY <3>1 DEF AttestedBy
  <2> HIDE DEF name
  <2>3. /\ Typed(Steps)'
        /\ \E l, k : k \in ConnectionInfo \union {None} /\ MovesWith(o, c, l, k, None)
    BY <1>0, <1>1, <2>1, <2>2, GetSecretMoves
  <2> QED
    BY <1>0, <2>3, MovesIInv
<1>4. CASE FromClusterConnection(o, c)
  <2> DEFINE ref == Ref(o, c)
             n == config.clusters[ref.clusterRef]
  <2>1. ref.clusterRef # None /\ ref.secretRef = None /\ Resolving(o, c)
    BY <1>4 DEF FromClusterConnection, WellFormed
  <2>2. faults' \in Nat /\ meddled' \in BOOLEAN /\ Typed(Steps)
    BY <1>0, <1>4, FaultsTyped
    DEF FromClusterConnection, TypeOK, Typed, ControllerTypeOK, RuntimeTypeOK, NoMeddling
  <2>3. CASE ConnectionFails(o, c) /\ UNCHANGED conn
    BY <1>0, <1>1, <2>1, <2>2, <2>3, ConnectionFailsMoves, MovesIInv
  <2>4. CASE ~(ConnectionFails(o, c) /\ UNCHANGED conn)
    <3>1. /\ ref.clusterRef \in DOMAIN config.clusters /\ AllowsNamespace(n, NamespaceOf[c])
          /\ conn' = [conn EXCEPT ![o][c] = n]
          /\ Proceed(o, c, "credentials")
          /\ UNCHANGED client
      BY <1>4, <2>4 DEF FromClusterConnection
    <3>2. n \in ClusterConnections /\ n # None
      BY <1>0, <3>1, ConfigsAssumption DEF ClusterConnections, TypeOK
    <3>3. FoundIn(c, ref, lived[o][c] \union {config}, n)
      BY <2>1, <3>1 DEF FoundIn, AllowsNamespace
    <3>4. client' = [client EXCEPT ![o][c] = None]
      BY <1>0, <1>1, <2>1, <3>1, EmptyHanded
    <3>5. Typed(Steps)'
      BY <2>2, <3>1, ProceedTyped DEF Steps
    <3> HIDE DEF n
    <3>6. MovesWith(o, c, "credentials", None, n)
      BY <3>1, <3>2, <3>3, <3>4 DEF MovesWith, Proceed, Goto
    <3> QED
      BY <1>0, <3>2, <3>5, <3>6, MovesIInv
  <2> QED
    BY <2>3, <2>4
<1>5. CASE GetCredentials(o, c)
  <2> DEFINE ref == Ref(o, c)
             m == conn[o][c]
             name == <<OperatorNamespace, m.credentialsSecretRef>>
             known == m.endpoint
  <2>1. /\ pc[o][c] = "credentials" /\ GetSecret(o, c, name, known)
        /\ conn' = [conn EXCEPT ![o][c] = None]
    BY <1>5 DEF GetCredentials, CredentialsNamespace
  <2>2. m \in ClusterConnections /\ FoundIn(c, ref, lived[o][c], m)
    BY <1>0, <2>1 DEF IInv, TypeOK, Grounded
  <2>3. known \in Endpoints /\ known # None
    BY <2>2, ConfigsAssumption
  <2>4. ASSUME NEW k \in ConnectionInfo, name \in DOMAIN config.secrets,
               k.endpoint = IF known # None THEN known ELSE config.secrets[name].endpoint,
               k.login = config.secrets[name].login
        PROVE  AttestedBy(c, ref, lived[o][c] \union {config}, k)
    <3>1. PICK q \in lived[o][c] : ref.clusterRef \in DOMAIN q.clusters
                                   /\ q.clusters[ref.clusterRef] = m
      BY <2>2 DEF FoundIn
    <3>2. Means(c, ref, q.clusters, config.secrets, k)
      BY <2>2, <2>3, <2>4, <3>1 DEF Means, FoundIn
    <3>3. CASE q.clusters = config.clusters
      BY <3>2, <3>3 DEF AttestedBy
    <3>4. CASE q.secrets = config.secrets
      BY <3>1, <3>2, <3>4 DEF AttestedBy
    <3>5. CASE q.clusters # config.clusters /\ q.secrets # config.secrets
      BY <3>1, <3>2, <3>5 DEF AttestedBy
    <3> QED
      BY <3>3, <3>4, <3>5
  <2>5. pc[o][c] \in {"apply", "cleanup", "credentials"} /\ known \in Endpoints \union {None}
    BY <2>1, <2>3
  <2> HIDE DEF ref, name, known
  <2>6. /\ Typed(Steps)'
        /\ \E l, k : k \in ConnectionInfo \union {None} /\ MovesWith(o, c, l, k, None)
    BY <1>0, <2>1, <2>4, <2>5, GetSecretMoves DEF ref
  <2> QED
    BY <1>0, <2>6, MovesIInv
<1> QED
  BY <1>2, <1>3, <1>4, <1>5 DEF Resolve

(***************************************************************************)
(* The calls on the client, after which it is dropped.                     *)
(***************************************************************************)
LEMMA UseIInv ==
  ASSUME IInv, NEW o \in Operators, NEW c \in CRs,
         EnsureRemote(o, c) \/ DeleteRemote(o, c),
         NoMeddling, UNCHANGED config, Follow
  PROVE  IInv'
<1>0. /\ TypeOK /\ Typed(Steps) /\ meddled' \in BOOLEAN
      /\ None \in ConnectionInfo \union {None} /\ None \in ClusterConnections \union {None}
  BY DEF IInv, TypeOK, Typed, ControllerTypeOK, NoMeddling
<1>1. /\ pc[o][c] \in {"ensure", "delete"} /\ Disconnect(o, c)
      /\ Proceed(o, c, "status") \/ Proceed(o, c, "removeFinalizer")
         \/ Fail(o, c, "retry") \/ CleanupFails(o, c, "retry")
      /\ NoFault \/ \E f : Fault(f)
  BY DEF EnsureRemote, DeleteRemote, Call, Delete
<1>2. remote' \subseteq Endpoints \X CRs
  <2>1. client[o][c] \in ConnectionInfo
    BY <1>0, <1>1 DEF TypeOK
  <2>2. client[o][c].endpoint \in Endpoints
    BY <2>1 DEF ConnectionInfo
  <2>3. \/ remote' = remote \union {<<client[o][c].endpoint, c>>}
        \/ remote' = remote \ {<<client[o][c].endpoint, c>>}
        \/ remote' = remote
    BY DEF EnsureRemote, DeleteRemote, Call, Delete
  <2> QED
    BY <1>0, <2>2, <2>3 DEF TypeOK
<1>3. faults' \in Nat
  BY <1>0, <1>1, FaultsTyped DEF TypeOK, ControllerTypeOK, RuntimeTypeOK
<1>4. Typed(Steps)'
  BY <1>0, <1>1, <1>3, ProceedTyped, FailTyped, CleanupFailsTyped DEF ResourceSteps
<1>5. obj \in [Operators -> [CRs -> ApiObjects]]
  BY <1>0 DEF TypeOK, ControllerTypeOK, RuntimeTypeOK, ApiObjects
<1>6. /\ client' = [client EXCEPT ![o][c] = None]
      /\ conn' = [conn EXCEPT ![o][c] = None]
  BY <1>0, <1>1, EmptyHanded DEF Disconnect
<1>7. \E l : MovesWith(o, c, l, None, None)
  <2>1. CASE CleanupFails(o, c, "retry")
    <3>1. MovesWith(o, c, "idle", None, None)
      BY <1>5, <1>6, <2>1 DEF CleanupFails, Finish, MovesWith
    <3> QED
      BY <3>1
  <2>2. ASSUME NEW l \in {"status", "removeFinalizer"}, Goto(o, c, l)
        PROVE  MovesWith(o, c, l, None, None)
    BY <1>6, <2>2 DEF Goto, MovesWith
  <2> QED
    BY <1>1, <2>1, <2>2 DEF Proceed, Fail
<1> QED
  BY <1>0, <1>2, <1>4, <1>7, MovesIInv

(***************************************************************************)
(* A process that dies has nothing at hand any more.                       *)
(***************************************************************************)
LEMMA CrashIInv ==
  ASSUME IInv, NEW o \in Operators, CrashOperator(o), Follow
  PROVE  IInv'
<1>1. Typed(Steps)'
  BY CrashTyped DEF IInv, TypeOK, Typed, CrashOperator
<1>2. ASSUME NEW p \in Operators, NEW d \in CRs
      PROVE  /\ p = o => /\ client'[p][d] = None /\ conn'[p][d] = None
                         /\ pc'[p][d] = "idle"
             /\ p # o => /\ client'[p][d] = client[p][d] /\ conn'[p][d] = conn[p][d]
                         /\ pc'[p][d] = pc[p][d] /\ obj'[p][d] = obj[p][d]
  BY DEF CrashOperator, Crash, Restart, IInv, TypeOK, ControllerTypeOK, RuntimeTypeOK
<1>3. /\ client' \in [Operators -> [CRs -> ConnectionInfo \union {None}]]
      /\ conn' \in [Operators -> [CRs -> ClusterConnections \union {None}]]
      /\ UNCHANGED <<config, remote>>
  BY DEF CrashOperator, IInv, TypeOK
<1>4. HandlesOK'
  BY <1>2 DEF IInv, TypeOK, HandlesOK
<1>5. TypeOK'
  BY <1>1, <1>3, <1>4, FollowGrows DEF IInv, TypeOK, HandlesOK, Typed
<1>6. ASSUME NEW p \in Operators, NEW d \in CRs,
             client'[p][d] # None \/ conn'[p][d] # None
      PROVE  p # o /\ lived[p][d] \subseteq lived'[p][d]
  <2>1. p # o /\ pc'[p][d] \in {"ensure", "delete", "credentials"}
    BY <1>2, <1>4, <1>6 DEF HandlesOK
  <2>2. config' \in Configs
    BY <1>3 DEF IInv, TypeOK
  <2> QED
    BY <2>1, <2>2, FollowGrows DEF IInv, ConnectedSteps
<1>7. ASSUME NEW p \in Operators, NEW d \in CRs
      PROVE  /\ client'[p][d] # None =>
                  AttestedBy(d, Ref(p, d)', lived'[p][d], client'[p][d])
             /\ conn'[p][d] # None => FoundIn(d, Ref(p, d)', lived'[p][d], conn'[p][d])
  BY <1>2, <1>6, SeenGrows DEF IInv, Grounded, Ref
<1> QED
  BY <1>5, <1>7 DEF IInv, Grounded

-----------------------------------------------------------------------------
\* Every step keeps the invariant.
LEMMA NextIInv == IInv /\ [Next]_vars => IInv'
<1> SUFFICES ASSUME IInv, [Next]_vars PROVE IInv'
  OBVIOUS
<1>0. TypeOK /\ Typed(Steps) /\ config \in Configs
  BY DEF IInv, TypeOK, Typed
<1>1. ASSUME NEW o \in Operators, NEW c \in CRs, Reconcile(o, c)
      PROVE  IInv'
  <2>1. NoMeddling /\ UNCHANGED config /\ Follow
    BY <1>1 DEF Reconcile
  <2>2. CASE OwnStep(o, c) /\ UNCHANGED <<conn, client, remote>>
    <3>1. Typed(Steps)' /\ remote' \subseteq Endpoints \X CRs
      BY <1>0, <2>1, <2>2, OwnStepTyped DEF TypeOK
    <3>2. PICK l : MovesWith(o, c, l, None, None)
      BY <1>0, <2>2, OwnStepMoves
    <3> QED
      BY <2>1, <3>1, <3>2, MovesIInv
  <2> QED
    BY <1>1, <2>1, <2>2, ResolveIInv, UseIInv DEF Reconcile
<1>2. ASSUME NEW o \in Operators, NEW c \in CRs, Observe(o, c)
      PROVE  IInv'
  <2>1. Typed(Steps)'
    BY <1>0, <1>2, WatchTyped DEF Observe
  <2> QED
    BY <1>0, <1>2, <2>1, StayIInv DEF Observe, Watch, Deliver
<1>3. ASSUME NEW c \in CRs, UserStep(c, Specs), UNCHANGED <<config, conn, client, remote>>,
             Follow
      PROVE  IInv'
  <2>1. Typed(Steps)'
    BY <1>0, <1>3, UserStepTyped
  <2> QED
    BY <1>0, <1>3, <2>1, StayIInv DEF UserStep, CreateCR, EditCR, DeleteCR
<1>4. CASE Reconfigure /\ Follow
  <2>1. faults' \in Nat
    BY <1>0, <1>4, FaultsTyped DEF Reconfigure, Typed, ControllerTypeOK, RuntimeTypeOK
  <2>2. Typed(Steps)'
    BY <1>0, <1>4, <2>1 DEF Reconfigure, Typed, ControllerTypeOK, RuntimeTypeOK
  <2> QED
    BY <1>4, <2>2, StayIInv DEF Reconfigure
<1>5. CASE UNCHANGED vars
  BY <1>5 DEF vars, controllerVars, IInv, TypeOK, ControllerTypeOK, RuntimeTypeOK,
              Grounded, Ref
<1> QED
  BY <1>1, <1>2, <1>3, <1>4, <1>5, CrashIInv DEF Next

(***************************************************************************)
(* Every variable has its type in every state; a client is at hand exactly *)
(* for the calls that need it (provider_for in src/connection.rs).         *)
(***************************************************************************)
THEOREM ConnectionTypes == Spec => []TypeOK
<1>1. IInv => TypeOK
  BY DEF IInv
<1> QED
  BY <1>1, InitIInv, NextIInv, PTL DEF Spec

(***************************************************************************)
(* No call is made with an endpoint and a login that the reference of the  *)
(* resource has not meant since the reconciliation began, but for the one  *)
(* mixture that two edits between the two reads of src/connection.rs make. *)
(***************************************************************************)
THEOREM ConnectionAsConfigured == Spec => []ResolvedAsConfigured
BY InitIInv, NextIInv, GroundedIsResolved, PTL DEF Spec
=============================================================================
