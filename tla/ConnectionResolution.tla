------------------------ MODULE ConnectionResolution ------------------------
(***************************************************************************)
(* How a reconciliation finds the server (src/connection.rs).  provider_for*)
(* reads the objects that the reference of the resource leads to one after *)
(* the other, anew in every reconciliation, while administrators edit them *)
(* at will; none of these edits wakes a controller (mod.rs watches only    *)
(* the resources).                                                         *)
(*                                                                         *)
(* What the other controller modules leave to the field connection of a    *)
(* spec is here read call by call, and what they take apart, the calls     *)
(* that follow on the client so found, is here one call.                   *)
(***************************************************************************)
EXTENDS ResourceController

CONSTANTS
  NamespaceOf,         \* NamespaceOf[c]: the namespace of the resource c
  OperatorNamespace,   \* the default namespace of the operator's client
  Configs,             \* what may be configured: Secrets and ClusterConnections
  Accepted             \* Accepted[e]: the login that the server at e accepts

VARIABLES
  config,   \* the Secrets and ClusterConnections there are
  conn,     \* conn[o][c]: the ClusterConnection read for the resolution
  client,   \* client[o][c]: the client resolved for the calls that follow
  remote,   \* the pairs of a server and a resource whose object it has
  lived     \* lived[o][c]: history, the configurations seen while resolving

vars == <<controllerVars, config, conn, client, remote, lived>>

(***************************************************************************)
(* login stands for the two keys accessKey and secretKey; a key that is    *)
(* missing or empty is None.  allowed is None when every namespace is.     *)
(***************************************************************************)
Endpoints == DOMAIN Accepted

Logins == {Accepted[e] : e \in Endpoints}

ConnectionInfo == [endpoint : Endpoints, login : Logins]

Secrets == [endpoint : Endpoints \union {None}, login : Logins \union {None}]

ClusterConnections ==
  UNION {{k.clusters[n] : n \in DOMAIN k.clusters} : k \in Configs}

ASSUME ConfigsAssumption ==
  /\ \A k \in Configs : \A n \in DOMAIN k.secrets : k.secrets[n] \in Secrets
  /\ \A k \in ClusterConnections : k.endpoint \in Endpoints
  /\ None \notin Endpoints \union Logins \union ClusterConnections \union ConnectionInfo

Init ==
  /\ ControllerInit
  /\ config \in Configs
  /\ conn = [o \in Operators |-> [c \in CRs |-> None]]
  /\ client = conn
  /\ remote = {}
  /\ lived = [o \in Operators |-> [c \in CRs |-> {}]]

-----------------------------------------------------------------------------
(***************************************************************************)
(* A resolution is for apply() or, once the resource is deleted, for       *)
(* cleanup(), unless that has nothing to do.                               *)
(***************************************************************************)
Resolving(o, c) ==
  \/ pc[o][c] = "apply"
  \/ pc[o][c] = "cleanup" /\ obj[o][c].spec.deletion = "Delete"

ForCleanup(o, c) == obj[o][c].phase = "deleting"

ResolutionFails(o, c, e) ==
  /\ IF ForCleanup(o, c) THEN CleanupFails(o, c, e) ELSE Fail(o, c, e)
  /\ UNCHANGED client

(***************************************************************************)
(* Whatever cannot be read or used is an error of the connection, which    *)
(* waits for an edit.                                                      *)
(***************************************************************************)
ConnectionFails(o, c) == ResolutionFails(o, c, "config")

(***************************************************************************)
(* RustFsProvider::connect, once no required key is missing; its failure   *)
(* is one of RustFS.                                                       *)
(***************************************************************************)
Connected(o, c, endpoint, login) ==
  LET missing == endpoint = None \/ login = None
  IN \/ missing /\ NoFault /\ ConnectionFails(o, c)
     \/ /\ ~missing /\ NoFault
        /\ client' = [client EXCEPT ![o][c] = [endpoint |-> endpoint, login |-> login]]
        /\ Proceed(o, c, IF ForCleanup(o, c) THEN "delete" ELSE "ensure")
     \/ ~missing /\ Fault("call") /\ ResolutionFails(o, c, "retry")

(***************************************************************************)
(* get_secret and what is taken from it; an endpoint known already is kept.*)
(***************************************************************************)
GetSecret(o, c, name, known) ==
  \/ /\ name \in DOMAIN config.secrets
     /\ Connected(o, c, IF known # None THEN known ELSE config.secrets[name].endpoint,
                  config.secrets[name].login)
  \/ name \notin DOMAIN config.secrets /\ NoFault /\ ConnectionFails(o, c)
  \/ Fault("connection") /\ ConnectionFails(o, c)

(***************************************************************************)
(* Exactly one of the two references must be set.                          *)
(***************************************************************************)
Ref(o, c) == obj[o][c].spec.connection

WellFormed(ref) == (ref.secretRef = None) # (ref.clusterRef = None)

Misreferenced(o, c) ==
  /\ Resolving(o, c) /\ ~WellFormed(Ref(o, c))
  /\ NoFault
  /\ ConnectionFails(o, c)
  /\ UNCHANGED conn

FromLocalSecret(o, c) ==
  /\ Resolving(o, c) /\ WellFormed(Ref(o, c)) /\ Ref(o, c).secretRef # None
  /\ GetSecret(o, c, <<NamespaceOf[c], Ref(o, c).secretRef>>, None)
  /\ UNCHANGED conn

AllowsEverybody(k, ns) == TRUE   \* mutant: the list is not looked at

AllowsNamespace(k, ns) == k.allowed # None => ns \in k.allowed

FromClusterConnection(o, c) ==
  LET name == Ref(o, c).clusterRef
      usable == /\ name \in DOMAIN config.clusters
                /\ AllowsNamespace(config.clusters[name], NamespaceOf[c])
  IN /\ Resolving(o, c) /\ WellFormed(Ref(o, c)) /\ name # None
     /\ \/ /\ usable /\ NoFault
           /\ conn' = [conn EXCEPT ![o][c] = config.clusters[name]]
           /\ Proceed(o, c, "credentials")
           /\ UNCHANGED client
        \/ ~usable /\ NoFault /\ ConnectionFails(o, c) /\ UNCHANGED conn
        \/ Fault("connection") /\ ConnectionFails(o, c) /\ UNCHANGED conn

(***************************************************************************)
(* Credentials always come from the operator's own namespace.              *)
(***************************************************************************)
CredentialsOfResource(c) == NamespaceOf[c]   \* mutant: from the resource's

CredentialsNamespace(c) == OperatorNamespace

GetCredentials(o, c) ==
  /\ pc[o][c] = "credentials"
  /\ GetSecret(o, c, <<CredentialsNamespace(c), conn[o][c].credentialsSecretRef>>,
               conn[o][c].endpoint)
  /\ conn' = [conn EXCEPT ![o][c] = None]

-----------------------------------------------------------------------------
(***************************************************************************)
(* The calls of apply() and of cleanup(), refused with the wrong login.    *)
(***************************************************************************)
Works(k) == Accepted[k.endpoint] = k.login

Disconnect(o, c) == client' = [client EXCEPT ![o][c] = None] /\ UNCHANGED conn

EnsureRemote(o, c) ==
  LET k == client[o][c]
  IN /\ pc[o][c] = "ensure"
     /\ Call(o, c, Works(k), remote' = remote \union {<<k.endpoint, c>>},
             UNCHANGED remote, "status")
     /\ Disconnect(o, c)

DeleteRemote(o, c) ==
  LET k == client[o][c]
  IN /\ pc[o][c] = "delete"
     /\ Delete(o, c, Works(k), remote' = remote \ {<<k.endpoint, c>>}, UNCHANGED remote)
     /\ Disconnect(o, c)

(***************************************************************************)
(* Administrators and teams edit one kind of object at a time.             *)
(***************************************************************************)
Reconfigure ==
  /\ Fault("edit")
  /\ config' \in Configs \ {config}
  /\ config'.secrets = config.secrets \/ config'.clusters = config.clusters
  /\ UNCHANGED <<cr, cache, obj, pc, wake, result, meddled, conn, client, remote>>

-----------------------------------------------------------------------------
(***************************************************************************)
(* The history follows every step of a resolution and of the use of it.    *)
(***************************************************************************)
ConnectedSteps == {"apply", "cleanup", "credentials", "ensure", "delete"}

Follow ==
  lived' = [o \in Operators |-> [c \in CRs |->
              IF pc'[o][c] \in ConnectedSteps THEN lived[o][c] \union {config'} ELSE {}]]

Resolve(o, c) ==
  \/ Misreferenced(o, c) \/ FromLocalSecret(o, c)
  \/ FromClusterConnection(o, c) \/ GetCredentials(o, c)

Reconcile(o, c) ==
  /\ \/ OwnStep(o, c) /\ UNCHANGED <<conn, client, remote>>
     \/ Resolve(o, c) /\ UNCHANGED remote
     \/ EnsureRemote(o, c) \/ DeleteRemote(o, c)
  /\ NoMeddling /\ UNCHANGED config /\ Follow

Observe(o, c) == Watch(o, c) /\ UNCHANGED <<config, conn, client, remote>> /\ Follow

CrashOperator(o) ==
  /\ Crash(o)
  /\ conn' = [conn EXCEPT ![o] = [c \in CRs |-> None]]
  /\ client' = [client EXCEPT ![o] = [c \in CRs |-> None]]
  /\ UNCHANGED <<config, remote>>

Next ==
  \/ \E o \in Operators, c \in CRs : Reconcile(o, c) \/ Observe(o, c)
  \/ (\E o \in Operators : CrashOperator(o)) /\ Follow
  \/ /\ \E c \in CRs : UserStep(c, Specs)
     /\ UNCHANGED <<config, conn, client, remote>> /\ Follow
  \/ Reconfigure /\ Follow

Spec ==
  /\ Init /\ [][Next]_vars
  /\ \A o \in Operators, c \in CRs : WF_vars(Reconcile(o, c)) /\ WF_vars(Observe(o, c))

-----------------------------------------------------------------------------
(***************************************************************************)
(* Properties.                                                             *)
(***************************************************************************)

(***************************************************************************)
(* Every variable has its type, a client is at hand exactly for the calls  *)
(* that need it, a ClusterConnection until its credentials are read.       *)
(***************************************************************************)
Steps == {"credentials", "ensure"}

TypeOK ==
  /\ ControllerTypeOK(ResourceStatus, Steps)
  /\ config \in Configs
  /\ conn \in [Operators -> [CRs -> ClusterConnections \union {None}]]
  /\ client \in [Operators -> [CRs -> ConnectionInfo \union {None}]]
  /\ remote \subseteq Endpoints \X CRs
  /\ lived \in [Operators -> [CRs -> SUBSET Configs]]
  /\ \A o \in Operators, c \in CRs :
       /\ client[o][c] # None <=> pc[o][c] \in {"ensure", "delete"}
       /\ conn[o][c] # None <=> pc[o][c] = "credentials"

(***************************************************************************)
(* The reference ref of the resource c means the client k, given these     *)
(* ClusterConnections and Secrets (crd.rs and README).                     *)
(***************************************************************************)
Means(c, ref, clusters, secrets, k) ==
  LET own == <<NamespaceOf[c], ref.secretRef>>
      cluster == clusters[ref.clusterRef]
      creds == <<OperatorNamespace, cluster.credentialsSecretRef>>
  IN \/ /\ ref.secretRef # None /\ ref.clusterRef = None
        /\ own \in DOMAIN secrets
        /\ secrets[own].endpoint = k.endpoint /\ secrets[own].login = k.login
     \/ /\ ref.clusterRef # None /\ ref.secretRef = None
        /\ ref.clusterRef \in DOMAIN clusters
        /\ cluster.allowed = None \/ NamespaceOf[c] \in cluster.allowed
        /\ creds \in DOMAIN secrets
        /\ cluster.endpoint = k.endpoint /\ secrets[creds].login = k.login

(***************************************************************************)
(* No call is made with an endpoint and a login that the reference has not *)
(* meant at one instant since the reconciliation began, so that whoever is *)
(* barred by then is barred for good; only if both the ClusterConnection   *)
(* and its Secret are edited between the two reads may the client have one *)
(* of before and the other of after the edits.                             *)
(***************************************************************************)
Attested(o, c) ==
  \E k, l \in lived[o][c] :
    /\ k = l \/ (k.clusters # l.clusters /\ k.secrets # l.secrets)
    /\ Means(c, Ref(o, c), k.clusters, l.secrets, client[o][c])

ResolvedAsConfigured ==
  \A o \in Operators, c \in CRs : client[o][c] # None => Attested(o, c)

(***************************************************************************)
(* Where the reference of the resource leads to now.                       *)
(***************************************************************************)
Targets(c) ==
  {k \in ConnectionInfo :
     Means(c, cr[c].spec.connection, config.clusters, config.secrets, k)}

(***************************************************************************)
(* The live resource is where its reference leads, or says why not.        *)
(***************************************************************************)
Says(c, m) == cr[c].status.message = m /\ cr[c].status.observed = cr[c].gen

Settled(c) ==
  /\ Targets(c) = {} => Says(c, "config")
  /\ \A k \in Targets(c) :
       IF Works(k) THEN Says(c, "reconciled") /\ <<k.endpoint, c>> \in remote
                   ELSE Says(c, "retry")

(***************************************************************************)
(* Although no edit of a Secret or a ClusterConnection wakes a controller, *)
(* every resource follows the last one: to the server it leads to, or, its *)
(* credentials revoked or its namespace barred, to the error of that kind. *)
(***************************************************************************)
Converges == <>[](\A c \in CRs : cr[c].phase = "live" => Settled(c))

(***************************************************************************)
(* A deleted resource stays only as long as its reference leads nowhere,   *)
(* or to a server that refuses the login, and its object must go.          *)
(***************************************************************************)
DeletedEventuallyGone ==
  <>[](\A c \in CRs :
         cr[c].phase = "deleting" =>
           cr[c].spec.deletion = "Delete" /\ \A k \in Targets(c) : ~Works(k))
=============================================================================
