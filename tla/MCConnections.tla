---------------------------- MODULE MCConnections ----------------------------
(***************************************************************************)
(* A small instance of ConnectionResolution for TLC: a team's namespace    *)
(* app, the operator's own, and in each a Secret of the same name.         *)
(***************************************************************************)
EXTENDS ConnectionResolution, TLC

CONSTANTS c1, app, ops, admin, main, e1, e2, l1, l2

Namespaces == c1 :> app

Servers == e1 :> l1 @@ e2 :> l2

(***************************************************************************)
(* The team's Secret leads to e1, or lacks its endpoint; the operator's    *)
(* has the login of e1, that of e2, or is not there.                       *)
(***************************************************************************)
SecretMaps ==
  {t @@ a :
     t \in {<<app, admin>> :> [endpoint |-> e, login |-> l1] : e \in {e1, None}},
     a \in {<<ops, admin>> :> [endpoint |-> None, login |-> l] : l \in {l1, l2}}
             \union {<<>>}}

(***************************************************************************)
(* The ClusterConnection is open, leads elsewhere, or bars the team.       *)
(***************************************************************************)
Main(e, allowed) ==
  main :> [endpoint |-> e, credentialsSecretRef |-> admin, allowed |-> allowed]

Clusters == {Main(e1, None), Main(e2, {app}), Main(e1, {ops}), <<>>}

AllConfigs == [secrets : SecretMaps, clusters : Clusters]

Spec0(secret, cluster, deletion) ==
  [connection |-> [secretRef |-> secret, clusterRef |-> cluster], deletion |-> deletion]

AllSpecs ==
  {Spec0(admin, None, "Delete"), Spec0(None, main, "Delete"),
   Spec0(admin, main, "Delete"), Spec0(None, main, "Retain")}

AllFaults == {"edit", "connection", "call", "reply", "status", "crash"}
=============================================================================
