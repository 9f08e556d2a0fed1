------------------------------- MODULE IamProofs -------------------------------
(***************************************************************************)
(* Theorems about IamControllers, for every number of User and Policy      *)
(* resources, users, policies and faults, and every choice of the specs    *)
(* users apply.                                                            *)
(***************************************************************************)
EXTENDS IamControllers, ResourceProofs

\* The calls of apply() are its own.
LEMMA StepsApart == Steps \intersect ResourceSteps = {}
BY DEF Steps, ResourceSteps

-----------------------------------------------------------------------------
(***************************************************************************)
(* What a step of a reconciliation writes to the server: with snapshot s   *)
(* and what it has seen, uu of the user u, or pp of the policy p.          *)
(***************************************************************************)
UserCalls == {"createUser", "setStatus", "setPolicies", "delete"}

PolicyCalls == {"putPolicy", "delete"}

UserWritten(l, c, s, sn, u, uu) ==
  /\ l = "createUser" =>
       uu = IF u.exists
              THEN [u EXCEPT !.password = sn.password]
              ELSE [exists |-> TRUE, password |-> sn.password, enabled |-> TRUE,
                    policies |-> {}, by |-> c]
  /\ l = "setStatus" => u.exists /\ uu = [u EXCEPT !.enabled = s.enabled]
  /\ l = "setPolicies" => u.exists /\ uu = [u EXCEPT !.policies = s.policies]
  /\ l = "delete" => uu = NoUser

PolicyWritten(l, c, s, p, pp) ==
  /\ l = "putPolicy" =>
       pp = [document |-> s.document, by |-> IF p.document = None THEN c ELSE p.by]
  /\ l = "delete" => pp = NoPolicy

WritesUser(o, c) ==
  /\ c \in UserCRs /\ pc[o][c] \in UserCalls
  /\ \E uu : /\ SetUser(UserName(o, c), uu)
             /\ UserWritten(pc[o][c], c, obj[o][c].spec, seen[o][c], RemoteUser(o, c), uu)

WritesPolicy(o, c) ==
  /\ c \in PolicyCRs /\ pc[o][c] \in PolicyCalls
  /\ \E pp : /\ SetPolicy(PolicyName(o, c), pp)
             /\ PolicyWritten(pc[o][c], c, obj[o][c].spec, policies[PolicyName(o, c)], pp)

Served(o, c) == SameServer \/ WritesUser(o, c) \/ WritesPolicy(o, c)

-----------------------------------------------------------------------------
(***************************************************************************)
(* A resource has a spec of its kind, and so have its copies.              *)
(***************************************************************************)
KindInv ==
  \A c \in CRs :
    /\ Exists(cr[c]) => cr[c].spec \in SpecsOf(c)
    /\ \A o \in Operators :
         /\ Exists(cache[o][c]) => cache[o][c].spec \in SpecsOf(c)
         /\ pc[o][c] \in AllSteps(Steps) => obj[o][c].spec \in SpecsOf(c)

\* What the snapshot of a reconciliation is.
LEMMA SnapshotKind ==
  ASSUME KindInv, NEW o \in Operators, NEW c \in CRs, pc[o][c] \in Steps \union {"apply", "delete"}
  PROVE  /\ c \in UserCRs => obj[o][c].spec \in UserSpecRecords /\ UserName(o, c) \in UserNames
         /\ c \in PolicyCRs => obj[o][c].spec \in PolicySpecRecords
                               /\ PolicyName(o, c) \in PolicyNames
<1>1. obj[o][c].spec \in SpecsOf(c)
  BY DEF KindInv, AllSteps, ApplyLabels, CleanupSteps
<1>2. c \in UserCRs => obj[o][c].spec \in UserSpecRecords
  BY <1>1, SpecsAssumption DEF SpecsOf
<1>3. c \in PolicyCRs => obj[o][c].spec \in PolicySpecRecords
  BY <1>1, SpecsAssumption, KindsAssumption DEF SpecsOf
<1> QED
  BY <1>2, <1>3 DEF UserSpecRecords, PolicySpecRecords, UserName, PolicyName

\* What is written is typed.
LEMMA WritesTyped ==
  ASSUME TypeOK, KindInv, NEW o \in Operators, NEW c \in CRs, Served(o, c)
  PROVE  /\ users' \in [UserNames -> UserRecords]
         /\ policies' \in [PolicyNames -> PolicyRecords]
<1>0. /\ users \in [UserNames -> UserRecords] /\ policies \in [PolicyNames -> PolicyRecords]
  BY DEF TypeOK
<1>1. CASE SameServer
  BY <1>0, <1>1 DEF SameServer
<1>2. CASE WritesUser(o, c)
  <2>1. PICK uu :
          /\ SetUser(UserName(o, c), uu)
          /\ UserWritten(pc[o][c], c, obj[o][c].spec, seen[o][c], RemoteUser(o, c), uu)
    BY <1>2 DEF WritesUser
  <2>2. /\ c \in UserCRs /\ pc[o][c] \in UserCalls
        /\ obj[o][c].spec \in UserSpecRecords /\ UserName(o, c) \in UserNames
    BY <1>2, SnapshotKind DEF WritesUser, UserCalls, Steps
  <2>3. /\ RemoteUser(o, c) \in UserRecords /\ seen[o][c] \in SeenRecords
        /\ obj[o][c].spec.enabled \in BOOLEAN /\ obj[o][c].spec.policies \in SUBSET PolicyNames
    BY <1>0, <2>2 DEF RemoteUser, TypeOK, UserSpecRecords
  <2>4. uu \in UserRecords
    <3>1. CASE pc[o][c] = "createUser"
      <4>1. seen[o][c].password \in Passwords \union {None}
        BY <2>3 DEF SeenRecords
      <4>2. CASE RemoteUser(o, c).exists
        BY <2>1, <2>3, <3>1, <4>1, <4>2 DEF UserWritten, UserRecords
      <4>3. CASE ~RemoteUser(o, c).exists
        <5>1. uu = [exists |-> TRUE, password |-> seen[o][c].password, enabled |-> TRUE,
                    policies |-> {}, by |-> c]
          BY <2>1, <3>1, <4>3 DEF UserWritten
        <5> QED
          BY <4>1, <5>1 DEF UserRecords
      <4> QED
        BY <4>2, <4>3
    <3>2. CASE pc[o][c] = "setStatus"
      BY <2>1, <2>3, <3>2 DEF UserWritten, UserRecords
    <3>3. CASE pc[o][c] = "setPolicies"
      BY <2>1, <2>3, <3>3 DEF UserWritten, UserRecords
    <3>4. CASE pc[o][c] = "delete"
      <4>1. NoUser \in UserRecords
        BY DEF NoUser, UserRecords
      <4> QED
        BY <2>1, <3>4, <4>1 DEF UserWritten
    <3> QED
      BY <2>2, <3>1, <3>2, <3>3, <3>4 DEF UserCalls
  <2> QED
    BY <1>0, <2>1, <2>4 DEF SetUser
<1>3. CASE WritesPolicy(o, c)
  <2>1. PICK pp :
          /\ SetPolicy(PolicyName(o, c), pp)
          /\ PolicyWritten(pc[o][c], c, obj[o][c].spec, policies[PolicyName(o, c)], pp)
    BY <1>3 DEF WritesPolicy
  <2>2. /\ c \in PolicyCRs /\ pc[o][c] \in PolicyCalls
        /\ obj[o][c].spec \in PolicySpecRecords /\ PolicyName(o, c) \in PolicyNames
    BY <1>3, SnapshotKind DEF WritesPolicy, PolicyCalls, Steps
  <2>3. pp \in PolicyRecords
    <3>1. policies[PolicyName(o, c)].by \in CRs \union {None} /\ obj[o][c].spec.document \in Documents
      BY <1>0, <2>2 DEF PolicyRecords, PolicySpecRecords
    <3>2. CASE pc[o][c] = "putPolicy"
      BY <2>1, <3>1, <3>2 DEF PolicyWritten, PolicyRecords
    <3>3. CASE pc[o][c] = "delete"
      BY <2>1, <3>3 DEF PolicyWritten, PolicyRecords, NoPolicy
    <3> QED
      BY <2>2, <3>2, <3>3 DEF PolicyCalls
  <2> QED
    BY <1>0, <2>1, <2>3 DEF SetPolicy
<1> QED
  BY <1>1, <1>2, <1>3 DEF Served

-----------------------------------------------------------------------------
(***************************************************************************)
(* What every step of ensure_user and ensure_policy is.                    *)
(***************************************************************************)
SeenTyped == seen' \in [Operators -> [UserCRs -> SeenRecords]]

\* What is seen of a user is typed.
LEMMA SeeTyped ==
  ASSUME TypeOK, NEW o \in Operators, NEW c \in UserCRs, NEW r \in SeenRecords, See(o, c, r)
  PROVE  SeenTyped
<1>1. NothingSeen \in SeenRecords
  BY DEF NothingSeen, SeenRecords
<1> QED
  BY <1>1 DEF See, TypeOK, SeenTyped

\* The faults of a step of a reconciliation.
LEMMA CallFaults ==
  ASSUME TypeOK
  PROVE  (NoFault \/ \E k : Fault(k)) => faults' \in Nat
BY DEF TypeOK, ControllerTypeOK, RuntimeTypeOK, Fault, NoFault

\* A call of apply() goes on or fails.
LEMMA CallMoves ==
  ASSUME TypeOK, NoMeddling, NEW o \in Operators, NEW c \in CRs,
         pc[o][c] \in Steps \union {"apply"}, NoFault \/ \E k : Fault(k),
         NEW l \in Steps \union {"status"},
         Proceed(o, c, l) \/ Fail(o, c, "retry") \/ Fail(o, c, "config")
  PROVE  Moves(Steps, o, c)
<1>1. faults' \in Nat /\ meddled' \in BOOLEAN
  BY CallFaults DEF TypeOK, ControllerTypeOK, NoMeddling
<1>2. "delete" \notin Steps \union {"status"}
  BY DEF Steps
<1> QED
  BY <1>1, <1>2 DEF Moves, Onward

\* The label that follows each is a call of apply() or its end.
LEMMA NextCalls ==
  /\ \A x, e, a : AfterExistence(x, e, a) \in Steps \union {"status"}
  /\ \A x, a : AfterEnabled(x, a) \in Steps \union {"status"}
BY DEF AfterExistence, AfterEnabled, Steps

\* What is seen of the server.
LEMMA SightTyped ==
  ASSUME TypeOK, KindInv, NEW o \in Operators, NEW c \in UserCRs,
         pc[o][c] \in Steps \union {"apply"}
  PROVE  /\ seen[o][c] \in SeenRecords
         /\ \A w \in Passwords : [NothingSeen EXCEPT !.password = w] \in SeenRecords
         /\ \A e \in BOOLEAN, ps \in SUBSET PolicyNames :
              [seen[o][c] EXCEPT !.enabled = e, !.policies = ps] \in SeenRecords
         /\ RemoteUser(o, c) \in UserRecords
<1>1. seen[o][c] \in SeenRecords
  BY DEF TypeOK
<1>2. RemoteUser(o, c) \in UserRecords
  BY SnapshotKind, KindsAssumption DEF TypeOK, RemoteUser
<1> QED
  BY <1>1, <1>2 DEF SeenRecords, NothingSeen

-----------------------------------------------------------------------------
(***************************************************************************)
(* Every step of the system is of one of these kinds.                      *)
(***************************************************************************)
OwnKind(o, c) == OwnStep(o, c) /\ NoMeddling /\ SameServer /\ UNCHANGED userVars

ControllerKind ==
  /\ SameServer /\ UNCHANGED passwords /\ SeenTyped
  /\ \/ \E o \in Operators, c \in CRs : Watch(o, c)
     \/ \E o \in Operators : Crash(o)
     \/ \E c \in CRs : UserStep(c, SpecsOf(c))

MoveKind(o, c) ==
  /\ Moves(Steps, o, c) /\ UNCHANGED passwords /\ SeenTyped
  /\ \/ NoMeddling /\ Served(o, c)
     \/ SameServer /\ meddled' = TRUE

OthersKind ==
  /\ UNCHANGED <<cr, cache, obj, pc, wake, result, seen>> /\ faults' \in Nat
  /\ \/ UNCHANGED meddled /\ SameServer /\ passwords' \in [UserCRs -> Passwords \union {None}]
     \/ /\ meddled' = TRUE /\ UNCHANGED passwords
        /\ (\E u \in UserNames : DriftUser(u)) \/ (\E p \in PolicyNames : DriftPolicy(p))

\* What ensure_user does.
LEMMA EnsureUserMoves ==
  ASSUME TypeOK, KindInv, NEW o \in Operators, NEW c \in UserCRs, NoMeddling,
         \/ ReadPassword(o, c) \/ GetUser(o, c)
         \/ CreateUser(o, c) \/ SetUserStatus(o, c) \/ SetUserPolicies(o, c)
         \/ Connect(o, c, "connect", "getUser") /\ See(o, c, seen[o][c])
             /\ SameServer /\ UNCHANGED passwords
  PROVE  MoveKind(o, c)
<1> DEFINE u == RemoteUser(o, c)
<1>0. c \in CRs
  BY KindsAssumption
<1>1. CASE ReadPassword(o, c)
  <2>1. SeenTyped
    <3>1. passwords[c] # None => passwords[c] \in Passwords
      BY DEF TypeOK
    <3>2. UNCHANGED seen => SeenTyped
      BY DEF SeenTyped, TypeOK
    <3> QED
      BY <1>1, <3>1, <3>2, SeeTyped, SightTyped DEF ReadPassword
  <2>2. Moves(Steps, o, c)
    BY <1>0, <1>1, CallMoves DEF ReadPassword, Steps
  <2> QED
    BY <1>1, <2>1, <2>2 DEF ReadPassword, MoveKind, Served
<1>2. CASE GetUser(o, c)
  <2>1. pc[o][c] = "getUser" /\ SeenTyped
    BY <1>2, SeeTyped, SightTyped DEF GetUser, UserRecords, Steps
  <2>2. (IF NeedsCreation(u, seen[o][c].password)
           THEN "createUser" ELSE AfterExistence(obj[o][c], u.enabled, u.policies))
          \in Steps \union {"status"}
    BY NextCalls DEF Steps
  <2>3. Moves(Steps, o, c)
    BY <1>0, <1>2, <2>1, <2>2, CallMoves DEF GetUser, Query, Steps
  <2> QED
    BY <1>2, <2>1, <2>3 DEF GetUser, MoveKind, Served
<1>3. CASE CreateUser(o, c)
  <2>1. pc[o][c] = "createUser" /\ SeenTyped
    BY <1>3, SeeTyped, SightTyped DEF CreateUser, Steps
  <2>2. Moves(Steps, o, c)
    BY <1>0, <1>3, <2>1, NextCalls, CallMoves DEF CreateUser, Call, Steps
  <2>3. Served(o, c)
    <3>1. UserWritten("createUser", c, obj[o][c].spec, seen[o][c], u, Created(o, c))
      BY DEF UserWritten, Created
    <3>2. SetUser(UserName(o, c), Created(o, c)) \/ SameServer
      BY <1>3 DEF CreateUser, Call
    <3> QED
      BY <2>1, <3>1, <3>2 DEF Served, WritesUser, UserCalls
  <2> QED
    BY <1>3, <2>1, <2>2, <2>3 DEF CreateUser, MoveKind
<1>4. CASE SetUserStatus(o, c)
  <2> DEFINE uu == [u EXCEPT !.enabled = obj[o][c].spec.enabled]
  <2>1. pc[o][c] = "setStatus" /\ SeenTyped
    BY <1>4, SeeTyped, SightTyped DEF SetUserStatus, Steps
  <2>2. Moves(Steps, o, c)
    BY <1>0, <1>4, <2>1, NextCalls, CallMoves DEF SetUserStatus, Call, Steps
  <2>3. Served(o, c)
    <3>1. u.exists => UserWritten("setStatus", c, obj[o][c].spec, seen[o][c], u, uu)
      BY DEF UserWritten
    <3>2. (u.exists /\ SetUser(UserName(o, c), uu)) \/ SameServer
      BY <1>4 DEF SetUserStatus, Call
    <3> HIDE DEF uu
    <3> QED
      BY <2>1, <3>1, <3>2 DEF Served, WritesUser, UserCalls
  <2> QED
    BY <1>4, <2>1, <2>2, <2>3 DEF SetUserStatus, MoveKind
<1>5. CASE SetUserPolicies(o, c)
  <2> DEFINE uu == [u EXCEPT !.policies = obj[o][c].spec.policies]
  <2>1. pc[o][c] = "setPolicies" /\ SeenTyped
    BY <1>5, SeeTyped, SightTyped DEF SetUserPolicies, Steps
  <2>2. Moves(Steps, o, c)
    BY <1>0, <1>5, <2>1, CallMoves DEF SetUserPolicies, Call, Steps
  <2>3. Served(o, c)
    <3>1. u.exists => UserWritten("setPolicies", c, obj[o][c].spec, seen[o][c], u, uu)
      BY DEF UserWritten
    <3>2. (u.exists /\ SetUser(UserName(o, c), uu)) \/ SameServer
      BY <1>5 DEF SetUserPolicies, Call
    <3> HIDE DEF uu
    <3> QED
      BY <2>1, <3>1, <3>2 DEF Served, WritesUser, UserCalls
  <2> QED
    BY <1>5, <2>1, <2>2, <2>3 DEF SetUserPolicies, MoveKind
<1>6. CASE Connect(o, c, "connect", "getUser") /\ See(o, c, seen[o][c])
           /\ SameServer /\ UNCHANGED passwords
  <2>1. SeenTyped
    BY <1>6, SeeTyped, SightTyped DEF Connect, Steps
  <2>2. Moves(Steps, o, c)
    BY <1>0, <1>6, StepsApart, ConnectMoves DEF TypeOK, Typed, Steps
  <2> QED
    BY <1>6, <2>1, <2>2 DEF MoveKind, Served
<1> QED
  BY <1>1, <1>2, <1>3, <1>4, <1>5, <1>6

\* What ensure_policy does.
LEMMA EnsurePolicyMoves ==
  ASSUME TypeOK, KindInv, NEW o \in Operators, NEW c \in PolicyCRs, NoMeddling,
         UNCHANGED userVars, GetPolicy(o, c) \/ PutPolicy(o, c)
  PROVE  MoveKind(o, c)
<1>0. c \in CRs /\ UNCHANGED passwords /\ SeenTyped
  BY KindsAssumption DEF userVars, TypeOK, SeenTyped
<1>1. CASE GetPolicy(o, c)
  <2>1. /\ pc[o][c] = "getPolicy" /\ SameServer /\ (NoFault \/ \E k : Fault(k))
        /\ \/ Proceed(o, c, "status") \/ Proceed(o, c, "putPolicy")
           \/ Fail(o, c, "retry")
    BY <1>1 DEF GetPolicy, Query
  <2>2. Moves(Steps, o, c)
    BY <1>0, <2>1, CallMoves DEF Steps
  <2> QED
    BY <1>0, <2>1, <2>2 DEF MoveKind, Served
<1>2. CASE PutPolicy(o, c)
  <2> DEFINE p == policies[PolicyName(o, c)]
             pp == [document |-> DocumentOf(o, c), by |-> IF p.document = None THEN c ELSE p.by]
  <2>1. /\ pc[o][c] = "putPolicy" /\ (NoFault \/ \E k : Fault(k))
        /\ Proceed(o, c, "status") \/ Fail(o, c, "retry")
    BY <1>2 DEF PutPolicy, Call
  <2>2. Moves(Steps, o, c)
    BY <1>0, <2>1, CallMoves DEF Steps
  <2>3. SetPolicy(PolicyName(o, c), pp) \/ SameServer
    BY <1>2 DEF PutPolicy, Call
  <2>4. PolicyWritten("putPolicy", c, obj[o][c].spec, p, pp)
    BY DEF PolicyWritten, DocumentOf
  <2> HIDE DEF pp
  <2>5. Served(o, c)
    BY <2>1, <2>3, <2>4 DEF Served, WritesPolicy, PolicyCalls
  <2> QED
    BY <1>0, <2>2, <2>5 DEF MoveKind
<1> QED
  BY <1>1, <1>2

\* Deleting either.
LEMMA DeleteMoves ==
  ASSUME TypeOK, NEW o \in Operators, NEW c \in CRs, NoMeddling,
         UNCHANGED userVars,
         (c \in UserCRs /\ DeleteUser(o, c)) \/ (c \in PolicyCRs /\ DeletePolicy(o, c))
  PROVE  MoveKind(o, c)
<1>0. UNCHANGED passwords /\ SeenTyped
  BY DEF userVars, TypeOK, SeenTyped
<1>1. /\ pc[o][c] = "delete" /\ (NoFault \/ \E k : Fault(k))
      /\ Proceed(o, c, "removeFinalizer") \/ CleanupFails(o, c, "retry")
  BY DEF DeleteUser, DeletePolicy, Delete
<1>2. faults' \in Nat /\ meddled' \in BOOLEAN
  BY <1>1, CallFaults DEF TypeOK, ControllerTypeOK, NoMeddling
<1>3. Moves(Steps, o, c)
  BY <1>1, <1>2 DEF Moves, Onward
<1>4. \/ SameServer
      \/ c \in UserCRs /\ SetUser(UserName(o, c), NoUser)
      \/ c \in PolicyCRs /\ SetPolicy(PolicyName(o, c), NoPolicy)
  BY DEF DeleteUser, DeletePolicy, Delete
<1>5. /\ \A s, sn, u : UserWritten("delete", c, s, sn, u, NoUser)
      /\ \A s, p : PolicyWritten("delete", c, s, p, NoPolicy)
  BY DEF UserWritten, PolicyWritten
<1>6. c \in UserCRs /\ SetUser(UserName(o, c), NoUser) => WritesUser(o, c)
  BY <1>1, <1>5 DEF WritesUser, UserCalls
<1>7. c \in PolicyCRs /\ SetPolicy(PolicyName(o, c), NoPolicy) => WritesPolicy(o, c)
  BY <1>1, <1>5 DEF WritesPolicy, PolicyCalls
<1>8. Served(o, c)
  BY <1>4, <1>6, <1>7 DEF Served
<1> QED
  BY <1>0, <1>3, <1>8 DEF MoveKind

\* An answer that is wrong.
LEMMA DeniedMoves ==
  ASSUME TypeOK, KindInv, NEW o \in Operators, NEW c \in CRs,
         \/ c \in UserCRs /\ DeniedUser(o, c)
         \/ c \in PolicyCRs /\ DeniedPolicy(o, c) /\ UNCHANGED userVars
  PROVE  MoveKind(o, c)
<1>1. \E l0, l : Denied(o, c, l0, l) /\ Onward(Steps, l0, l) /\ l # "delete"
  BY DEF DeniedUser, DeniedPolicy, Onward, Steps
<1>2. Moves(Steps, o, c) /\ meddled' = TRUE
  BY <1>1, CallFaults DEF Denied, Moves
<1>3. SameServer /\ UNCHANGED passwords
  BY DEF DeniedUser, DeniedPolicy, userVars
<1>4. SeenTyped
  <2>1. UNCHANGED seen => SeenTyped
    BY DEF TypeOK, SeenTyped
  <2>2. CASE c \in UserCRs /\ pc[o][c] = "getUser" /\ See(o, c, seen[o][c])
    BY <2>2, SeeTyped, SightTyped DEF Steps
  <2> QED
    BY <2>1, <2>2 DEF DeniedUser, Denied, userVars
<1> QED
  BY <1>2, <1>3, <1>4 DEF MoveKind

\* The step of a reconciliation is of two of them.
LEMMA ReconcileKinds ==
  ASSUME TypeOK, KindInv, NEW o \in Operators, NEW c \in CRs, Reconcile(o, c)
  PROVE  OwnKind(o, c) \/ MoveKind(o, c)
<1>0. Typed(Steps) /\ (UNCHANGED userVars => UNCHANGED passwords /\ SeenTyped)
  BY DEF TypeOK, Typed, userVars, SeenTyped
<1>1. CASE LocalStep(o, c) /\ SameServer /\ UNCHANGED userVars /\ NoMeddling
  <2>1. CASE OwnStep(o, c)
    BY <1>1, <2>1 DEF OwnKind
  <2>2. CASE Cleanup(o, c)
    BY <1>0, <1>1, <2>2, CleanupMoves DEF MoveKind, Served
  <2> QED
    BY <1>1, <2>1, <2>2 DEF LocalStep
<1>2. CASE c \in PolicyCRs /\ Connect(o, c, "apply", "getPolicy") /\ SameServer
           /\ UNCHANGED userVars /\ NoMeddling
  BY <1>0, <1>2, StepsApart, ConnectMoves DEF MoveKind, Served, Steps
<1>3. CASE c \in UserCRs /\ ReconcileUser(o, c) /\ NoMeddling
  <2>1. DeleteUser(o, c) => UNCHANGED userVars
    BY DEF DeleteUser
  <2> QED
    BY <1>1, <1>3, <2>1, EnsureUserMoves, DeleteMoves DEF ReconcileUser
<1>4. CASE c \in PolicyCRs /\ ReconcilePolicy(o, c) /\ UNCHANGED userVars /\ NoMeddling
  BY <1>1, <1>2, <1>4, EnsurePolicyMoves, DeleteMoves DEF ReconcilePolicy
<1>5. CASE \/ c \in UserCRs /\ DeniedUser(o, c)
           \/ c \in PolicyCRs /\ DeniedPolicy(o, c) /\ UNCHANGED userVars
  BY <1>5, DeniedMoves
<1> QED
  BY <1>3, <1>4, <1>5 DEF Reconcile

\* All of them.
LEMMA Kinds ==
  ASSUME TypeOK, KindInv, [Next]_vars
  PROVE  \/ \E o \in Operators, c \in CRs : OwnKind(o, c)
         \/ ControllerKind
         \/ \E o \in Operators, c \in CRs : Reconcile(o, c) /\ MoveKind(o, c)
         \/ OthersKind
         \/ UNCHANGED vars
<1>0. /\ faults \in Nat /\ seen \in [Operators -> [UserCRs -> SeenRecords]]
      /\ passwords \in [UserCRs -> Passwords \union {None}]
  BY DEF TypeOK, ControllerTypeOK, RuntimeTypeOK
<1>1. ASSUME NEW o \in Operators, NEW c \in CRs, Reconcile(o, c)
      PROVE  OwnKind(o, c) \/ (Reconcile(o, c) /\ MoveKind(o, c))
  BY <1>1, ReconcileKinds
<1>2. ASSUME NEW o \in Operators, NEW c \in CRs, WatchCR(o, c)
      PROVE  ControllerKind
  BY <1>0, <1>2 DEF WatchCR, ControllerKind, userVars, SeenTyped
<1>3. ASSUME NEW o \in Operators, Crash(o), ForgetSeen(o), SameServer, UNCHANGED passwords
      PROVE  ControllerKind
  <2>1. SeenTyped
    <3>1. NothingSeen \in SeenRecords
      BY DEF NothingSeen, SeenRecords
    <3> QED
      BY <1>0, <1>3, <3>1 DEF ForgetSeen, SeenTyped
  <2> QED
    BY <1>3, <2>1 DEF ControllerKind
<1>4. ASSUME NEW c \in CRs, UserStep(c, SpecsOf(c)), SameServer, UNCHANGED userVars
      PROVE  ControllerKind
  BY <1>0, <1>4 DEF ControllerKind, userVars, SeenTyped
<1>5. ASSUME NEW c \in UserCRs, EditPassword(c) \/ LosePassword(c)
      PROVE  OthersKind
  <2>1. passwords' \in [UserCRs -> Passwords \union {None}]
    BY <1>0, <1>5 DEF EditPassword, LosePassword
  <2>2. faults' \in Nat
    BY <1>0, <1>5 DEF EditPassword, LosePassword, controllerVars, Fault
  <2> QED
    BY <1>5, <2>1, <2>2 DEF OthersKind, EditPassword, LosePassword, controllerVars
<1>6. ASSUME NEW u \in UserNames, DriftUser(u)
      PROVE  OthersKind
  <2>1. Drift /\ UNCHANGED userVars
    BY <1>6 DEF DriftUser
  <2>2. /\ UNCHANGED <<cr, cache, obj, pc, wake, result, seen, passwords>>
        /\ faults' \in Nat /\ meddled' = TRUE
    BY <1>0, <2>1 DEF Drift, Fault, userVars
  <2> QED
    BY <1>6, <2>2 DEF OthersKind
<1>7. ASSUME NEW p \in PolicyNames, DriftPolicy(p), UNCHANGED userVars
      PROVE  OthersKind
  <2>1. Drift
    BY <1>7 DEF DriftPolicy
  <2>2. /\ UNCHANGED <<cr, cache, obj, pc, wake, result, seen, passwords>>
        /\ faults' \in Nat /\ meddled' = TRUE
    BY <1>0, <1>7, <2>1 DEF Drift, Fault, userVars
  <2> QED
    BY <1>7, <2>2 DEF OthersKind
<1> QED
  BY <1>1, <1>2, <1>3, <1>4, <1>5, <1>6, <1>7 DEF Next, Environment

-----------------------------------------------------------------------------
(***************************************************************************)
(* The variables have their types, and resources the specs of their kind.  *)
(***************************************************************************)
\* Other tools leave users and policies that are typed.
LEMMA DriftTyped ==
  ASSUME TypeOK, \/ \E u \in UserNames : DriftUser(u)
                 \/ \E p \in PolicyNames : DriftPolicy(p)
  PROVE  /\ users' \in [UserNames -> UserRecords]
         /\ policies' \in [PolicyNames -> PolicyRecords]
<1>0. /\ users \in [UserNames -> UserRecords] /\ policies \in [PolicyNames -> PolicyRecords]
  BY DEF TypeOK
<1>1. ASSUME NEW u \in UserNames, DriftUser(u)
      PROVE  \E uu \in UserRecords : SetUser(u, uu)
  <2>0. NoUser \in UserRecords
    BY DEF NoUser, UserRecords
  <2>1. /\ \A w \in Passwords :
             [NoUser EXCEPT !.exists = TRUE, !.password = w, !.enabled = TRUE] \in UserRecords
        /\ \A e \in BOOLEAN, ps \in SUBSET PolicyNames :
             [users[u] EXCEPT !.enabled = e, !.policies = ps] \in UserRecords
    BY <1>0, <2>0 DEF UserRecords
  <2> QED
    BY <1>1, <2>0, <2>1 DEF DriftUser
<1>2. ASSUME NEW p \in PolicyNames, DriftPolicy(p)
      PROVE  \E pp \in PolicyRecords : SetPolicy(p, pp)
  <2>0. NoPolicy \in PolicyRecords
    BY DEF NoPolicy, PolicyRecords
  <2>1. \A d \in Documents : [policies[p] EXCEPT !.document = d] \in PolicyRecords
    BY <1>0 DEF PolicyRecords
  <2> QED
    BY <1>2, <2>0, <2>1 DEF DriftPolicy
<1>3. ASSUME NEW u \in UserNames, NEW uu \in UserRecords, SetUser(u, uu)
      PROVE  /\ users' \in [UserNames -> UserRecords]
             /\ policies' \in [PolicyNames -> PolicyRecords]
  BY <1>0, <1>3 DEF SetUser
<1>4. ASSUME NEW p \in PolicyNames, NEW pp \in PolicyRecords, SetPolicy(p, pp)
      PROVE  /\ users' \in [UserNames -> UserRecords]
             /\ policies' \in [PolicyNames -> PolicyRecords]
  BY <1>0, <1>4 DEF SetPolicy
<1> QED
  BY <1>1, <1>2, <1>3, <1>4

\* The initial states are typed.
LEMMA InitTypeOK == Init => TypeOK /\ KindInv
<1> SUFFICES ASSUME Init
             PROVE  TypeOK /\ KindInv
  OBVIOUS
<1>1. NoUser \in UserRecords /\ NoPolicy \in PolicyRecords /\ NothingSeen \in SeenRecords
  BY DEF NoUser, UserRecords, NoPolicy, PolicyRecords, NothingSeen, SeenRecords
<1>2. passwords \in [UserCRs -> Passwords \union {None}]
  BY DEF Init, UserInit
<1>3. TypeOK
  BY <1>1, <1>2, InitTyped DEF Init, ServerInit, UserInit, TypeOK, Typed
<1>4. KindInv
  BY DEF Init, ControllerInit, RuntimeInit, Blank, Exists, KindInv, AllSteps, ApplyLabels,
     CleanupSteps, Steps
<1> QED
  BY <1>3, <1>4

\* Every step keeps them so.
LEMMA NextTypeOK == TypeOK /\ KindInv /\ [Next]_vars => TypeOK'
<1> SUFFICES ASSUME TypeOK, KindInv, [Next]_vars
             PROVE  TypeOK'
  OBVIOUS
<1>0. /\ Typed(Steps) /\ users \in [UserNames -> UserRecords]
      /\ policies \in [PolicyNames -> PolicyRecords]
      /\ passwords \in [UserCRs -> Passwords \union {None}]
      /\ seen \in [Operators -> [UserCRs -> SeenRecords]]
  BY DEF TypeOK, Typed
<1>1. /\ Typed(Steps)' /\ SeenTyped
      /\ users' \in [UserNames -> UserRecords] /\ policies' \in [PolicyNames -> PolicyRecords]
      /\ passwords' \in [UserCRs -> Passwords \union {None}]
      => TypeOK'
  BY DEF TypeOK, Typed, SeenTyped
<1>2. ASSUME NEW o \in Operators, NEW c \in CRs, OwnKind(o, c)
      PROVE  TypeOK'
  BY <1>0, <1>1, <1>2, OwnStepTyped DEF OwnKind, SameServer, userVars, SeenTyped
<1>3. CASE ControllerKind
  <2>1. \A c \in CRs : SpecsOf(c) \in SUBSET Specs
    BY SpecsAssumption DEF SpecsOf
  <2>2. Typed(Steps)'
    BY <1>0, <1>3, <2>1, WatchTyped, CrashTyped, UserStepTyped DEF ControllerKind
  <2> QED
    BY <1>0, <1>1, <1>3, <2>2 DEF ControllerKind, SameServer
<1>4. ASSUME NEW o \in Operators, NEW c \in CRs, MoveKind(o, c)
      PROVE  TypeOK'
  <2>1. Typed(Steps)'
    BY <1>0, <1>4, MovesTyped DEF MoveKind
  <2>2. Served(o, c)
    BY <1>4 DEF MoveKind, Served
  <2> QED
    BY <1>0, <1>1, <1>4, <2>1, <2>2, WritesTyped DEF MoveKind
<1>5. CASE OthersKind
  <2>1. Typed(Steps)'
    BY <1>0, <1>5 DEF OthersKind, Typed, ControllerTypeOK, RuntimeTypeOK
  <2>2. SeenTyped /\ passwords' \in [UserCRs -> Passwords \union {None}]
    BY <1>0, <1>5 DEF OthersKind, SeenTyped
  <2>3. users' \in [UserNames -> UserRecords] /\ policies' \in [PolicyNames -> PolicyRecords]
    BY <1>0, <1>5, DriftTyped DEF OthersKind, SameServer
  <2> QED
    BY <1>1, <2>1, <2>2, <2>3
<1>6. CASE UNCHANGED vars
  BY <1>6 DEF vars, controllerVars, userVars, TypeOK, ControllerTypeOK, RuntimeTypeOK
<1> QED
  BY <1>2, <1>3, <1>4, <1>5, <1>6, Kinds

\* What a step leaves of the copies of a resource.
LEMMA NextLeaves ==
  ASSUME TypeOK, KindInv, [Next]_vars, NEW p \in Operators, NEW d \in CRs
  PROVE  Leaves(Steps, p, d)
<1>0. Typed(Steps)
  BY DEF TypeOK, Typed
<1>1. CASE UNCHANGED <<cr, cache, obj, pc>>
  BY <1>1 DEF Leaves, Copies, Caches, Continues
<1>2. OthersKind \/ UNCHANGED vars => UNCHANGED <<cr, cache, obj, pc>>
  BY DEF OthersKind, vars, controllerVars
<1>3. \A c \in CRs : UserStep(c, SpecsOf(c)) => UserStep(c, Specs)
  BY SpecsAssumption DEF SpecsOf, UserStep
<1> QED
  BY <1>0, <1>1, <1>2, <1>3, Kinds, StepsApart, OwnStepLeaves, MovesLeave, OutsideLeaves
  DEF OwnKind, MoveKind, ControllerKind

\* What the users ask of a resource is of its kind.
LEMMA SpecKind ==
  ASSUME TypeOK, KindInv, [Next]_vars, NEW c \in CRs, Exists(cr'[c])
  PROVE  cr'[c].spec \in SpecsOf(c)
<1>0. Typed(Steps) /\ cr \in [CRs -> ApiObjects] /\ (Exists(cr[c]) => cr[c].spec \in SpecsOf(c))
  BY DEF TypeOK, Typed, ControllerTypeOK, RuntimeTypeOK, ApiObjects, KindInv
<1>1. CASE cr'[c] = cr[c]
  BY <1>0, <1>1
<1>2. ASSUME NEW o \in Operators, NEW d \in CRs, OwnKind(o, d)
      PROVE  cr'[c].spec \in SpecsOf(c)
  <2>1. \/ cr'[c] = cr[c] \/ Run!Added(cr[c], cr'[c]) \/ Run!Released(cr[c], cr'[c])
        \/ Reports(o, c)
    BY <1>0, <1>2, OwnStepWrites DEF OwnKind
  <2>2. Reports(o, c) => cr'[c].spec = cr[c].spec /\ Exists(cr[c])
    BY <1>0 DEF Reports, ApiObjects, Objects
  <2> QED
    BY <1>0, <2>1, <2>2 DEF Run!Added, Run!Released, Exists
<1>3. ASSUME NEW d \in CRs, UserStep(d, SpecsOf(d))
      PROVE  cr'[c].spec \in SpecsOf(c)
  <2>0. cr[c] \in ApiObjects /\ Blank \in ApiObjects
    BY <1>0, BlankTyped
  <2>1. ASSUME NEW s \in SpecsOf(d), CreateCR(d, s)
        PROVE  cr'[c].spec \in SpecsOf(c)
    <3>1. CASE c = d
      <4> DEFINE y == [Blank EXCEPT !.phase = "live", !.gen = 1, !.uid = cr[d].uid + 1, !.spec = s]
      <4>1. y.spec = s
        BY DEF Blank
      <4>2. cr'[c] = y
        BY <1>0, <2>1, <3>1 DEF CreateCR
      <4> QED
        BY <3>1, <4>1, <4>2
    <3>2. CASE c # d
      BY <1>0, <1>1, <2>1, <3>2 DEF CreateCR
    <3> QED
      BY <3>1, <3>2
  <2>2. ASSUME NEW s \in SpecsOf(d), EditCR(d, s)
        PROVE  cr'[c].spec \in SpecsOf(c)
    <3>1. CASE c = d
      <4>1. cr'[c].spec = s
        BY <1>0, <2>0, <2>2, <3>1 DEF EditCR, ApiObjects, Objects
      <4> QED
        BY <3>1, <4>1
    <3>2. CASE c # d
      BY <1>0, <1>1, <2>2, <3>2 DEF EditCR
    <3> QED
      BY <3>1, <3>2
  <2>3. CASE DeleteCR(d)
    <3>1. cr'[c].spec = cr[c].spec /\ (cr'[c] = cr[c] \/ cr[c].phase = "live")
      BY <1>0, <2>0, <2>3 DEF DeleteCR, ApiObjects, Objects
    <3> QED
      BY <1>0, <1>1, <3>1 DEF Exists
  <2> QED
    BY <1>3, <2>1, <2>2, <2>3 DEF UserStep
<1>4. (\E o, d : Watch(o, d)) \/ (\E o : Crash(o)) \/ OthersKind \/ UNCHANGED vars => cr' = cr
  BY DEF Watch, Deliver, Crash, Restart, OthersKind, vars, controllerVars
<1>5. ASSUME NEW o, NEW d, MoveKind(o, d)
      PROVE  cr' = cr
  BY <1>5 DEF MoveKind, Moves, Proceed, Fail, Goto, CleanupFails
<1> QED
  BY <1>1, <1>2, <1>3, <1>4, <1>5, Kinds DEF ControllerKind

\* Every step keeps the kinds apart.
LEMMA NextKind == TypeOK /\ KindInv /\ [Next]_vars => KindInv'
<1> SUFFICES ASSUME TypeOK, KindInv, [Next]_vars, NEW c \in CRs
             PROVE  /\ Exists(cr'[c]) => cr'[c].spec \in SpecsOf(c)
                    /\ \A o \in Operators :
                         /\ Exists(cache'[o][c]) => cache'[o][c].spec \in SpecsOf(c)
                         /\ pc'[o][c] \in AllSteps(Steps) => obj'[o][c].spec \in SpecsOf(c)
  BY DEF KindInv, Exists, SpecsOf, AllSteps, ApplyLabels
<1>1. Exists(cr'[c]) => cr'[c].spec \in SpecsOf(c)
  BY SpecKind
<1>2. ASSUME NEW o \in Operators
      PROVE  /\ Exists(cache'[o][c]) => cache'[o][c].spec \in SpecsOf(c)
             /\ pc'[o][c] \in AllSteps(Steps) => obj'[o][c].spec \in SpecsOf(c)
  <2>1. Caches(o, c) /\ Continues(Steps, o, c)
    BY NextLeaves DEF Leaves
  <2>2. /\ Exists(cache[o][c]) => cache[o][c].spec \in SpecsOf(c)
        /\ pc[o][c] \in AllSteps(Steps) => obj[o][c].spec \in SpecsOf(c)
    BY DEF KindInv
  <2>3. FinalizerEvent(cache[o][c]) \in AllSteps(Steps) => Exists(cache[o][c])
    BY DEF FinalizerEvent, AllSteps, ApplyLabels, CleanupSteps, Steps, Exists
  <2> QED
    BY <1>1, <2>1, <2>2, <2>3 DEF Caches, Continues
<1> QED
  BY <1>1, <1>2

\* Types and kinds, in every state.
LEMMA TypedAndKind == SafetySpec => [](TypeOK /\ KindInv)
BY InitTypeOK, NextTypeOK, NextKind, PTL DEF SafetySpec

(***************************************************************************)
(* Every variable has its type.                                            *)
(***************************************************************************)
THEOREM TypeCorrect == SafetySpec => []TypeOK
BY TypedAndKind, PTL

-----------------------------------------------------------------------------
(***************************************************************************)
(* One operator may trust its snapshots, and forgets no resource.          *)
(***************************************************************************)
LEMMA NextRuntime ==
  SoleOperator /\ TypeOK /\ KindInv /\ RuntimeInv(Steps) /\ [Next]_vars => RuntimeInv(Steps)'
<1> SUFFICES ASSUME SoleOperator, TypeOK, KindInv, RuntimeInv(Steps), [Next]_vars
             PROVE  RuntimeInv(Steps)'
  OBVIOUS
<1>0. Typed(Steps)
  BY DEF TypeOK, Typed
<1>1. CASE UNCHANGED <<cr, cache, obj, pc, wake>>
  BY <1>1 DEF RuntimeInv, ControllerSnapshotsOK, SnapshotsOK, ServerOK, CacheOK, RunOK,
     NeverForgotten
<1>2. OthersKind \/ UNCHANGED vars => UNCHANGED <<cr, cache, obj, pc, wake>>
  BY DEF OthersKind, vars, controllerVars
<1> QED
  BY <1>0, <1>1, <1>2, Kinds, StepsApart, OwnStepRuntime, MovesRuntime, WatchRuntime,
     CrashRuntime, UserRuntime
  DEF OwnKind, ControllerKind, MoveKind

\* What a single operator relies on holds at first;
LEMMA InitRuntimeInv == Init => RuntimeInv(Steps)
BY InitRuntime, StepsApart DEF Init

\* it does so in every state.
LEMMA RuntimeCorrect == SoleOperator /\ SafetySpec => []RuntimeInv(Steps)
<1> SUFFICES ASSUME SoleOperator
             PROVE  SafetySpec => []RuntimeInv(Steps)
  OBVIOUS
<1> QED
  BY InitRuntimeInv, NextRuntime, TypedAndKind, PTL DEF SafetySpec

(***************************************************************************)
(* With one operator a reconciliation never works for another incarnation  *)
(* of the resource than the server has, nor on a generation older than the *)
(* one .status reports.                                                    *)
(***************************************************************************)
THEOREM SnapshotsCorrect == SoleOperator /\ SafetySpec => []SnapshotInv
<1>1. RuntimeInv(Steps) => SnapshotInv
  BY DEF RuntimeInv, SnapshotInv
<1> QED
  BY <1>1, RuntimeCorrect, PTL

(***************************************************************************)
(* With one operator no User or Policy resource that exists is ever        *)
(* forgotten.                                                              *)
(***************************************************************************)
THEOREM NothingForgotten == SoleOperator /\ SafetySpec => []NeverForgotten
<1>1. RuntimeInv(Steps) => NeverForgotten
  BY DEF RuntimeInv
<1> QED
  BY <1>1, RuntimeCorrect, PTL

-----------------------------------------------------------------------------
(***************************************************************************)
(* No two resources are about one user, or one policy.  user.rs:12 and     *)
(* policy.rs:12 keep nobody from naming what another resource names; what  *)
(* is proved below of the server is proved as long as nobody does.         *)
(***************************************************************************)
Names(c, n) ==
  \/ Exists(cr[c]) /\ cr[c].spec.name = n
  \/ \E o \in Operators : pc[o][c] # "idle" /\ obj[o][c].spec.name = n

Apart ==
  /\ \A c, d \in UserCRs, u \in UserNames : Names(c, u) /\ Names(d, u) => c = d
  /\ \A c, d \in PolicyCRs, p \in PolicyNames : Names(c, p) /\ Names(d, p) => c = d

\* Nobody takes back an interference.
LEMMA MeddledStays ==
  ASSUME TypeOK, KindInv, [Next]_vars
  PROVE  meddled => meddled'
<1>1. ASSUME NEW o \in Operators, NEW c \in CRs, MoveKind(o, c)
      PROVE  meddled => meddled'
  BY <1>1 DEF MoveKind, NoMeddling
<1>2. CASE ControllerKind
  BY <1>2 DEF ControllerKind, Watch, Crash, NoMeddling, UserStep
<1>3. CASE OthersKind
  BY <1>3 DEF OthersKind
<1> QED
  BY <1>1, <1>2, <1>3, Kinds DEF OwnKind, NoMeddling, vars, controllerVars

\* Without it, only a reconciliation that names it writes a user or policy.
LEMMA ServerCases ==
  ASSUME TypeOK, KindInv, [Next]_vars, ~meddled'
  PROVE  \/ SameServer
         \/ \E o \in Operators, c \in CRs :
              Reconcile(o, c) /\ MoveKind(o, c) /\ (WritesUser(o, c) \/ WritesPolicy(o, c))
<1>1. ASSUME NEW o \in Operators, NEW c \in CRs, MoveKind(o, c)
      PROVE  SameServer \/ WritesUser(o, c) \/ WritesPolicy(o, c)
  BY <1>1 DEF MoveKind, Served
<1>2. OthersKind => SameServer
  BY DEF OthersKind
<1> QED
  BY <1>1, <1>2, Kinds DEF OwnKind, ControllerKind, SameServer, vars

\* Who writes a user without interfering,
LEMMA UserCases ==
  ASSUME TypeOK, KindInv, [Next]_vars, ~meddled', NEW u \in UserNames
  PROVE  \/ users'[u] = users[u]
         \/ \E o \in Operators, c \in CRs :
              Reconcile(o, c) /\ MoveKind(o, c) /\ WritesUser(o, c) /\ UserName(o, c) = u
<1>0. users \in [UserNames -> UserRecords]
  BY DEF TypeOK
<1>1. SameServer => users'[u] = users[u]
  BY DEF SameServer
<1>2. ASSUME NEW o \in Operators, NEW c \in CRs, WritesUser(o, c), UserName(o, c) # u
      PROVE  users'[u] = users[u]
  BY <1>0, <1>2 DEF WritesUser, SetUser
<1>3. ASSUME NEW o \in Operators, NEW c \in CRs, WritesPolicy(o, c)
      PROVE  users'[u] = users[u]
  BY <1>3 DEF WritesPolicy, SetPolicy
<1> QED
  BY <1>1, <1>2, <1>3, ServerCases

\* and who writes a policy.
LEMMA PolicyCases ==
  ASSUME TypeOK, KindInv, [Next]_vars, ~meddled', NEW p \in PolicyNames
  PROVE  \/ policies'[p] = policies[p]
         \/ \E o \in Operators, c \in CRs :
              Reconcile(o, c) /\ MoveKind(o, c) /\ WritesPolicy(o, c) /\ PolicyName(o, c) = p
<1>0. policies \in [PolicyNames -> PolicyRecords]
  BY DEF TypeOK
<1>1. SameServer => policies'[p] = policies[p]
  BY DEF SameServer
<1>2. ASSUME NEW o \in Operators, NEW c \in CRs, WritesPolicy(o, c), PolicyName(o, c) # p
      PROVE  policies'[p] = policies[p]
  BY <1>0, <1>2 DEF WritesPolicy, SetPolicy
<1>3. ASSUME NEW o \in Operators, NEW c \in CRs, WritesUser(o, c)
      PROVE  policies'[p] = policies[p]
  BY <1>3 DEF WritesUser, SetUser
<1> QED
  BY <1>1, <1>2, <1>3, ServerCases

-----------------------------------------------------------------------------
(***************************************************************************)
(* What ensure_user has established of the user u with the spec s, and     *)
(* what it has seen, when it makes the call labelled l, or ends with       *)
(* result r; and ensure_policy of the policy p.                            *)
(***************************************************************************)
UserDeclared(s, u) == u.exists /\ u.enabled = s.enabled /\ u.policies = s.policies

PolicyDeclared(s, p) == p.document # None /\ Allowed[p.document] = Allowed[s.document]

UserEstablished(l, s, sn, u, r) ==
  /\ l = "createUser" => ~u.exists
  /\ l = "setStatus" => u.exists /\ u.policies = sn.policies
  /\ l = "setPolicies" => u.exists /\ u.enabled = s.enabled
  /\ l = "status" /\ r = "reconciled" => UserDeclared(s, u)

PolicyEstablished(l, s, p, r) == l = "status" /\ r = "reconciled" => PolicyDeclared(s, p)

UserProgress(o, c) ==
  UserEstablished(pc[o][c], obj[o][c].spec, seen[o][c], RemoteUser(o, c), result[o][c])

PolicyProgress(o, c) ==
  PolicyEstablished(pc[o][c], obj[o][c].spec, policies[PolicyName(o, c)], result[o][c])

UserProgressInv == ~meddled => \A o \in Operators, c \in UserCRs : UserProgress(o, c)

PolicyProgressInv == ~meddled => \A o \in Operators, c \in PolicyCRs : PolicyProgress(o, c)

(***************************************************************************)
(* What the server answers for one document is taken for another only if   *)
(* they allow the same requests.                                           *)
(***************************************************************************)
Discerning ==
  \A d, e \in Documents : \A inSync \in Verdicts[d, e] : inSync => Allowed[d] = Allowed[e]

\* What the order of the calls rests on.
LEMMA AfterEstablishes ==
  ASSUME NEW x, NEW u, NEW sn, u.exists, sn.policies = u.policies
  PROVE  /\ UserEstablished(AfterExistence(x, u.enabled, u.policies), x.spec, sn, u, "reconciled")
         /\ u.enabled = x.spec.enabled
              => UserEstablished(AfterEnabled(x, u.policies), x.spec, sn, u, "reconciled")
BY DEF AfterExistence, AfterEnabled, UserEstablished, UserDeclared

\* How a move ends: with the call l next, or as a failure.
LEMMA UserProceeds ==
  ASSUME TypeOK, NEW o \in Operators, NEW c \in UserCRs, NEW l, Proceed(o, c, l),
         NEW sn \in SeenRecords, See(o, c, sn),
         UserEstablished(l, obj[o][c].spec, sn, users'[UserName(o, c)], "reconciled")
  PROVE  UserProgress(o, c)'
<1>0. c \in CRs
  BY KindsAssumption
<1>1. /\ pc'[o][c] = l /\ obj' = obj
      /\ l = "status" => result'[o][c] = "reconciled"
  BY <1>0 DEF TypeOK, ControllerTypeOK, RuntimeTypeOK, Proceed, Goto
<1>2. l # "status" => seen'[o][c] = sn
  BY <1>1 DEF TypeOK, See
<1> QED
  BY <1>1, <1>2 DEF UserProgress, UserEstablished, RemoteUser, UserName

\* A reconciliation that comes to its end has put the policy.
LEMMA PolicyProceeds ==
  ASSUME TypeOK, NEW o \in Operators, NEW c \in PolicyCRs, NEW l, Proceed(o, c, l),
         l = "status" => PolicyDeclared(obj[o][c].spec, policies'[PolicyName(o, c)])
  PROVE  PolicyProgress(o, c)'
<1>0. c \in CRs
  BY KindsAssumption
<1>1. pc'[o][c] = l /\ obj' = obj
  BY <1>0 DEF TypeOK, ControllerTypeOK, RuntimeTypeOK, Proceed, Goto
<1> QED
  BY <1>1 DEF PolicyProgress, PolicyEstablished, PolicyName

\* One that fails reports no success.
LEMMA FailEstablishes ==
  ASSUME TypeOK, NEW o \in Operators, NEW c \in CRs, NEW e \in {"config", "retry"}, Fail(o, c, e)
  PROVE  UserProgress(o, c)' /\ PolicyProgress(o, c)'
<1>1. pc'[o][c] = "status" /\ result'[o][c] # "reconciled"
  BY DEF TypeOK, ControllerTypeOK, RuntimeTypeOK, Fail, Goto
<1> QED
  BY <1>1 DEF UserProgress, UserEstablished, PolicyProgress, PolicyEstablished

\* A label that nothing rests on.
LEMMA NothingEstablished ==
  ASSUME NEW o \in Operators, NEW c \in CRs,
         pc'[o][c] \notin {"createUser", "setStatus", "setPolicies", "status"}
  PROVE  UserProgress(o, c)' /\ PolicyProgress(o, c)'
BY DEF UserProgress, UserEstablished, PolicyProgress, PolicyEstablished

-----------------------------------------------------------------------------
\* Each call of ensure_user establishes what the next one rests on.
LEMMA EnsureUserEstablishes ==
  ASSUME TypeOK, KindInv, NEW o \in Operators, NEW c \in UserCRs, UserProgress(o, c),
         GetUser(o, c) \/ CreateUser(o, c) \/ SetUserStatus(o, c) \/ SetUserPolicies(o, c)
  PROVE  UserProgress(o, c)'
<1> DEFINE x == obj[o][c]
           sn == seen[o][c]
           u == RemoteUser(o, c)
           uu == users'[UserName(o, c)]
<1>0. /\ c \in CRs /\ pc[o][c] \in Steps
      /\ users \in [UserNames -> UserRecords] /\ sn \in SeenRecords
  BY KindsAssumption DEF GetUser, CreateUser, SetUserStatus, SetUserPolicies, Steps, TypeOK
<1>1. u \in UserRecords /\ UserName(o, c) \in UserNames
  BY <1>0, SightTyped, SnapshotKind
<1>2. /\ Fail(o, c, "retry") => UserProgress(o, c)'
      /\ \A l, r : /\ Proceed(o, c, l) /\ See(o, c, r) /\ r \in SeenRecords
                   /\ UserEstablished(l, x.spec, r, uu, "reconciled")
                   => UserProgress(o, c)'
  BY <1>0, FailEstablishes, UserProceeds
<1>3. UserEstablished(pc[o][c], x.spec, sn, u, result[o][c])
  BY DEF UserProgress
<1>4. \A r : SetUser(UserName(o, c), r) => uu = r
  BY <1>0, <1>1 DEF SetUser
<1>5. SameServer => uu = u
  BY DEF SameServer, RemoteUser
<1> HIDE DEF x, u, uu, sn
<1>6. CASE GetUser(o, c)
  <2> DEFINE r == [sn EXCEPT !.enabled = u.enabled, !.policies = u.policies]
  <2>1. See(o, c, r) /\ uu = u
    BY <1>5, <1>6 DEF GetUser, sn, u
  <2>2. r \in SeenRecords /\ r.policies = u.policies
    BY <1>0, <1>1 DEF SeenRecords, UserRecords
  <2>3. \/ Fail(o, c, "retry")
        \/ Proceed(o, c, IF ~u.exists THEN "createUser" ELSE AfterExistence(x, u.enabled, u.policies))
    BY <1>6 DEF GetUser, Query, NeedsCreation, x, u
  <2> HIDE DEF r
  <2>4. ~u.exists => UserEstablished("createUser", x.spec, r, u, "reconciled")
    BY DEF UserEstablished
  <2>5. u.exists => UserEstablished(AfterExistence(x, u.enabled, u.policies), x.spec, r, u, "reconciled")
    BY <2>2, AfterEstablishes
  <2> QED
    BY <1>2, <2>1, <2>2, <2>3, <2>4, <2>5
<1>7. CASE CreateUser(o, c)
  <2> DEFINE r == [sn EXCEPT !.enabled = TRUE, !.policies = {}]
  <2>1. See(o, c, r)
    BY <1>7 DEF CreateUser, sn
  <2>2. r \in SeenRecords /\ r.policies = {}
    BY <1>0 DEF SeenRecords
  <2>3. \/ Fail(o, c, "retry")
        \/ Proceed(o, c, AfterExistence(x, TRUE, {})) /\ SetUser(UserName(o, c), Created(o, c))
    BY <1>7 DEF CreateUser, Call, x
  <2>4. Created(o, c).exists /\ Created(o, c).enabled = TRUE /\ Created(o, c).policies = {}
    BY <1>3, <1>7 DEF CreateUser, UserEstablished, Created, u
  <2> HIDE DEF r
  <2>5. uu = Created(o, c) => UserEstablished(AfterExistence(x, TRUE, {}), x.spec, r, uu, "reconciled")
    BY <2>2, <2>4, AfterEstablishes
  <2> QED
    BY <1>2, <1>4, <2>1, <2>2, <2>3, <2>5
<1>8. CASE SetUserStatus(o, c)
  <2> DEFINE v == [u EXCEPT !.enabled = x.spec.enabled]
  <2>1. See(o, c, sn)
    BY <1>8 DEF SetUserStatus, sn
  <2>2. \/ Fail(o, c, "retry")
        \/ Proceed(o, c, AfterEnabled(x, sn.policies)) /\ SetUser(UserName(o, c), v)
    BY <1>8 DEF SetUserStatus, Call, x, u, sn
  <2>3. u.exists /\ u.policies = sn.policies
    BY <1>3, <1>8 DEF SetUserStatus, UserEstablished
  <2>4. v.exists /\ v.enabled = x.spec.enabled /\ v.policies = sn.policies
    BY <1>1, <2>3 DEF UserRecords
  <2> HIDE DEF v
  <2>5. uu = v => UserEstablished(AfterEnabled(x, sn.policies), x.spec, sn, uu, "reconciled")
    BY <2>4, AfterEstablishes
  <2> QED
    BY <1>0, <1>2, <1>4, <2>1, <2>2, <2>5
<1>9. CASE SetUserPolicies(o, c)
  <2> DEFINE v == [u EXCEPT !.policies = x.spec.policies]
  <2>1. See(o, c, sn)
    BY <1>9 DEF SetUserPolicies, sn
  <2>2. Fail(o, c, "retry") \/ (Proceed(o, c, "status") /\ SetUser(UserName(o, c), v))
    BY <1>9 DEF SetUserPolicies, Call, x, u
  <2>3. u.exists /\ u.enabled = x.spec.enabled
    BY <1>3, <1>9 DEF SetUserPolicies, UserEstablished
  <2>4. v.exists /\ v.enabled = x.spec.enabled /\ v.policies = x.spec.policies
    BY <1>1, <2>3 DEF UserRecords
  <2> HIDE DEF v
  <2>5. uu = v => UserEstablished("status", x.spec, sn, uu, "reconciled")
    BY <2>4 DEF UserEstablished, UserDeclared
  <2> QED
    BY <1>0, <1>2, <1>4, <2>1, <2>2, <2>5
<1> QED
  BY <1>6, <1>7, <1>8, <1>9

\* The calls of ensure_policy.
LEMMA EnsurePolicyEstablishes ==
  ASSUME TypeOK, KindInv, Discerning, NEW o \in Operators, NEW c \in PolicyCRs,
         GetPolicy(o, c) \/ PutPolicy(o, c)
  PROVE  PolicyProgress(o, c)'
<1> DEFINE s == obj[o][c].spec
           p == policies[PolicyName(o, c)]
           pp == policies'[PolicyName(o, c)]
<1>0. c \in CRs /\ pc[o][c] \in Steps /\ policies \in [PolicyNames -> PolicyRecords]
  BY KindsAssumption DEF GetPolicy, PutPolicy, Steps, TypeOK
<1>1. PolicyName(o, c) \in PolicyNames /\ s.document \in Documents /\ p \in PolicyRecords
  BY <1>0, SnapshotKind DEF PolicySpecRecords
<1>2. /\ Fail(o, c, "retry") => PolicyProgress(o, c)'
      /\ Proceed(o, c, "putPolicy") => PolicyProgress(o, c)'
      /\ Proceed(o, c, "status") /\ PolicyDeclared(s, pp) => PolicyProgress(o, c)'
  BY <1>0, FailEstablishes, PolicyProceeds
<1>3. CASE GetPolicy(o, c)
  <2>1. PICK inSync \in IF p.document = None THEN {FALSE} ELSE Verdicts[p.document, s.document] :
          Query(o, c, IF inSync THEN "status" ELSE "putPolicy")
    BY <1>3 DEF GetPolicy, DocumentOf
  <2>2. pp = p
    BY <1>3 DEF GetPolicy, SameServer
  <2>3. CASE Fail(o, c, "retry")
    BY <1>2, <2>3
  <2>4. CASE inSync /\ Proceed(o, c, "status")
    <3>1. p.document # None /\ inSync \in Verdicts[p.document, s.document]
      BY <2>1, <2>4
    <3>2. p.document \in Documents
      BY <1>1, <3>1 DEF PolicyRecords
    <3>3. PolicyDeclared(s, p)
      BY <1>1, <2>4, <3>1, <3>2 DEF Discerning, PolicyDeclared
    <3> QED
      BY <1>2, <2>2, <2>4, <3>3
  <2>5. CASE ~inSync /\ Proceed(o, c, "putPolicy")
    BY <1>2, <2>5
  <2> QED
    BY <2>1, <2>3, <2>4, <2>5 DEF Query
<1>4. CASE PutPolicy(o, c)
  <2>1. \/ Fail(o, c, "retry")
        \/ /\ Proceed(o, c, "status")
           /\ \E b : SetPolicy(PolicyName(o, c), [document |-> s.document, by |-> b])
    BY <1>4 DEF PutPolicy, Call, DocumentOf
  <2>2. ASSUME NEW b, SetPolicy(PolicyName(o, c), [document |-> s.document, by |-> b])
        PROVE  PolicyDeclared(s, pp)
    <3>1. pp = [document |-> s.document, by |-> b]
      BY <1>0, <1>1, <2>2 DEF SetPolicy
    <3>2. pp.document = s.document
      BY <3>1
    <3> QED
      BY <1>1, <3>2, NoneIsNoDocument DEF PolicyDeclared
  <2> QED
    BY <1>2, <2>1, <2>2
<1> QED
  BY <1>3, <1>4

-----------------------------------------------------------------------------
(***************************************************************************)
(* Every reconciliation but the one that takes the step stays where it is. *)
(***************************************************************************)
LEMMA SeenElsewhere ==
  ASSUME TypeOK, NEW o \in Operators, NEW c \in CRs, Reconcile(o, c),
         NEW p \in Operators, NEW d \in UserCRs, p # o \/ d # c
  PROVE  seen'[p][d] = seen[p][d]
<1>1. ASSUME NEW r, See(o, c, r)
      PROVE  seen'[p][d] = seen[p][d]
  BY <1>1 DEF See, TypeOK
<1>2. c \in UserCRs /\ ReconcileUser(o, c) => UNCHANGED seen \/ \E r : See(o, c, r)
  BY DEF ReconcileUser, ReadPassword, GetUser, CreateUser, SetUserStatus, SetUserPolicies,
     DeleteUser, userVars
<1>3. DeniedUser(o, c) => UNCHANGED seen \/ \E r : See(o, c, r)
  BY DEF DeniedUser
<1> QED
  BY <1>1, <1>2, <1>3 DEF Reconcile, userVars

Still(p, d) == Stays(p, d) /\ (d \in UserCRs => seen'[p][d] = seen[p][d])

\* A step of one reconciliation leaves the others where they are.
LEMMA Elsewhere ==
  ASSUME TypeOK, KindInv, [Next]_vars, NEW p \in Operators, NEW d \in CRs
  PROVE  Reconcile(p, d) \/ pc'[p][d] = "idle" \/ Still(p, d)
<1>0. Typed(Steps)
  BY DEF TypeOK, Typed
<1>1. ASSUME NEW o \in Operators, NEW c \in CRs, Reconcile(o, c), p # o \/ d # c
      PROVE  Still(p, d)
  <2>1. OwnKind(o, c) \/ MoveKind(o, c)
    BY <1>1, ReconcileKinds
  <2>2. Stays(p, d)
    BY <1>0, <1>1, <2>1, OwnStepStays, MovesStay DEF OwnKind, MoveKind
  <2> QED
    BY <1>1, <2>2, SeenElsewhere DEF Still
<1>2. ASSUME NEW o \in Operators, NEW c \in CRs, WatchCR(o, c)
      PROVE  Still(p, d)
  BY <1>2 DEF WatchCR, Watch, Deliver, userVars, Stays, Still
<1>3. ASSUME NEW o \in Operators, Crash(o), ForgetSeen(o)
      PROVE  pc'[p][d] = "idle" \/ Still(p, d)
  <2>1. CASE p = o
    BY <1>0, <1>3, <2>1 DEF Crash, Restart, Typed, ControllerTypeOK, RuntimeTypeOK
  <2>2. CASE p # o
    BY <1>0, <1>3, <2>2 DEF Crash, Restart, ForgetSeen, Typed, TypeOK, ControllerTypeOK,
       RuntimeTypeOK, Stays, Still
  <2> QED
    BY <2>1, <2>2
<1>4. CASE Environment
  <2>1. ASSUME NEW c \in CRs, UserStep(c, SpecsOf(c)), UNCHANGED userVars
        PROVE  Still(p, d)
    BY <2>1 DEF UserStep, CreateCR, EditCR, DeleteCR, userVars, Stays, Still
  <2>2. ASSUME NEW c \in UserCRs, EditPassword(c) \/ LosePassword(c)
        PROVE  Still(p, d)
    BY <2>2 DEF EditPassword, LosePassword, controllerVars, Stays, Still
  <2>3. ASSUME NEW u \in UserNames, DriftUser(u)
        PROVE  Still(p, d)
    BY <2>3 DEF DriftUser, Drift, userVars, Stays, Still
  <2>4. ASSUME NEW q \in PolicyNames, DriftPolicy(q), UNCHANGED userVars
        PROVE  Still(p, d)
    BY <2>4 DEF DriftPolicy, Drift, userVars, Stays, Still
  <2> QED
    BY <1>4, <2>1, <2>2, <2>3, <2>4 DEF Environment
<1>5. CASE UNCHANGED vars
  BY <1>5 DEF vars, controllerVars, userVars, Stays, Still
<1> QED
  BY <1>1, <1>2, <1>3, <1>4, <1>5 DEF Next

-----------------------------------------------------------------------------
\* Where the steps that no call of ensure_ makes lead.
LEMMA OtherLabels ==
  ASSUME TypeOK, NEW o \in Operators, NEW c \in CRs,
         \/ OwnStep(o, c)
         \/ \E e : CleanupFails(o, c, e)
         \/ \E l \in {"connect", "getUser", "getPolicy", "delete", "removeFinalizer"} :
              Proceed(o, c, l)
  PROVE  UserProgress(o, c)' /\ PolicyProgress(o, c)'
<1>0. Typed(Steps) /\ pc \in [Operators -> [CRs -> Steps \union ResourceSteps]]
  BY DEF TypeOK, Typed, ControllerTypeOK, RuntimeTypeOK
<1>1. CASE OwnStep(o, c)
  BY <1>0, <1>1, OwnStepLeads, NothingEstablished DEF ResourceSteps
<1>2. ASSUME NEW e, CleanupFails(o, c, e)
      PROVE  pc'[o][c] = "idle"
  BY <1>0, <1>2 DEF CleanupFails, Finish
<1>3. ASSUME NEW l, Proceed(o, c, l)
      PROVE  pc'[o][c] = l
  BY <1>0, <1>3 DEF Proceed, Goto
<1> QED
  BY <1>1, <1>2, <1>3, NothingEstablished

\* A step of its own that is not meddled with establishes what follows.
LEMMA OwnEstablishes ==
  ASSUME TypeOK, KindInv, NEW o \in Operators, NEW c \in CRs, Reconcile(o, c), ~meddled'
  PROVE  /\ c \in UserCRs /\ UserProgress(o, c) => UserProgress(o, c)'
         /\ c \in PolicyCRs /\ Discerning => PolicyProgress(o, c)'
<1> DEFINE Done == UserProgress(o, c)' /\ PolicyProgress(o, c)'
<1>1. /\ OwnStep(o, c) => Done
      /\ \A e : CleanupFails(o, c, e) => Done
      /\ \A l \in {"connect", "getUser", "getPolicy", "delete", "removeFinalizer"} :
           Proceed(o, c, l) => Done
      /\ \A e \in {"config", "retry"} : Fail(o, c, e) => Done
  BY OtherLabels, FailEstablishes
<1> HIDE DEF Done
<1>2. LocalStep(o, c) => Done
  BY <1>1 DEF LocalStep, Cleanup
<1>3. ReadPassword(o, c) => Done
  BY <1>1 DEF ReadPassword
<1>4. Connect(o, c, "connect", "getUser") \/ Connect(o, c, "apply", "getPolicy") => Done
  BY <1>1 DEF Connect, Query
<1>5. DeleteUser(o, c) \/ DeletePolicy(o, c) => Done
  BY <1>1 DEF DeleteUser, DeletePolicy, Delete
<1>6. ~DeniedUser(o, c) /\ ~DeniedPolicy(o, c)
  BY DEF DeniedUser, DeniedPolicy, Denied
<1>7. c \in UserCRs => c \notin PolicyCRs
  BY KindsAssumption
<1>8. CASE c \in UserCRs /\ ReconcileUser(o, c)
  BY <1>2, <1>3, <1>4, <1>5, <1>7, <1>8, EnsureUserEstablishes DEF ReconcileUser, Done
<1>9. CASE c \in PolicyCRs /\ ReconcilePolicy(o, c)
  BY <1>2, <1>4, <1>5, <1>7, <1>9, EnsurePolicyEstablishes DEF ReconcilePolicy, Done
<1> QED
  BY <1>6, <1>8, <1>9 DEF Reconcile

\* With one operator and a user of one's own, no other step disturbs it.
LEMMA UserProgressStep ==
  SoleOperator /\ TypeOK /\ KindInv /\ Apart /\ UserProgressInv /\ [Next]_vars
    => UserProgressInv'
<1> SUFFICES ASSUME SoleOperator, TypeOK, KindInv, Apart, UserProgressInv, [Next]_vars,
                    ~meddled', NEW p \in Operators, NEW d \in UserCRs
             PROVE  UserProgress(p, d)'
  BY DEF UserProgressInv
<1> DEFINE u == UserName(p, d)
<1>1. UserProgress(p, d) /\ d \in CRs
  BY MeddledStays, KindsAssumption DEF UserProgressInv
<1>2. CASE Reconcile(p, d)
  BY <1>1, <1>2, OwnEstablishes
<1>3. CASE pc'[p][d] \notin {"createUser", "setStatus", "setPolicies", "status"}
  BY <1>1, <1>3, NothingEstablished
<1>4. CASE pc[p][d] \in {"createUser", "setStatus", "setPolicies", "status"} /\ Still(p, d)
           /\ ~Reconcile(p, d)
  <2>1. u \in UserNames
    <3>1. obj[p][d].spec \in SpecsOf(d)
      BY <1>1, <1>4 DEF KindInv, AllSteps, ApplyLabels, Steps
    <3> QED
      BY <3>1, SpecsAssumption DEF SpecsOf, UserSpecRecords, UserName
  <2>2. ASSUME NEW o \in Operators, NEW c \in CRs, Reconcile(o, c), WritesUser(o, c),
               UserName(o, c) = u
        PROVE  FALSE
    <3>1. o = p
      BY DEF SoleOperator
    <3>2. c \in UserCRs /\ pc[o][c] # "idle"
      BY <2>2 DEF WritesUser, UserCalls
    <3>3. Names(c, u) /\ Names(d, u)
      BY <1>4, <2>2, <3>2 DEF Names, UserName
    <3>4. c = d
      BY <2>1, <3>2, <3>3 DEF Apart
    <3> QED
      BY <1>4, <2>2, <3>1, <3>4
  <2>3. users'[u] = users[u]
    BY <2>1, <2>2, UserCases
  <2> QED
    BY <1>1, <1>4, <2>3 DEF UserProgress, Stays, Still, RemoteUser, UserName
<1> QED
  BY <1>1, <1>2, <1>3, <1>4, Elsewhere DEF Still, Stays

\* What the reconciliation of a policy has established stays so.
LEMMA PolicyProgressStep ==
  SoleOperator /\ Discerning /\ TypeOK /\ KindInv /\ Apart /\ PolicyProgressInv /\ [Next]_vars
    => PolicyProgressInv'
<1> SUFFICES ASSUME SoleOperator, Discerning, TypeOK, KindInv, Apart, PolicyProgressInv,
                    [Next]_vars, ~meddled', NEW p \in Operators, NEW d \in PolicyCRs
             PROVE  PolicyProgress(p, d)'
  BY DEF PolicyProgressInv
<1> DEFINE n == PolicyName(p, d)
<1>1. PolicyProgress(p, d) /\ d \in CRs
  BY MeddledStays, KindsAssumption DEF PolicyProgressInv
<1>2. CASE Reconcile(p, d)
  BY <1>1, <1>2, OwnEstablishes
<1>3. CASE pc'[p][d] # "status"
  BY <1>3 DEF PolicyProgress, PolicyEstablished
<1>4. CASE pc[p][d] = "status" /\ Still(p, d) /\ ~Reconcile(p, d)
  <2>1. n \in PolicyNames
    <3>1. obj[p][d].spec \in SpecsOf(d)
      BY <1>1, <1>4 DEF KindInv, AllSteps, ApplyLabels
    <3> QED
      BY <3>1, SpecsAssumption, KindsAssumption DEF SpecsOf, PolicySpecRecords, PolicyName
  <2>2. ASSUME NEW o \in Operators, NEW c \in CRs, Reconcile(o, c), WritesPolicy(o, c),
               PolicyName(o, c) = n
        PROVE  FALSE
    <3>1. o = p
      BY DEF SoleOperator
    <3>2. c \in PolicyCRs /\ pc[o][c] # "idle"
      BY <2>2 DEF WritesPolicy, PolicyCalls
    <3>3. Names(c, n) /\ Names(d, n)
      BY <1>4, <2>2, <3>2 DEF Names, PolicyName
    <3>4. c = d
      BY <2>1, <3>2, <3>3 DEF Apart
    <3> QED
      BY <1>4, <2>2, <3>1, <3>4
  <2>3. policies'[n] = policies[n]
    BY <2>1, <2>2, PolicyCases
  <2> QED
    BY <1>1, <1>4, <2>3 DEF PolicyProgress, Stays, Still, PolicyName
<1> QED
  BY <1>1, <1>2, <1>3, <1>4, Elsewhere DEF Still, Stays

\* At first nothing is established.
LEMMA InitProgress == Init => UserProgressInv /\ PolicyProgressInv
<1> SUFFICES ASSUME Init
             PROVE  UserProgressInv /\ PolicyProgressInv
  OBVIOUS
<1>1. \A o \in Operators, c \in CRs : pc[o][c] = "idle"
  BY DEF Init, ControllerInit, RuntimeInit
<1> QED
  BY <1>1, KindsAssumption DEF UserProgressInv, UserProgress, UserEstablished,
     PolicyProgressInv, PolicyProgress, PolicyEstablished

\* What has been established of users, in every state,
LEMMA UserProgressCorrect == SoleOperator /\ SafetySpec /\ []Apart => []UserProgressInv
<1> SUFFICES ASSUME SoleOperator
             PROVE  SafetySpec /\ []Apart => []UserProgressInv
  OBVIOUS
<1> QED
  BY InitProgress, UserProgressStep, TypedAndKind, PTL DEF SafetySpec

\* and of policies.
LEMMA PolicyProgressCorrect ==
  SoleOperator /\ Discerning /\ SafetySpec /\ []Apart => []PolicyProgressInv
<1> SUFFICES ASSUME SoleOperator, Discerning
             PROVE  SafetySpec /\ []Apart => []PolicyProgressInv
  OBVIOUS
<1> QED
  BY InitProgress, PolicyProgressStep, TypedAndKind, PTL DEF SafetySpec

-----------------------------------------------------------------------------
\* A call that writes a user that exists keeps its password.
LEMMA WritesKeepPassword ==
  ASSUME TypeOK, KindInv, UserProgressInv, ~meddled,
         NEW o \in Operators, NEW c \in CRs, WritesUser(o, c),
         NEW u \in UserNames, users[u].exists, users'[u].exists
  PROVE  users'[u].password = users[u].password
<1>0. users \in [UserNames -> UserRecords]
  BY DEF TypeOK
<1>1. PICK uu :
        /\ SetUser(UserName(o, c), uu)
        /\ UserWritten(pc[o][c], c, obj[o][c].spec, seen[o][c], RemoteUser(o, c), uu)
  BY DEF WritesUser
<1>2. CASE UserName(o, c) # u
  BY <1>0, <1>1, <1>2 DEF SetUser
<1>3. CASE UserName(o, c) = u
  <2>1. users'[u] = uu /\ RemoteUser(o, c) = users[u] /\ users[u] \in UserRecords
    BY <1>0, <1>1, <1>3 DEF SetUser, RemoteUser
  <2>2. pc[o][c] # "createUser"
    BY <1>3 DEF WritesUser, UserProgressInv, UserProgress, UserEstablished, RemoteUser
  <2> QED
    BY <1>1, <2>1, <2>2 DEF UserWritten, WritesUser, UserCalls, UserRecords, NoUser
<1> QED
  BY <1>2, <1>3

\* So does every other step.
LEMMA PasswordStep ==
  ASSUME TypeOK, KindInv, UserProgressInv, ~meddled, [Next]_vars,
         NEW u \in UserNames, users[u].exists, users'[u].exists
  PROVE  users'[u].password = users[u].password
<1>0. users \in [UserNames -> UserRecords]
  BY DEF TypeOK
<1>1. users' = users => users'[u].password = users[u].password
  OBVIOUS
<1>2. ASSUME NEW o \in Operators, NEW c \in CRs, MoveKind(o, c)
      PROVE  users'[u].password = users[u].password
  BY <1>1, <1>2, WritesKeepPassword
  DEF MoveKind, Served, SameServer, WritesPolicy, SetPolicy
<1>3. CASE OthersKind
  <2>1. ASSUME NEW v \in UserNames, DriftUser(v)
        PROVE  users'[u].password = users[u].password
    <3>1. CASE u = v
      <4>1. ASSUME NEW e, NEW ps, SetUser(v, [users[v] EXCEPT !.enabled = e, !.policies = ps])
            PROVE  users'[u].password = users[u].password
        BY <1>0, <3>1, <4>1 DEF SetUser, UserRecords
      <4>2. ~SetUser(v, NoUser)
        BY <1>0, <3>1 DEF SetUser, NoUser
      <4> QED
        BY <2>1, <3>1, <4>1, <4>2 DEF DriftUser
    <3>2. CASE u # v
      BY <1>0, <2>1, <3>2 DEF DriftUser, SetUser
    <3> QED
      BY <3>1, <3>2
  <2> QED
    BY <1>1, <1>3, <2>1 DEF OthersKind, SameServer, DriftPolicy, SetPolicy
<1> QED
  BY <1>1, <1>2, <1>3, Kinds DEF OwnKind, ControllerKind, SameServer, vars

(***************************************************************************)
(* As long as one operator runs and no two User resources are about one    *)
(* user, the password of a user that exists is replaced by nobody.         *)
(***************************************************************************)
THEOREM PasswordsStickCorrect == SoleOperator /\ SafetySpec /\ []Apart => PasswordsStick
<1>1. TypeOK /\ KindInv /\ UserProgressInv /\ [Next]_vars =>
        [~meddled =>
           \A u \in UserNames :
             users[u].exists /\ users'[u].exists => users'[u].password = users[u].password]_vars
  BY PasswordStep
<1> QED
  BY <1>1, TypedAndKind, UserProgressCorrect, PTL DEF PasswordsStick, SafetySpec

-----------------------------------------------------------------------------
(***************************************************************************)
(* Ready means that the server has what the spec declares.                 *)
(***************************************************************************)
Has(c, s, us, ps) ==
  IF c \in UserCRs THEN UserDeclared(s, us[s.name]) ELSE PolicyDeclared(s, ps[s.name])

\* What is declared, of the server as it is.
LEMMA DeclaredIs == \A c : Declared(c) <=> Has(c, cr[c].spec, users, policies)
BY DEF Declared, Has, UserDeclared, PolicyDeclared

\* What the steps make of the server's copy of a resource.
LEMMA CopyCases ==
  ASSUME TypeOK, KindInv, [Next]_vars, NEW c \in CRs
  PROVE  \/ Rewritten(cr[c], cr'[c])
         \/ \E o \in Operators : Reports(o, c) /\ SameServer
<1>0. Typed(Steps)
  BY DEF TypeOK, Typed
<1>1. ASSUME NEW o \in Operators, NEW d \in CRs, OwnKind(o, d)
      PROVE  SameServer /\ (Rewritten(cr[c], cr'[c]) \/ Reports(o, c))
  BY <1>0, <1>1, OwnStepWrites DEF OwnKind, Rewritten
<1>2. ASSUME NEW d \in CRs, UserStep(d, SpecsOf(d))
      PROVE  Rewritten(cr[c], cr'[c])
  BY <1>0, <1>2, UserWrites DEF Rewritten
<1>3. ASSUME NEW o, NEW d, Moves(Steps, o, d)
      PROVE  cr' = cr
  BY <1>3 DEF Moves, Proceed, Fail, Goto, CleanupFails
<1>4. CASE cr' = cr
  BY <1>4 DEF Rewritten
<1>5. (\E o, d : Watch(o, d)) \/ (\E o : Crash(o)) \/ OthersKind \/ UNCHANGED vars => cr' = cr
  BY DEF Watch, Deliver, Crash, Restart, OthersKind, vars, controllerVars
<1> QED
  BY <1>1, <1>2, <1>3, <1>4, <1>5, Kinds DEF ControllerKind, MoveKind

\* What a resource that is ready lets its own reconciliation write.
LEMMA ReadySpec ==
  ASSUME TypeOK, SnapshotInv, NEW o \in Operators, NEW c \in CRs, Claims(cr[c]),
         pc[o][c] \in UserCalls \union PolicyCalls
  PROVE  pc[o][c] # "delete" /\ obj[o][c].spec = cr[c].spec
<1>0. /\ Typed(Steps) /\ cr[c] \in ApiObjects /\ ServerOK(cr[c])
      /\ RunOK(pc[o][c], obj[o][c], cache[o][c], cr[c], ApplyLabels(Steps), CleanupSteps)
  BY DEF TypeOK, Typed, ControllerTypeOK, RuntimeTypeOK, ApiObjects,
     SnapshotInv, ControllerSnapshotsOK, SnapshotsOK, ApplyLabels
<1>1. pc[o][c] # "delete"
  <2>1. Held(cr[c])
    BY <1>0, ClaimsHeld
  <2> QED
    BY <1>0, <2>1 DEF RunOK, CleanupSteps
<1>2. pc[o][c] \in ApplyLabels(Steps)
  BY <1>1 DEF ApplyLabels, Steps, UserCalls, PolicyCalls
<1> QED
  BY <1>0, <1>1, <1>2, ApplyCurrent DEF Claims, SnapshotInv

\* A write for a resource that is ready leaves what it declares.
LEMMA ReadyWrites ==
  ASSUME TypeOK, KindInv, SnapshotInv, NEW o \in Operators, NEW c \in CRs, Claims(cr[c]),
         Declared(c), WritesUser(o, c) \/ WritesPolicy(o, c)
  PROVE  Has(c, cr[c].spec, users', policies')
<1> DEFINE s == cr[c].spec
<1>0. /\ users \in [UserNames -> UserRecords] /\ policies \in [PolicyNames -> PolicyRecords]
      /\ s \in SpecsOf(c) /\ Has(c, s, users, policies)
  BY DeclaredIs DEF TypeOK, KindInv, Claims
<1>1. CASE WritesUser(o, c)
  <2>1. pc[o][c] # "delete" /\ obj[o][c].spec = s
    BY <1>1, ReadySpec DEF WritesUser
  <2>2. PICK uu :
          /\ SetUser(UserName(o, c), uu)
          /\ UserWritten(pc[o][c], c, obj[o][c].spec, seen[o][c], RemoteUser(o, c), uu)
    BY <1>1 DEF WritesUser
  <2>3. c \in UserCRs /\ UserName(o, c) = s.name /\ s.name \in UserNames
    BY <1>0, <1>1, <2>1, SpecsAssumption DEF WritesUser, UserName, SpecsOf, UserSpecRecords
  <2> DEFINE u == users[s.name]
  <2>4. /\ users'[s.name] = uu /\ u \in UserRecords /\ RemoteUser(o, c) = u
        /\ UserDeclared(s, u)
    BY <1>0, <2>2, <2>3 DEF SetUser, RemoteUser, Has
  <2>5. UserWritten(pc[o][c], c, s, seen[o][c], u, uu)
    BY <2>1, <2>2, <2>4
  <2> HIDE DEF s, u
  <2>6. UserDeclared(s, uu)
    BY <1>1, <2>1, <2>4, <2>5 DEF UserWritten, UserDeclared, WritesUser, UserCalls, UserRecords
  <2> QED
    BY <2>3, <2>4, <2>6 DEF Has, s
<1>2. CASE WritesPolicy(o, c)
  <2>1. pc[o][c] # "delete" /\ obj[o][c].spec = s
    BY <1>2, ReadySpec DEF WritesPolicy
  <2>2. PICK pp :
          /\ SetPolicy(PolicyName(o, c), pp)
          /\ PolicyWritten(pc[o][c], c, obj[o][c].spec, policies[PolicyName(o, c)], pp)
    BY <1>2 DEF WritesPolicy
  <2>3. /\ c \notin UserCRs /\ PolicyName(o, c) = s.name /\ s.name \in PolicyNames
        /\ s.document \in Documents
    BY <1>0, <1>2, <2>1, SpecsAssumption, KindsAssumption
    DEF WritesPolicy, PolicyName, SpecsOf, PolicySpecRecords
  <2>4. policies'[s.name] = pp /\ pp.document = s.document
    BY <1>0, <1>2, <2>1, <2>2, <2>3 DEF SetPolicy, PolicyWritten, WritesPolicy, PolicyCalls
  <2>5. PolicyDeclared(s, pp)
    BY <2>3, <2>4, NoneIsNoDocument DEF PolicyDeclared
  <2> QED
    BY <2>3, <2>4, <2>5 DEF Has
<1> QED
  BY <1>1, <1>2

\* What a reconciliation that succeeded has established is what it reports.
LEMMA ReportHas ==
  ASSUME TypeOK, KindInv, SnapshotInv, UserProgressInv, PolicyProgressInv, ~meddled,
         NEW o \in Operators, NEW c \in CRs, Reports(o, c), Claims(cr'[c])
  PROVE  cr'[c].spec = cr[c].spec /\ Has(c, cr[c].spec, users, policies)
<1>0. Typed(Steps)
  BY DEF TypeOK, Typed
<1>1. cr'[c].spec = cr[c].spec /\ result[o][c] = "reconciled" /\ obj[o][c].spec = cr[c].spec
  BY <1>0, StepsApart, ReportClaims DEF SnapshotInv
<1>2. pc[o][c] = "status"
  BY DEF Reports
<1>3. CASE c \in UserCRs
  BY <1>1, <1>2, <1>3
  DEF UserProgressInv, UserProgress, UserEstablished, RemoteUser, UserName, Has
<1>4. CASE c \in PolicyCRs
  BY <1>1, <1>2, <1>4, KindsAssumption
  DEF PolicyProgressInv, PolicyProgress, PolicyEstablished, PolicyName, Has
<1> QED
  BY <1>1, <1>3, <1>4, KindsAssumption

\* A step leaves a resource ready only if the server has what it declares.
LEMMA ReadyStep ==
  ASSUME TypeOK, KindInv, SnapshotInv, UserProgressInv, PolicyProgressInv, Apart,
         ReadyMeansDeclared, [Next]_vars, ~meddled', NEW c \in CRs, Ready(c)'
  PROVE  Declared(c)'
<1>0. Typed(Steps) /\ cr[c] \in ApiObjects /\ ServerOK(cr[c]) /\ ~meddled
  BY MeddledStays
  DEF TypeOK, Typed, ControllerTypeOK, RuntimeTypeOK, ApiObjects,
      SnapshotInv, ControllerSnapshotsOK, SnapshotsOK
<1>1. Claims(cr'[c])
  BY DEF Ready, Claims, Exists
<1> DEFINE s == cr[c].spec
<1>2. SUFFICES cr'[c].spec = s /\ Has(c, s, users', policies')
  BY DEF Declared, Has, UserDeclared, PolicyDeclared
<1>3. ASSUME NEW o \in Operators, Reports(o, c), SameServer
      PROVE  cr'[c].spec = s /\ Has(c, s, users', policies')
  BY <1>0, <1>1, <1>3, ReportHas DEF SameServer
<1>4. CASE Rewritten(cr[c], cr'[c])
  <2>1. Claims(cr[c]) /\ cr'[c].spec = s
    BY <1>0, <1>1, <1>4, RewrittenClaims
  <2>2. Declared(c) /\ Has(c, s, users, policies) /\ s \in SpecsOf(c)
    BY <1>0, <2>1, ReadyClaims, DeclaredIs DEF ReadyMeansDeclared, KindInv, Claims
  <2>3. CASE c \in UserCRs
    <3>1. s.name \in UserNames
      BY <2>2, <2>3, SpecsAssumption DEF SpecsOf, UserSpecRecords
    <3>2. users'[s.name] = users[s.name] => Has(c, s, users', policies')
      BY <2>2, <2>3 DEF Has
    <3>3. ASSUME NEW o \in Operators, NEW d \in CRs, WritesUser(o, d), UserName(o, d) = s.name
          PROVE  Has(c, s, users', policies')
      <4>1. d \in UserCRs /\ Names(d, s.name) /\ Names(c, s.name)
        BY <2>1, <3>3 DEF Names, UserName, WritesUser, UserCalls, Claims
      <4>2. d = c
        BY <2>3, <3>1, <4>1 DEF Apart
      <4> QED
        BY <2>1, <2>2, <3>3, <4>2, ReadyWrites
    <3> QED
      BY <1>0, <2>1, <3>1, <3>2, <3>3, UserCases
  <2>4. CASE c \notin UserCRs
    <3>1. s.name \in PolicyNames /\ c \in PolicyCRs
      BY <2>2, <2>4, SpecsAssumption, KindsAssumption DEF SpecsOf, PolicySpecRecords
    <3>2. policies'[s.name] = policies[s.name] => Has(c, s, users', policies')
      BY <2>2, <2>4 DEF Has
    <3>3. ASSUME NEW o \in Operators, NEW d \in CRs, WritesPolicy(o, d),
                 PolicyName(o, d) = s.name
          PROVE  Has(c, s, users', policies')
      <4>1. d \in PolicyCRs /\ Names(d, s.name) /\ Names(c, s.name)
        BY <2>1, <3>3 DEF Names, PolicyName, WritesPolicy, PolicyCalls, Claims
      <4>2. d = c
        BY <3>1, <4>1 DEF Apart
      <4> QED
        BY <2>1, <2>2, <3>3, <4>2, ReadyWrites
    <3> QED
      BY <1>0, <2>1, <3>1, <3>2, <3>3, PolicyCases
  <2> QED
    BY <2>3, <2>4
<1> QED
  BY <1>3, <1>4, CopyCases

(***************************************************************************)
(* As long as one operator runs, no two resources are about one user or    *)
(* one policy, and the comparison of documents tells apart what allows     *)
(* different requests: ready with the current generation means that the    *)
(* server has what the spec declares.                                      *)
(***************************************************************************)
THEOREM ReadyCorrect ==
  SoleOperator /\ Discerning /\ SafetySpec /\ []Apart => []ReadyMeansDeclared
<1> SUFFICES ASSUME SoleOperator, Discerning
             PROVE  SafetySpec /\ []Apart => []ReadyMeansDeclared
  OBVIOUS
<1>1. Init => ReadyMeansDeclared
  BY DEF Init, ControllerInit, RuntimeInit, Blank, ReadyMeansDeclared, Ready, Exists
<1>2. TypeOK /\ KindInv /\ SnapshotInv /\ UserProgressInv /\ PolicyProgressInv /\ Apart
        /\ ReadyMeansDeclared /\ [Next]_vars => ReadyMeansDeclared'
  BY ReadyStep DEF ReadyMeansDeclared
<1> QED
  BY <1>1, <1>2, TypedAndKind, SnapshotsCorrect, UserProgressCorrect, PolicyProgressCorrect,
     PTL DEF SafetySpec

-----------------------------------------------------------------------------
(***************************************************************************)
(* A user or policy that was made for a resource stays in its hands, if    *)
(* the server does not call a user or policy missing that it has: delete   *)
(* takes any error that reads so for the absence of what is to go.         *)
(***************************************************************************)
Truthful == "notFound" \notin FaultKinds

\* An answer that misleads is a fault, and an interference.
LEMMA NotDenied ==
  ASSUME Truthful \/ ~meddled', NEW o, NEW c
  PROVE  ~DeniedUser(o, c) /\ ~DeniedPolicy(o, c)
BY DEF Truthful, DeniedUser, DeniedPolicy, Denied, Fault

\* The copies of a resource stay alike.
LEMMA IdentityStep ==
  TypeOK /\ KindInv /\ SnapshotInv /\ IdentityInv(Steps) /\ [Next]_vars /\ Steady
    => IdentityInv(Steps)'
BY StepsApart, NextLeaves, LeavesIdentical DEF TypeOK, Typed, SnapshotInv, IdentityInv

\* How a step writes a resource.
LEMMA NextCopies ==
  ASSUME TypeOK, KindInv, [Next]_vars, NEW d \in CRs
  PROVE  Copies(d)
<1>1. CASE \E p : p \in Operators
  BY <1>1, NextLeaves DEF Leaves
<1>2. CASE ~\E p : p \in Operators
  <2>1. ASSUME NEW c \in CRs, UserStep(c, SpecsOf(c))
        PROVE  Copies(d)
    BY <2>1, UserWrites DEF Copies, TypeOK, Typed
  <2>2. OthersKind \/ UNCHANGED vars => cr' = cr
    BY DEF OthersKind, vars, controllerVars
  <2> QED
    BY <1>2, <2>1, <2>2, Kinds DEF ControllerKind, Copies
<1> QED
  BY <1>1, <1>2

(***************************************************************************)
(* The finalizer is asked off only for what is kept, or gone.              *)
(***************************************************************************)
LEMMA LeadsToRemoval ==
  ASSUME TypeOK, KindInv, NEW o \in Operators, NEW c \in CRs, Reconcile(o, c),
         Truthful \/ ~meddled', pc'[o][c] = "removeFinalizer"
  PROVE  /\ pc[o][c] \in CleanupSteps
         /\ \/ obj[o][c].spec.deletion = "Retain"
            \/ /\ c \in UserCRs => users'[UserName(o, c)] = NoUser
               /\ c \in PolicyCRs => policies'[PolicyName(o, c)] = NoPolicy
<1>0. /\ pc \in [Operators -> [CRs -> Steps \union ResourceSteps]]
      /\ users \in [UserNames -> UserRecords] /\ policies \in [PolicyNames -> PolicyRecords]
      /\ UserCRs \intersect PolicyCRs = {}
  BY KindsAssumption DEF TypeOK, ControllerTypeOK, RuntimeTypeOK
<1>1. ASSUME NEW e, Finish(o, c, e)
      PROVE  FALSE
  BY <1>0, <1>1 DEF Finish
<1>2. ASSUME NEW m, Goto(o, c, m)
      PROVE  m = "removeFinalizer"
  BY <1>0, <1>2 DEF Goto
<1>3. ~Start(o, c)
  BY <1>0 DEF Start, FinalizerEvent
<1>4. Retained(o, c) => pc[o][c] \in CleanupSteps /\ obj[o][c].spec.deletion = "Retain"
  BY DEF Retained, CleanupSteps
<1>5. ~AddFinalizer(o, c) /\ ~RemoveFinalizer(o, c) /\ ~UpdateStatus(o, c)
  BY <1>1 DEF AddFinalizer, RemoveFinalizer, UpdateStatus, PatchStatus
<1>6. ~Cleanup(o, c)
  BY <1>1, <1>2 DEF Cleanup, Proceed, CleanupFails
<1>7. /\ ~Connect(o, c, "connect", "getUser") /\ ~Connect(o, c, "apply", "getPolicy")
      /\ ~ReadPassword(o, c)
  BY <1>2 DEF Connect, Query, ReadPassword, Proceed, Fail
<1>8. ~GetUser(o, c) /\ ~CreateUser(o, c) /\ ~SetUserStatus(o, c) /\ ~SetUserPolicies(o, c)
  <2>1. /\ \A x, e, a : AfterExistence(x, e, a) # "removeFinalizer"
        /\ \A x, a : AfterEnabled(x, a) # "removeFinalizer"
    BY NextCalls DEF Steps
  <2>2. ~Fail(o, c, "retry") /\ \A l : Proceed(o, c, l) => l = "removeFinalizer"
    BY <1>2 DEF Fail, Proceed
  <2>3. ~GetUser(o, c)
    BY <2>1, <2>2 DEF GetUser, Query
  <2> QED
    BY <2>1, <2>2, <2>3 DEF CreateUser, SetUserStatus, SetUserPolicies, Call
<1>9. ~GetPolicy(o, c) /\ ~PutPolicy(o, c)
  BY <1>2 DEF GetPolicy, PutPolicy, Query, Call, Proceed, Fail
<1>10. DeleteUser(o, c) /\ c \in UserCRs
         => pc[o][c] \in CleanupSteps /\ users'[UserName(o, c)] = NoUser
  <2>1. pc[o][c] = "delete" /\ c \in UserCRs => UserName(o, c) \in UserNames
    BY SnapshotKind
  <2> QED
    BY <1>0, <1>1, <2>1 DEF DeleteUser, Delete, CleanupFails, CleanupSteps, SetUser
<1>11. DeletePolicy(o, c) /\ c \in PolicyCRs
         => pc[o][c] \in CleanupSteps /\ policies'[PolicyName(o, c)] = NoPolicy
  <2>1. pc[o][c] = "delete" /\ c \in PolicyCRs => PolicyName(o, c) \in PolicyNames
    BY SnapshotKind
  <2> QED
    BY <1>0, <1>1, <2>1 DEF DeletePolicy, Delete, CleanupFails, CleanupSteps, SetPolicy
<1>12. LocalStep(o, c) => Retained(o, c)
  BY <1>3, <1>5, <1>6 DEF LocalStep, OwnStep
<1>13. /\ c \in UserCRs /\ ReconcileUser(o, c) => Retained(o, c) \/ DeleteUser(o, c)
       /\ c \in PolicyCRs /\ ReconcilePolicy(o, c) => Retained(o, c) \/ DeletePolicy(o, c)
  BY <1>7, <1>8, <1>9, <1>12 DEF ReconcileUser, ReconcilePolicy
<1> QED
  BY <1>0, <1>4, <1>10, <1>11, <1>13, NotDenied DEF Reconcile

-----------------------------------------------------------------------------
(***************************************************************************)
(* Who makes a user or policy for c: c itself, in apply().                 *)
(***************************************************************************)
LEMMA UserMaker ==
  ASSUME TypeOK, KindInv, [Next]_vars, NEW c \in CRs, NEW u \in UserNames,
         users'[u].by = c, users[u].by # c
  PROVE  \E o \in Operators :
           /\ MoveKind(o, c) /\ c \in UserCRs /\ pc[o][c] = "createUser" /\ UserName(o, c) = u
           /\ ~users[u].exists
<1>0. users \in [UserNames -> UserRecords] /\ users[u] \in UserRecords /\ c # None
  BY NoneIsNoResource DEF TypeOK
<1>1. users' # users
  OBVIOUS
<1>2. ASSUME NEW v \in UserNames
      PROVE  ~DriftUser(v)
  <2>1. CASE u = v
    <3>1. ASSUME NEW e, NEW ps
          PROVE  ~SetUser(v, [users[v] EXCEPT !.enabled = e, !.policies = ps])
      BY <1>0, <2>1 DEF SetUser, UserRecords
    <3>2. ~SetUser(v, NoUser)
      BY <1>0, <2>1 DEF SetUser, NoUser
    <3>3. ASSUME NEW w
          PROVE  ~SetUser(v, [NoUser EXCEPT !.exists = TRUE, !.password = w, !.enabled = TRUE])
      BY <1>0, <2>1 DEF SetUser, NoUser
    <3> QED
      BY <3>1, <3>2, <3>3 DEF DriftUser
  <2>2. CASE u # v
    BY <1>0, <2>2 DEF DriftUser, SetUser
  <2> QED
    BY <2>1, <2>2
<1>3. ~OthersKind
  BY <1>1, <1>2 DEF OthersKind, SameServer, DriftPolicy, SetPolicy
<1>4. PICK o \in Operators, d \in CRs : MoveKind(o, d) /\ WritesUser(o, d)
  BY <1>1, <1>3, Kinds
  DEF OwnKind, ControllerKind, SameServer, MoveKind, Served, WritesPolicy, SetPolicy, vars
<1>5. PICK uu :
        /\ SetUser(UserName(o, d), uu)
        /\ UserWritten(pc[o][d], d, obj[o][d].spec, seen[o][d], RemoteUser(o, d), uu)
  BY <1>4 DEF WritesUser
<1>6. UserName(o, d) = u
  BY <1>0, <1>5 DEF SetUser
<1>7. users'[u] = uu /\ RemoteUser(o, d) = users[u] /\ d \in UserCRs /\ pc[o][d] \in UserCalls
  BY <1>0, <1>4, <1>5, <1>6 DEF SetUser, RemoteUser, WritesUser
<1>8. pc[o][d] = "createUser" /\ ~users[u].exists
  BY <1>0, <1>5, <1>7 DEF UserWritten, UserCalls, UserRecords, NoUser
<1>9. uu.by = d
  BY <1>5, <1>7, <1>8 DEF UserWritten
<1> QED
  BY <1>4, <1>6, <1>7, <1>8, <1>9

\* Who makes a policy its own.
LEMMA PolicyMaker ==
  ASSUME TypeOK, KindInv, [Next]_vars, NEW c \in CRs, NEW p \in PolicyNames,
         policies'[p].by = c, policies[p].by # c
  PROVE  \E o \in Operators :
           /\ MoveKind(o, c) /\ c \in PolicyCRs /\ pc[o][c] = "putPolicy"
           /\ PolicyName(o, c) = p /\ policies[p].document = None
<1>0. /\ policies \in [PolicyNames -> PolicyRecords] /\ policies[p] \in PolicyRecords
      /\ c # None
  BY NoneIsNoResource DEF TypeOK
<1>1. policies' # policies
  OBVIOUS
<1>2. ASSUME NEW q \in PolicyNames
      PROVE  ~DriftPolicy(q)
  <2>1. CASE p = q
    <3>1. ASSUME NEW e
          PROVE  ~SetPolicy(q, [policies[q] EXCEPT !.document = e])
      BY <1>0, <2>1 DEF SetPolicy, PolicyRecords
    <3>2. ~SetPolicy(q, NoPolicy)
      BY <1>0, <2>1 DEF SetPolicy, NoPolicy
    <3> QED
      BY <3>1, <3>2 DEF DriftPolicy
  <2>2. CASE p # q
    BY <1>0, <2>2 DEF DriftPolicy, SetPolicy
  <2> QED
    BY <2>1, <2>2
<1>3. ~OthersKind
  BY <1>1, <1>2 DEF OthersKind, SameServer, DriftUser, SetUser
<1>4. PICK o \in Operators, d \in CRs : MoveKind(o, d) /\ WritesPolicy(o, d)
  BY <1>1, <1>3, Kinds
  DEF OwnKind, ControllerKind, SameServer, MoveKind, Served, WritesUser, SetUser, vars
<1>5. PICK pp :
        /\ SetPolicy(PolicyName(o, d), pp)
        /\ PolicyWritten(pc[o][d], d, obj[o][d].spec, policies[PolicyName(o, d)], pp)
  BY <1>4 DEF WritesPolicy
<1>6. PolicyName(o, d) = p
  BY <1>0, <1>5 DEF SetPolicy
<1>7. policies'[p] = pp /\ d \in PolicyCRs /\ pc[o][d] \in PolicyCalls
  BY <1>0, <1>4, <1>5, <1>6 DEF SetPolicy, WritesPolicy
<1>8. pc[o][d] = "putPolicy"
  BY <1>0, <1>5, <1>7 DEF PolicyWritten, PolicyCalls, NoPolicy
<1>9. pp.by = IF policies[p].document = None THEN d ELSE policies[p].by
  BY <1>5, <1>6, <1>8 DEF PolicyWritten
<1>10. policies[p].document = None /\ pp.by = d
  BY <1>7, <1>9
<1> QED
  BY <1>4, <1>6, <1>7, <1>8, <1>10

-----------------------------------------------------------------------------
UserOwned(c, u) == c \in UserCRs /\ Owned(c, u)

PolicyOwned(c, p) == c \in PolicyCRs /\ Owned(c, p)

OwnedInv ==
  Truthful \/ ~meddled =>
    \A c \in CRs :
      /\ \A u \in UserNames : users[u].by = c => UserOwned(c, u)
      /\ \A p \in PolicyNames : policies[p].by = c => PolicyOwned(c, p)

\* What a resource owns stays its own unless it is made to go.
LEMMA OwnedStays ==
  ASSUME SoleOperator, TypeOK, KindInv, SnapshotInv, [Next]_vars, Steady,
         Truthful \/ ~meddled', NEW c \in CRs, NEW n, Owned(c, n),
         /\ c \in UserCRs => users'[n] # NoUser
         /\ c \in PolicyCRs => policies'[n] # NoPolicy
  PROVE  Owned(c, n)'
<1>0. Typed(Steps) /\ ControllerSnapshotsOK(Steps)
  BY DEF TypeOK, Typed, SnapshotInv
<1>1. ASSUME NEW p \in Operators, pc'[p][c] = "removeFinalizer"
      PROVE  Kept(c)
  <2>1. CASE Reconcile(p, c)
    <3>1. Alike(obj[p][c], cr[c]) /\ cr[c].spec.name = n
      BY <1>1, <2>1, LeadsToRemoval DEF Owned
    <3>2. UserName(p, c) = n /\ PolicyName(p, c) = n
      BY <3>1 DEF Alike, UserName, PolicyName
    <3>3. obj[p][c].spec.deletion = "Retain"
      BY <1>1, <2>1, <3>2, KindsAssumption, LeadsToRemoval
    <3> QED
      BY <3>1, <3>3 DEF Kept, Alike
  <2>2. CASE Stays(p, c)
    BY <1>1, <2>2 DEF Stays, Owned
  <2> QED
    BY <1>1, <2>1, <2>2, Elsewhere DEF Still
<1> QED
  BY <1>0, <1>1, NextLeaves, NextCopies, StepsApart, OwnedKept

\* What apply() makes for a resource is its own.
LEMMA OwnedNew ==
  ASSUME SoleOperator, TypeOK, KindInv, SnapshotInv, IdentityInv(Steps),
         NEW o \in Operators, NEW c \in CRs, MoveKind(o, c), pc[o][c] \in Steps,
         NEW n, n = obj[o][c].spec.name
  PROVE  Owned(c, n)'
<1>0. /\ Typed(Steps) /\ ControllerSnapshotsOK(Steps)
      /\ pc \in [Operators -> [CRs -> Steps \union ResourceSteps]]
  BY DEF TypeOK, Typed, SnapshotInv, ControllerTypeOK, RuntimeTypeOK
<1>1. \/ \E m : Onward(Steps, pc[o][c], m) /\ Proceed(o, c, m)
      \/ Fail(o, c, "retry") \/ Fail(o, c, "config")
      \/ \E e : CleanupFails(o, c, e)
  BY DEF MoveKind, Moves
<1>2. ASSUME NEW m, Onward(Steps, pc[o][c], m), Proceed(o, c, m)
      PROVE  pc'[o][c] \notin CleanupSteps
  BY <1>0, <1>2 DEF Onward, Proceed, Goto, Steps, CleanupSteps
<1>3. (\E e : CleanupFails(o, c, e) \/ Fail(o, c, e)) => pc'[o][c] \notin CleanupSteps
  BY <1>0 DEF CleanupFails, Finish, Fail, Goto, CleanupSteps
<1>4. cr' = cr /\ cache' = cache
  BY <1>1 DEF CleanupFails, Finish, Fail, Proceed, Goto
<1>5. pc[o][c] \in ApplyLabels(Steps)
  BY DEF ApplyLabels
<1> QED
  BY <1>0, <1>1, <1>2, <1>3, <1>4, <1>5, StepsApart, OwnedMade

\* A user or policy stays in the hands of its resource.
LEMMA OwnedStep ==
  SoleOperator /\ TypeOK /\ KindInv /\ SnapshotInv /\ IdentityInv(Steps) /\ OwnedInv
    /\ [Next]_vars /\ Steady => OwnedInv'
<1> SUFFICES ASSUME SoleOperator, TypeOK, KindInv, SnapshotInv, IdentityInv(Steps), OwnedInv,
                    [Next]_vars, Steady, Truthful \/ ~meddled', NEW c \in CRs
             PROVE  /\ \A u \in UserNames : users'[u].by = c => UserOwned(c, u)'
                    /\ \A p \in PolicyNames : policies'[p].by = c => PolicyOwned(c, p)'
  BY DEF OwnedInv
<1>0. (Truthful \/ ~meddled) /\ c # None /\ UserCRs \intersect PolicyCRs = {}
  BY MeddledStays, NoneIsNoResource, KindsAssumption
<1>1. ASSUME NEW u \in UserNames, users'[u].by = c
      PROVE  UserOwned(c, u)'
  <2>1. CASE users[u].by = c
    <3>1. c \in UserCRs /\ Owned(c, u)
      BY <1>0, <2>1 DEF OwnedInv, UserOwned
    <3>2. users'[u] # NoUser
      BY <1>0, <1>1 DEF NoUser
    <3>3. Owned(c, u)'
      BY <1>0, <3>1, <3>2, OwnedStays
    <3> QED
      BY <3>1, <3>3 DEF UserOwned
  <2>2. CASE users[u].by # c
    <3>1. PICK o \in Operators :
            /\ MoveKind(o, c) /\ c \in UserCRs /\ pc[o][c] = "createUser"
            /\ UserName(o, c) = u
      BY <1>1, <2>2, UserMaker
    <3>2. Owned(c, u)'
      BY <3>1, OwnedNew DEF Steps, UserName
    <3> QED
      BY <3>1, <3>2 DEF UserOwned
  <2> QED
    BY <2>1, <2>2
<1>2. ASSUME NEW p \in PolicyNames, policies'[p].by = c
      PROVE  PolicyOwned(c, p)'
  <2>1. CASE policies[p].by = c
    <3>1. c \in PolicyCRs /\ Owned(c, p)
      BY <1>0, <2>1 DEF OwnedInv, PolicyOwned
    <3>2. policies'[p] # NoPolicy
      BY <1>0, <1>2 DEF NoPolicy
    <3>3. Owned(c, p)'
      BY <1>0, <3>1, <3>2, OwnedStays
    <3> QED
      BY <3>1, <3>3 DEF PolicyOwned
  <2>2. CASE policies[p].by # c
    <3>1. PICK o \in Operators :
            /\ MoveKind(o, c) /\ c \in PolicyCRs /\ pc[o][c] = "putPolicy"
            /\ PolicyName(o, c) = p
      BY <1>2, <2>2, PolicyMaker
    <3>2. Owned(c, p)'
      BY <3>1, OwnedNew DEF Steps, PolicyName
    <3> QED
      BY <3>1, <3>2 DEF PolicyOwned
  <2> QED
    BY <2>1, <2>2
<1> QED
  BY <1>1, <1>2

\* It does so in every state.
LEMMA OwnedCorrect ==
  SoleOperator /\ SafetySpec /\ [][Steady]_vars => [](IdentityInv(Steps) /\ OwnedInv)
<1> SUFFICES ASSUME SoleOperator
             PROVE  SafetySpec /\ [][Steady]_vars => [](IdentityInv(Steps) /\ OwnedInv)
  OBVIOUS
<1>1. Init => IdentityInv(Steps) /\ OwnedInv
  BY StepsApart, InitIdentity, NoneIsNoResource
  DEF Init, ServerInit, OwnedInv, NoUser, NoPolicy
<1>2. UNCHANGED vars => Steady
  BY DEF vars, controllerVars, Steady, Alike
<1> QED
  BY <1>1, <1>2, IdentityStep, OwnedStep, TypedAndKind, SnapshotsCorrect, PTL DEF SafetySpec

(***************************************************************************)
(* As long as one operator runs, users leave the name and the deletion     *)
(* policy of their resources alone, and the server calls nothing missing   *)
(* that it has: a resource that is gone with deletionPolicy Delete has     *)
(* taken along the user or policy created for it, whatever other tools do. *)
(***************************************************************************)
THEOREM GoneCorrect ==
  SoleOperator /\ Truthful /\ SafetySpec /\ [][Steady]_vars => []GoneMeansRemoved
<1> SUFFICES ASSUME SoleOperator, Truthful
             PROVE  SafetySpec /\ [][Steady]_vars => []GoneMeansRemoved
  OBVIOUS
<1>1. SnapshotInv /\ OwnedInv => GoneMeansRemoved
  <2> SUFFICES ASSUME SnapshotInv, OwnedInv,
                      NEW c \in CRs, ~Exists(cr[c]), cr[c].spec.deletion = "Delete"
               PROVE  \A n : ~Owned(c, n)
    BY DEF GoneMeansRemoved, OwnedInv, UserOwned, PolicyOwned
  <2>1. ~cr[c].finalizer
    BY DEF SnapshotInv, ControllerSnapshotsOK, SnapshotsOK, ServerOK, Exists
  <2> QED
    BY <2>1 DEF Owned, Kept
<1> QED
  BY <1>1, SnapshotsCorrect, OwnedCorrect, PTL

-----------------------------------------------------------------------------
(***************************************************************************)
(* The refinement.  A user or policy is claimed by the resource that names *)
(* it, or did and left it there; no two resources of a kind claim one.     *)
(***************************************************************************)
Claimed(c, n) == Names(c, n) \/ (Holds(c) /\ cr[c].spec.name = n)

Distinct ==
  /\ \A c, d \in UserCRs, u \in UserNames : Claimed(c, u) /\ Claimed(d, u) => c = d
  /\ \A c, d \in PolicyCRs, p \in PolicyNames : Claimed(c, p) /\ Claimed(d, p) => c = d

Abs == INSTANCE ManagedProofs WITH state <- Managing, meddled <- meddled

Fits(c) == Exists(cr[c]) /\ Declared(c)

(***************************************************************************)
(* The remote object named n of the kind c is of.                          *)
(***************************************************************************)
NamesOf(c) == IF c \in UserCRs THEN UserNames ELSE PolicyNames

Thing(c, n, us, ps) == IF c \in UserCRs THEN us[n] ELSE ps[n]

Present(c, x) == IF c \in UserCRs THEN x.exists ELSE x.document # None

SameKind(c, d) == c \in UserCRs <=> d \in UserCRs

\* What it declares is told by that object.
LEMMA HasThing ==
  ASSUME NEW c, NEW s, NEW us, NEW ps, NEW us2, NEW ps2,
         Thing(c, s.name, us, ps) = Thing(c, s.name, us2, ps2)
  PROVE  Has(c, s, us, ps) <=> Has(c, s, us2, ps2)
BY DEF Has, Thing, UserDeclared, PolicyDeclared

\* Who made an object made one that is there.
MadeInv ==
  /\ \A u \in UserNames : users[u].by # None => users[u].exists
  /\ \A p \in PolicyNames : policies[p].by # None => policies[p].document # None

\* It stays so.
LEMMA MadeStep == TypeOK /\ KindInv /\ MadeInv /\ [Next]_vars => MadeInv'
<1> SUFFICES ASSUME TypeOK, KindInv, MadeInv, [Next]_vars
             PROVE  MadeInv'
  OBVIOUS
<1>0. users \in [UserNames -> UserRecords] /\ policies \in [PolicyNames -> PolicyRecords]
  BY DEF TypeOK
<1>1. ASSUME NEW u \in UserNames, NEW x, SetUser(u, x), x.by # None => x.exists
      PROVE  MadeInv'
  BY <1>0, <1>1 DEF MadeInv, SetUser
<1>2. ASSUME NEW p \in PolicyNames, NEW x, SetPolicy(p, x), x.by # None => x.document # None
      PROVE  MadeInv'
  BY <1>0, <1>2 DEF MadeInv, SetPolicy
<1>3. ASSUME NEW o \in Operators, NEW c \in CRs, WritesUser(o, c)
      PROVE  MadeInv'
  <2>1. UserName(o, c) \in UserNames
    BY <1>3, SnapshotKind DEF WritesUser, UserCalls, Steps
  <2>2. RemoteUser(o, c) \in UserRecords /\ (RemoteUser(o, c).by # None => RemoteUser(o, c).exists)
    BY <1>0, <2>1 DEF RemoteUser, MadeInv
  <2>3. PICK uu :
          /\ SetUser(UserName(o, c), uu)
          /\ UserWritten(pc[o][c], c, obj[o][c].spec, seen[o][c], RemoteUser(o, c), uu)
    BY <1>3 DEF WritesUser
  <2>4. uu.by # None => uu.exists
    BY <1>3, <2>2, <2>3 DEF WritesUser, UserWritten, UserCalls, UserRecords, NoUser
  <2> QED
    BY <1>1, <2>1, <2>3, <2>4
<1>4. ASSUME NEW o \in Operators, NEW c \in CRs, WritesPolicy(o, c)
      PROVE  MadeInv'
  <2>1. PolicyName(o, c) \in PolicyNames /\ obj[o][c].spec \in PolicySpecRecords
    BY <1>4, SnapshotKind DEF WritesPolicy, PolicyCalls, Steps
  <2>2. obj[o][c].spec.document # None
    BY <2>1, NoneIsNoDocument DEF PolicySpecRecords
  <2>3. PICK pp :
          /\ SetPolicy(PolicyName(o, c), pp)
          /\ PolicyWritten(pc[o][c], c, obj[o][c].spec, policies[PolicyName(o, c)], pp)
    BY <1>4 DEF WritesPolicy
  <2>4. pp.by # None => pp.document # None
    BY <1>4, <2>2, <2>3 DEF WritesPolicy, PolicyWritten, PolicyCalls, NoPolicy
  <2> QED
    BY <1>2, <2>1, <2>3, <2>4
<1>5. ASSUME NEW u \in UserNames, DriftUser(u)
      PROVE  MadeInv'
  <2>1. ASSUME NEW w
        PROVE  [NoUser EXCEPT !.exists = TRUE, !.password = w, !.enabled = TRUE].by = None
    BY DEF NoUser
  <2>2. ASSUME NEW e, NEW ps, users[u].exists
        PROVE  [users[u] EXCEPT !.enabled = e, !.policies = ps].exists
    BY <1>0, <2>2 DEF UserRecords
  <2>3. NoUser.by = None
    BY DEF NoUser
  <2> QED
    BY <1>1, <1>5, <2>1, <2>2, <2>3 DEF DriftUser
<1>6. ASSUME NEW p \in PolicyNames, DriftPolicy(p)
      PROVE  MadeInv'
  <2>1. ASSUME NEW d \in Documents
        PROVE  [policies[p] EXCEPT !.document = d].document # None
    BY <1>0, <2>1, NoneIsNoDocument DEF PolicyRecords
  <2>2. NoPolicy.by = None
    BY DEF NoPolicy
  <2> QED
    BY <1>2, <1>6, <2>1, <2>2 DEF DriftPolicy
<1>7. SameServer => MadeInv'
  BY DEF MadeInv, SameServer
<1> QED
  BY <1>3, <1>4, <1>5, <1>6, <1>7, Kinds
  DEF OwnKind, ControllerKind, MoveKind, Served, OthersKind, SameServer, vars

(***************************************************************************)
(* What holds before and after every step.                                 *)
(***************************************************************************)
AllInv ==
  /\ TypeOK /\ KindInv /\ SnapshotInv /\ UserProgressInv /\ IdentityInv(Steps) /\ MadeInv
  /\ OwnedInv /\ ReadyMeansDeclared /\ Distinct

\* What was made for a resource is of its kind.
LEMMA RemoteIs ==
  AllInv /\ ~meddled =>
    \A c \in CRs : Remote(c) <=> \E n \in NamesOf(c) : Thing(c, n, users, policies).by = c
<1> SUFFICES ASSUME AllInv, ~meddled, NEW c \in CRs
             PROVE  Remote(c) <=> \E n \in NamesOf(c) : Thing(c, n, users, policies).by = c
  OBVIOUS
<1>1. /\ \A u \in UserNames : users[u].by = c => c \in UserCRs
      /\ \A p \in PolicyNames : policies[p].by = c => c \notin UserCRs
  BY KindsAssumption DEF AllInv, OwnedInv, UserOwned, PolicyOwned
<1>2. CASE c \in UserCRs
  BY <1>1, <1>2 DEF Remote, NamesOf, Thing
<1>3. CASE c \notin UserCRs
  BY <1>1, <1>3 DEF Remote, NamesOf, Thing
<1> QED
  BY <1>2, <1>3

\* Still after a step.
LEMMA RemoteIsNext ==
  AllInv' /\ ~meddled' =>
    \A c \in CRs : Remote(c)' <=> \E n \in NamesOf(c) : Thing(c, n, users', policies').by = c
<1>1. (AllInv /\ ~meddled)' =>
        (\A c \in CRs : Remote(c) <=> \E n \in NamesOf(c) : Thing(c, n, users, policies).by = c)'
  BY RemoteIs, PTL
<1> QED
  BY <1>1 DEF NamesOf, Thing

\* Whoever has a user or policy claims it.
LEMMA OwnerClaims ==
  ASSUME AllInv, ~meddled, NEW c \in CRs, NEW n \in NamesOf(c),
         Thing(c, n, users, policies).by = c
  PROVE  Owned(c, n) /\ Claimed(c, n)
<1>1. Owned(c, n)
  BY DEF AllInv, OwnedInv, UserOwned, PolicyOwned, NamesOf, Thing
<1>2. ServerOK(cr[c])
  BY DEF AllInv, SnapshotInv, ControllerSnapshotsOK, SnapshotsOK
<1> QED
  BY <1>1, <1>2 DEF Owned, Claimed, Holds, ServerOK, Exists

\* Two resources of a kind that claim one name are one.
LEMMA ClaimedOnce ==
  ASSUME Distinct, NEW c \in CRs, NEW d \in CRs, SameKind(c, d), NEW n \in NamesOf(c),
         Claimed(c, n), Claimed(d, n)
  PROVE  c = d
BY KindsAssumption DEF Distinct, SameKind, NamesOf

(***************************************************************************)
(* A call of the reconciliation of c at o writes the object named n, x,    *)
(* and makes y of it: it makes, changes or deletes it.                     *)
(***************************************************************************)
Creating(c, l, x, y) == l \in Steps /\ ~Present(c, x) /\ y.by = c

Changing(l, x, y) == l \in Steps /\ y.by = x.by

Deleting(l, y) == l = "delete" /\ y.by = None

Handled(c, l, x, y) == Creating(c, l, x, y) \/ Changing(l, x, y) \/ Deleting(l, y)

Writing(o, c, n) ==
  /\ MoveKind(o, c) /\ (WritesUser(o, c) \/ WritesPolicy(o, c))
  /\ n \in NamesOf(c) /\ n = obj[o][c].spec.name
  /\ \A d \in CRs : \A m \in NamesOf(d) :
       (SameKind(c, d) => m # n)
         => Thing(d, m, users', policies') = Thing(d, m, users, policies)
  /\ Handled(c, pc[o][c], Thing(c, n, users, policies), Thing(c, n, users', policies'))

\* A call that writes a user handles it in one of these ways,
LEMMA UserHandled ==
  ASSUME AllInv, ~meddled, NEW o \in Operators, NEW c \in CRs, MoveKind(o, c),
         WritesUser(o, c)
  PROVE  Writing(o, c, obj[o][c].spec.name)
<1> DEFINE n == obj[o][c].spec.name
           x == users[n]
<1>0. /\ users \in [UserNames -> UserRecords] /\ c \in UserCRs
      /\ n \in UserNames /\ n = UserName(o, c)
  BY SnapshotKind DEF AllInv, TypeOK, WritesUser, UserCalls, Steps, UserName
<1>1. PICK uu :
        /\ SetUser(n, uu)
        /\ UserWritten(pc[o][c], c, obj[o][c].spec, seen[o][c], x, uu)
  BY DEF WritesUser, UserName, RemoteUser
<1>2. ASSUME NEW d \in CRs, NEW m \in NamesOf(d), SameKind(c, d) => m # n
      PROVE  Thing(d, m, users', policies') = Thing(d, m, users, policies)
  BY <1>0, <1>1, <1>2 DEF SetUser, Thing, NamesOf, SameKind
<1>3. Thing(c, n, users, policies) = x /\ Thing(c, n, users', policies') = uu
  BY <1>0, <1>1 DEF SetUser, Thing
<1>4. x \in UserRecords /\ (pc[o][c] = "createUser" => ~x.exists)
  BY <1>0 DEF AllInv, UserProgressInv, UserProgress, UserEstablished, RemoteUser
<1>5. Handled(c, pc[o][c], x, uu)
  <2>1. CASE pc[o][c] = "createUser"
    BY <1>0, <1>1, <1>4, <2>1 DEF UserWritten, Handled, Creating, Present, Steps
  <2>2. CASE pc[o][c] = "setStatus" \/ pc[o][c] = "setPolicies"
    BY <1>1, <1>4, <2>2 DEF UserWritten, Handled, Changing, UserRecords, Steps
  <2>3. CASE pc[o][c] = "delete"
    BY <1>1, <2>3 DEF UserWritten, Handled, Deleting, NoUser
  <2> QED
    BY <2>1, <2>2, <2>3 DEF WritesUser, UserCalls
<1> QED
  BY <1>0, <1>2, <1>3, <1>5 DEF Writing, NamesOf

\* and so does one that writes a policy.
LEMMA PolicyHandled ==
  ASSUME AllInv, NEW o \in Operators, NEW c \in CRs, MoveKind(o, c), WritesPolicy(o, c)
  PROVE  Writing(o, c, obj[o][c].spec.name)
<1> DEFINE n == obj[o][c].spec.name
           x == policies[n]
<1>0. /\ policies \in [PolicyNames -> PolicyRecords] /\ c \notin UserCRs
      /\ n \in PolicyNames /\ n = PolicyName(o, c)
  BY SnapshotKind, KindsAssumption
  DEF AllInv, TypeOK, WritesPolicy, PolicyCalls, Steps, PolicyName
<1>1. PICK pp :
        /\ SetPolicy(n, pp)
        /\ PolicyWritten(pc[o][c], c, obj[o][c].spec, x, pp)
  BY DEF WritesPolicy, PolicyName
<1>2. ASSUME NEW d \in CRs, NEW m \in NamesOf(d), SameKind(c, d) => m # n
      PROVE  Thing(d, m, users', policies') = Thing(d, m, users, policies)
  BY <1>0, <1>1, <1>2 DEF SetPolicy, Thing, NamesOf, SameKind
<1>3. Thing(c, n, users, policies) = x /\ Thing(c, n, users', policies') = pp
  BY <1>0, <1>1 DEF SetPolicy, Thing
<1>4. Handled(c, pc[o][c], x, pp)
  <2>1. CASE pc[o][c] = "putPolicy" /\ x.document = None
    BY <1>0, <1>1, <2>1 DEF PolicyWritten, Handled, Creating, Present, Steps
  <2>2. CASE pc[o][c] = "putPolicy" /\ x.document # None
    BY <1>1, <2>2 DEF PolicyWritten, Handled, Changing, Steps
  <2>3. CASE pc[o][c] = "delete"
    BY <1>1, <2>3 DEF PolicyWritten, Handled, Deleting, NoPolicy
  <2> QED
    BY <2>1, <2>2, <2>3 DEF WritesPolicy, PolicyCalls
<1> QED
  BY <1>0, <1>2, <1>3, <1>4 DEF Writing, NamesOf

-----------------------------------------------------------------------------
\* ManagedProofs speaks of the specification that is implemented.
LEMMA SameAbstract ==
  /\ Abs!Init <=> Resources!Init
  /\ Abs!Next <=> Resources!Next
  /\ [Abs!Next]_(Abs!vars) <=> [Resources!Next]_(Resources!vars)
BY DEF Abs!Init, Abs!vars, Resources!Init, Abs!Next, Resources!Next, Resources!vars,
  Abs!Ask, Resources!Ask, Abs!Edit, Resources!Edit, Abs!Drop, Resources!Drop,
  Abs!Make, Resources!Make, Abs!Adjust, Resources!Adjust, Abs!Acknowledge, Resources!Acknowledge,
  Abs!Retract, Resources!Retract, Abs!Remove, Resources!Remove, Abs!Release, Resources!Release,
  Abs!Meddle, Resources!Meddle, Abs!Becomes, Resources!Becomes, Abs!MayLeave, Resources!MayLeave,
  Abs!Pending, Resources!Pending

\* The fields of a resource as ManagedResources has it.
LEMMA ManagedFields ==
  ASSUME NEW c \in CRs
  PROVE  /\ Managing[c].request = Request(c) /\ Managing[c].keep = Kept(c)
         /\ Managing[c].ready = Ready(c) /\ Managing[c].fits = Fits(c)
         /\ Managing[c].remote = Remote(c)
BY DEF Managing, AsManaged, Fits

\* The fields after a step.
LEMMA ManagedFieldsNext ==
  ASSUME NEW c \in CRs
  PROVE  /\ Managing'[c].request = Request(c)' /\ Managing'[c].keep = Kept(c)'
         /\ Managing'[c].ready = Ready(c)' /\ Managing'[c].fits = Fits(c)'
         /\ Managing'[c].remote = Remote(c)'
BY DEF Managing, AsManaged, Fits

\* They have their types.
LEMMA ManagedTyped == TypeOK => Abs!TypeOK
<1>1. ASSUME TypeOK, NEW c \in CRs
      PROVE  AsManaged(c, Fits(c), Remote(c)) \in Abs!States
  <2>1. Request(c) \in {"none", "wanted", "dying"}
    BY <1>1, RequestIs DEF TypeOK, ControllerTypeOK, RuntimeTypeOK, Objects, Phases
  <2>2. Declared(c) \in BOOLEAN
    BY DEF Declared
  <2>3. Kept(c) \in BOOLEAN /\ Ready(c) \in BOOLEAN /\ Fits(c) \in BOOLEAN
        /\ Remote(c) \in BOOLEAN
    BY <2>2 DEF Kept, Ready, Fits, Remote, Exists
  <2> QED
    BY <2>1, <2>3 DEF AsManaged, Abs!States
<1>2. TypeOK => meddled \in BOOLEAN
  BY DEF TypeOK, ControllerTypeOK
<1>3. Managing = [c \in CRs |-> AsManaged(c, Fits(c), Remote(c))]
  BY DEF Managing, Fits
<1> QED
  BY <1>1, <1>2, <1>3 DEF Abs!TypeOK

\* After a step, too.
LEMMA ManagedTypedNext == TypeOK' => Abs!TypeOK'
BY ManagedTyped, PTL

\* A resource nobody writes, and a server that has of it what it had.
LEMMA SameManaged ==
  ASSUME NEW d \in CRs, cr'[d] = cr[d], Remote(d)' = Remote(d), Fits(d)' = Fits(d)
  PROVE  Managing'[d] = Managing[d]
<1>1. Request(d)' = Request(d) /\ Kept(d)' = Kept(d) /\ Ready(d)' = Ready(d)
  BY DEF Request, Kept, Ready, Exists
<1> QED
  BY <1>1 DEF Managing, AsManaged, Fits

\* Interference concerns the server only.
LEMMA Meddling ==
  ASSUME TypeOK, TypeOK', cr' = cr, meddled' = TRUE
  PROVE  Abs!Next
<1>1. \A c \in CRs : Request(c)' = Request(c) /\ Kept(c)' = Kept(c) /\ Ready(c)' = Ready(c)
  BY DEF Request, Kept, Ready, Exists
<1>2. Abs!TypeOK /\ Abs!TypeOK'
  BY ManagedTyped, ManagedTypedNext
<1> QED
  BY <1>1, <1>2, ManagedFields, ManagedFieldsNext, Abs!MeddlingSteps DEF Abs!Unasked

\* A resource that exists asks for something.
LEMMA ExistsAsks ==
  ASSUME TypeOK, NEW c \in CRs
  PROVE  Exists(cr[c]) <=> Request(c) # "none"
BY RequestIs DEF TypeOK, ControllerTypeOK, RuntimeTypeOK, Objects, Phases, Exists

\* Still after a step.
LEMMA ExistsAsksNext ==
  ASSUME TypeOK', NEW c \in CRs
  PROVE  Exists(cr'[c]) <=> Request(c)' # "none"
BY RequestBecomes DEF TypeOK, ControllerTypeOK, RuntimeTypeOK, Objects, Phases, Exists
\* An apply() works for a resource that exists and has the same name in its spec.
LEMMA ApplyNames ==
  ASSUME AllInv, NEW o \in Operators, NEW c \in CRs, pc[o][c] \in ApplyLabels(Steps)
  PROVE  Exists(cr[c]) /\ cr[c].spec.name = obj[o][c].spec.name
<1>1. /\ ServerOK(cr[c]) /\ Identical(Steps, o, c)
      /\ RunOK(pc[o][c], obj[o][c], cache[o][c], cr[c], ApplyLabels(Steps), CleanupSteps)
  BY DEF AllInv, SnapshotInv, ControllerSnapshotsOK, SnapshotsOK, ApplyLabels, IdentityInv
<1> QED
  BY <1>1 DEF ServerOK, RunOK, Identical, Alike, AllSteps, Exists

\* The name of a resource that exists is one of its kind.
LEMMA NameTyped ==
  ASSUME AllInv, NEW c \in CRs, Exists(cr[c])
  PROVE  cr[c].spec.name \in NamesOf(c)
<1>1. cr[c].spec \in SpecsOf(c)
  BY DEF AllInv, KindInv
<1> QED
  BY <1>1, SpecsAssumption DEF SpecsOf, NamesOf, UserSpecRecords, PolicySpecRecords

\* What a step makes of Fits.
LEMMA FitsNext ==
  ASSUME NEW c \in CRs, cr'[c] = cr[c],
         Exists(cr[c]) => Thing(c, cr[c].spec.name, users', policies')
                            = Thing(c, cr[c].spec.name, users, policies)
  PROVE  Fits(c)' = Fits(c)
<1>1. Declared(c)' <=> Has(c, cr'[c].spec, users', policies')
  BY DEF Declared, Has, UserDeclared, PolicyDeclared
<1>2. Declared(c) <=> Has(c, cr[c].spec, users, policies)
  BY DeclaredIs
<1>3. Exists(cr[c]) => (Declared(c)' <=> Declared(c))
  BY <1>1, <1>2, HasThing
<1> QED
  BY <1>3 DEF Fits, Exists

\* A call of a reconciliation of c changes nothing for another resource.
LEMMA OthersUnconcerned ==
  ASSUME AllInv, AllInv', ~meddled, ~meddled', NEW o \in Operators, NEW c \in CRs, NEW n,
         Writing(o, c, n), cr' = cr, NEW d \in CRs, d # c
  PROVE  Managing'[d] = Managing[d]
<1>0. n \in NamesOf(c) /\ d # None
  BY NoneIsNoResource DEF Writing
<1>1. Claimed(c, n)
  BY DEF Claimed, Names, Writing, Handled, Creating, Changing, Deleting, Steps
<1>2. SameKind(c, d) => ~Claimed(d, n) /\ n \in NamesOf(d)
  <2>1. SameKind(c, d) => NamesOf(d) = NamesOf(c)
    BY DEF SameKind, NamesOf
  <2> QED
    BY <1>0, <1>1, <2>1, ClaimedOnce DEF AllInv
<1>3. ASSUME SameKind(c, d)
      PROVE  /\ Thing(d, n, users, policies).by # d
             /\ Thing(d, n, users', policies').by # d
  <2>1. Thing(d, n, users, policies).by # d
    BY <1>2, <1>3, OwnerClaims
  <2>2. /\ Thing(d, n, users, policies) = Thing(c, n, users, policies)
        /\ Thing(d, n, users', policies') = Thing(c, n, users', policies')
    BY <1>3 DEF SameKind, Thing
  <2>3. \A l, x, y : Handled(c, l, x, y) /\ x.by # d => y.by # d
    BY <1>0 DEF Handled, Creating, Changing, Deleting
  <2> QED
    BY <2>1, <2>2, <2>3 DEF Writing
<1>4. \A m \in NamesOf(d) : (SameKind(c, d) => m # n)
        => Thing(d, m, users', policies') = Thing(d, m, users, policies)
  BY DEF Writing
<1>5. Remote(d)' = Remote(d)
  <2>1. \A m \in NamesOf(d) : Thing(d, m, users', policies').by = d
                                <=> Thing(d, m, users, policies).by = d
    BY <1>3, <1>4
  <2>2. Remote(d)' <=> Remote(d)
    BY <2>1, RemoteIs, RemoteIsNext
  <2> QED
    BY <2>2 DEF Remote
<1>6. Exists(cr[d]) => Thing(d, cr[d].spec.name, users', policies')
                         = Thing(d, cr[d].spec.name, users, policies)
  <2>1. Exists(cr[d]) => cr[d].spec.name \in NamesOf(d) /\ Claimed(d, cr[d].spec.name)
    BY NameTyped DEF Claimed, Names
  <2> QED
    BY <1>2, <1>4, <2>1
<1> QED
  BY <1>5, <1>6, FitsNext, SameManaged

\* What a call of a reconciliation of c leaves of the other objects c may have.
LEMMA RemoteOf ==
  ASSUME AllInv, AllInv', ~meddled, ~meddled', NEW o \in Operators, NEW c \in CRs, NEW n,
         Writing(o, c, n)
  PROVE  /\ Remote(c)  <=> \/ Thing(c, n, users, policies).by = c
                           \/ \E m \in NamesOf(c) \ {n} : Thing(c, m, users, policies).by = c
         /\ Remote(c)' <=> \/ Thing(c, n, users', policies').by = c
                           \/ \E m \in NamesOf(c) \ {n} : Thing(c, m, users, policies).by = c
<1>1. n \in NamesOf(c)
  BY DEF Writing
<1>2. \A m \in NamesOf(c) \ {n} : Thing(c, m, users', policies') = Thing(c, m, users, policies)
  BY DEF Writing
<1> QED
  BY <1>1, <1>2, RemoteIs, RemoteIsNext

\* Its three kinds of call: making the object,
LEMMA CreationConcerns ==
  ASSUME AllInv, AllInv', ~meddled, ~meddled', NEW o \in Operators, NEW c \in CRs, NEW n,
         Writing(o, c, n), cr' = cr,
         Creating(c, pc[o][c], Thing(c, n, users, policies), Thing(c, n, users', policies'))
  PROVE  Abs!Made(Managing[c], Managing'[c])
<1>0. TypeOK /\ n \in NamesOf(c) /\ n = obj[o][c].spec.name /\ c # None
  BY NoneIsNoResource DEF AllInv, Writing
<1>1. Exists(cr[c]) /\ cr[c].spec.name = n
  BY <1>0, ApplyNames DEF ApplyLabels, Creating
<1>2. /\ ~Present(c, Thing(c, n, users, policies))
      /\ Thing(c, n, users', policies').by = c
  BY DEF Creating
<1>3. ~Ready(c)
  <2>1. ~Declared(c)
    BY <1>1, <1>2 DEF Declared, Present, Thing
  <2> QED
    BY <2>1 DEF AllInv, ReadyMeansDeclared
<1>4. ~Remote(c)
  <2>1. Thing(c, n, users, policies).by # c
    BY <1>0, <1>2 DEF AllInv, MadeInv, NamesOf, Thing, Present
  <2>2. ASSUME NEW m \in NamesOf(c), Thing(c, m, users, policies).by = c
        PROVE  m = n
    BY <1>1, <2>2, OwnerClaims DEF Owned
  <2> QED
    BY <2>1, <2>2, RemoteOf
<1>5. Remote(c)'
  BY <1>2, RemoteOf
<1>6. Request(c)' = Request(c) /\ Kept(c)' = Kept(c) /\ Ready(c)' = Ready(c)
  BY DEF Request, Kept, Ready, Exists
<1>7. Request(c) # "none"
  BY <1>0, <1>1, ExistsAsks
<1> QED
  BY <1>3, <1>4, <1>5, <1>6, <1>7, ManagedFields, ManagedFieldsNext
  DEF Abs!Made, Abs!Unasked, Abs!Unfinished

\* changing it,
LEMMA ChangeConcerns ==
  ASSUME AllInv, AllInv', ~meddled, ~meddled', NEW o \in Operators, NEW c \in CRs, NEW n,
         Writing(o, c, n), cr' = cr,
         Changing(pc[o][c], Thing(c, n, users, policies), Thing(c, n, users', policies'))
  PROVE  Abs!Concerned(Managing[c], Managing'[c])
<1>0. /\ TypeOK /\ KindInv /\ SnapshotInv /\ n = obj[o][c].spec.name
      /\ WritesUser(o, c) \/ WritesPolicy(o, c)
  BY DEF AllInv, Writing
<1>1. Exists(cr[c]) /\ cr[c].spec.name = n
  BY <1>0, ApplyNames DEF ApplyLabels, Changing
<1>2. Thing(c, n, users', policies').by = Thing(c, n, users, policies).by
  BY DEF Changing
<1>3. Remote(c)' = Remote(c)
  <2>1. Remote(c)' <=> Remote(c)
    BY <1>2, RemoteOf
  <2> QED
    BY <2>1 DEF Remote
<1>4. CASE Ready(c)
  <2>1. Declared(c) /\ Claims(cr[c])
    BY <1>4, ReadyClaims DEF AllInv, ReadyMeansDeclared
  <2>2. Has(c, cr[c].spec, users', policies')
    BY <1>0, <2>1, ReadyWrites
  <2>3. Declared(c)'
    BY <2>2 DEF Declared, Has, UserDeclared, PolicyDeclared
  <2>4. Fits(c)' = Fits(c)
    BY <1>1, <2>1, <2>3 DEF Fits, Declared
  <2> QED
    BY <1>3, <2>4, SameManaged DEF Abs!Concerned
<1>5. CASE ~Ready(c)
  <2>1. Request(c)' = Request(c) /\ Kept(c)' = Kept(c) /\ Ready(c)' = Ready(c)
    BY DEF Request, Kept, Ready, Exists
  <2>2. Request(c) # "none"
    BY <1>0, <1>1, ExistsAsks
  <2> QED
    BY <1>3, <1>5, <2>1, <2>2, ManagedFields, ManagedFieldsNext
    DEF Abs!Concerned, Abs!Adjusted, Abs!Unasked, Abs!Unfinished
<1> QED
  BY <1>4, <1>5

\* and deleting it.
LEMMA DeletionConcerns ==
  ASSUME AllInv, AllInv', ~meddled, ~meddled', NEW o \in Operators, NEW c \in CRs, NEW n,
         Writing(o, c, n), cr' = cr,
         Deleting(pc[o][c], Thing(c, n, users', policies'))
  PROVE  Abs!Concerned(Managing[c], Managing'[c])
<1> DEFINE x == Thing(c, n, users, policies)
<1>0. /\ TypeOK /\ n \in NamesOf(c) /\ n = obj[o][c].spec.name /\ c # None
      /\ cr[c] \in ApiObjects /\ cr[c].phase \in Phases
      /\ ServerOK(cr[c]) /\ Identical(Steps, o, c) /\ pc[o][c] = "delete"
      /\ RunOK(pc[o][c], obj[o][c], cache[o][c], cr[c], ApplyLabels(Steps), CleanupSteps)
  BY NoneIsNoResource
  DEF AllInv, TypeOK, ControllerTypeOK, RuntimeTypeOK, ApiObjects, Objects,
      SnapshotInv, ControllerSnapshotsOK, SnapshotsOK, ApplyLabels, IdentityInv,
      Writing, Deleting
<1>1. Thing(c, n, users', policies').by # c
  BY <1>0 DEF Deleting
<1>2. ~Held(cr[c]) /\ ~Ready(c)
  <2>1. ~Held(cr[c])
    BY <1>0 DEF RunOK, CleanupSteps
  <2> QED
    BY <1>0, <2>1, ReadyClaims, ClaimsHeld
<1>3. Request(c)' = Request(c) /\ Kept(c)' = Kept(c) /\ Ready(c)' = Ready(c)
  BY DEF Request, Kept, Ready, Exists
<1>4. CASE x.by = c
  <2>1. Owned(c, n)
    BY <1>0, <1>4, OwnerClaims
  <2>2. cr[c].finalizer /\ ~Kept(c)
    <3>1. Alike(obj[o][c], cr[c])
      BY <1>0, <2>1 DEF Owned, CleanupSteps
    <3>2. obj[o][c].spec.deletion = "Delete"
      BY <1>0 DEF Identical
    <3>3. ~Kept(c)
      BY <3>1, <3>2 DEF Kept, Alike
    <3> QED
      BY <2>1, <3>3 DEF Owned
  <2>3. Request(c) = "dying"
    BY <1>0, <1>2, <2>2, RequestIs DEF ServerOK, Held, Phases
  <2>4. Remote(c)
    BY <1>4, RemoteOf
  <2>5. ~Remote(c)'
    <3>1. ASSUME NEW m \in NamesOf(c) \ {n}
          PROVE  Thing(c, m, users, policies).by # c
      BY <2>1, <3>1, OwnerClaims DEF Owned
    <3> QED
      BY <1>1, <3>1, RemoteOf
  <2> QED
    BY <1>3, <2>2, <2>3, <2>4, <2>5, ManagedFields, ManagedFieldsNext
    DEF Abs!Concerned, Abs!Removed, Abs!Unasked
<1>5. CASE x.by # c
  <2>1. Remote(c)' = Remote(c)
    <3>1. Remote(c)' <=> Remote(c)
      BY <1>1, <1>5, RemoteOf
    <3> QED
      BY <3>1 DEF Remote
  <2>2. CASE Exists(cr[c])
    <3>1. Request(c) # "none"
      BY <1>0, <2>2, ExistsAsks
    <3> QED
      BY <1>2, <1>3, <2>1, <3>1, ManagedFields, ManagedFieldsNext
      DEF Abs!Concerned, Abs!Adjusted, Abs!Unasked, Abs!Unfinished
  <2>3. CASE ~Exists(cr[c])
    <3>1. Fits(c)' = Fits(c)
      BY <2>3 DEF Fits, Exists
    <3> QED
      BY <2>1, <3>1, SameManaged DEF Abs!Concerned
  <2> QED
    BY <2>2, <2>3
<1> QED
  BY <1>4, <1>5
\* A step that writes the resource leaves the server alone.
LEMMA CopyConcerns ==
  ASSUME AllInv, AllInv', UNCHANGED <<users, policies, meddled>>, NEW c \in CRs, Copies(c)
  PROVE  Abs!Concerned(Managing[c], Managing'[c])
<1>0. TypeOK /\ TypeOK'
  BY DEF AllInv
<1>1. Turns(c)
  BY <1>0, StepsApart, CopiesTurn DEF AllInv, TypeOK, Typed, SnapshotInv
<1>2. Remote(c)' = Remote(c)
  BY DEF Remote
<1>3. CASE Request(c) = "none" /\ Request(c)' = "wanted" /\ ~Ready(c)'
  BY <1>2, <1>3, ManagedFields, ManagedFieldsNext DEF Abs!Concerned, Abs!Asked
<1>4. CASE Request(c) # "none" /\ Request(c)' = Request(c) /\ ~Ready(c)'
  BY <1>2, <1>4, ManagedFields, ManagedFieldsNext DEF Abs!Concerned, Abs!Edited
<1>5. CASE cr'[c].spec = cr[c].spec
  <2>1. Kept(c)' = Kept(c) /\ Declared(c)' = Declared(c)
    BY <1>5 DEF Kept, Declared
  <2>2. /\ Fits(c) = (Request(c) # "none" /\ Declared(c))
        /\ Fits(c)' = (Request(c)' # "none" /\ Declared(c)')
    BY <1>0, ExistsAsks, ExistsAsksNext DEF Fits
  <2>3. ASSUME Remote(c), ~meddled
        PROVE  Owned(c, cr[c].spec.name)
    <3>1. \E n \in NamesOf(c) : Thing(c, n, users, policies).by = c
      BY <2>3, RemoteIs
    <3> QED
      BY <2>3, <3>1, OwnerClaims DEF Owned
  <2>4. CASE Request(c) = "wanted" /\ Request(c)' = "dying" /\ ~Ready(c)'
    BY <1>2, <2>1, <2>2, <2>4, ManagedFields, ManagedFieldsNext
    DEF Abs!Concerned, Abs!Dropped
  <2>5. CASE /\ Request(c) = "wanted" /\ Request(c)' = "none" /\ ~Ready(c)'
             /\ ~cr[c].finalizer
    <3>1. Remote(c) => Kept(c) \/ meddled
      BY <2>3, <2>5 DEF Owned
    <3>2. Fits(c)' = (Fits(c) /\ Request(c)' # "none")
      BY <2>2, <2>5
    <3> QED
      BY <1>2, <2>1, <2>5, <3>1, <3>2, ManagedFields, ManagedFieldsNext
      DEF Abs!Concerned, Abs!Dropped, Abs!Leaving
  <2>6. CASE /\ Request(c) = "dying" /\ Request(c)' = "none" /\ ~Ready(c) /\ ~Ready(c)'
             /\ \E o \in Operators : pc[o][c] = "removeFinalizer"
    <3>1. Remote(c) => Kept(c) \/ meddled
      BY <2>3, <2>6 DEF Owned
    <3>2. ~Fits(c)' /\ Ready(c)' = Ready(c)
      BY <2>2, <2>6 DEF Ready
    <3> QED
      BY <1>2, <2>1, <2>6, <3>1, <3>2, ManagedFields, ManagedFieldsNext
      DEF Abs!Concerned, Abs!Released, Abs!Leaving
  <2>7. CASE Request(c)' = Request(c) /\ (Ready(c)' => Request(c) = "wanted")
    <3>1. Fits(c)' = Fits(c)
      BY <2>1, <2>2, <2>7
    <3>2. Ready(c)' => Fits(c) \/ meddled
      <4>1. Ready(c)' /\ ~meddled => Declared(c)'
        BY DEF AllInv, ReadyMeansDeclared
      <4> QED
        BY <2>1, <2>2, <2>7, <4>1
    <3> QED
      BY <1>2, <2>1, <2>7, <3>1, <3>2, ManagedFields, ManagedFieldsNext
      DEF Abs!Concerned, Abs!Reported, Abs!Unasked
  <2> QED
    BY <1>1, <1>3, <1>4, <2>4, <2>5, <2>6, <2>7 DEF Turns
<1> QED
  BY <1>1, <1>3, <1>4, <1>5 DEF Turns

\* A step writes one resource, and leaves the server alone, or none.
LEMMA CopyOrServer ==
  ASSUME TypeOK, KindInv, [Next]_vars
  PROVE  \/ cr' = cr
         \/ /\ UNCHANGED <<users, policies, meddled>>
            /\ \E c \in CRs : \A d \in CRs \ {c} : cr'[d] = cr[d]
<1>0. Typed(Steps)
  BY DEF TypeOK, Typed
<1>1. ASSUME NEW o \in Operators, NEW c \in CRs, OwnKind(o, c)
      PROVE  UNCHANGED <<users, policies, meddled>> /\ \A d \in CRs \ {c} : cr'[d] = cr[d]
  BY <1>0, <1>1, OwnStepWrites DEF OwnKind, SameServer, NoMeddling
<1>2. ASSUME NEW c \in CRs, UserStep(c, SpecsOf(c)), SameServer
      PROVE  UNCHANGED <<users, policies, meddled>> /\ \A d \in CRs \ {c} : cr'[d] = cr[d]
  BY <1>0, <1>2, UserWrites DEF SameServer, UserStep
<1>3. ASSUME NEW o \in Operators, NEW c \in CRs, MoveKind(o, c)
      PROVE  cr' = cr
  BY <1>3 DEF MoveKind, Moves, Proceed, Fail, Goto, CleanupFails
<1>4. (\E o \in Operators, c \in CRs : Watch(o, c)) \/ (\E o \in Operators : Crash(o))
        \/ OthersKind \/ UNCHANGED vars => cr' = cr
  BY DEF Watch, Deliver, Crash, Restart, OthersKind, vars, controllerVars
<1> QED
  BY <1>1, <1>2, <1>3, <1>4, Kinds DEF ControllerKind

\* Every step of the controllers is one that ManagedResources has, or none.
LEMMA ManagedStep ==
  AllInv /\ AllInv' /\ [Next]_vars => [Abs!Next]_(Abs!vars)
<1> SUFFICES ASSUME AllInv, AllInv', [Next]_vars
             PROVE  [Abs!Next]_(Abs!vars)
  OBVIOUS
<1>0. TypeOK /\ TypeOK' /\ KindInv /\ Abs!TypeOK /\ Abs!TypeOK'
  BY ManagedTyped, ManagedTypedNext DEF AllInv
<1>1. ASSUME UNCHANGED <<users, policies, meddled>>,
             NEW c \in CRs, \A d \in CRs \ {c} : cr'[d] = cr[d]
      PROVE  [Abs!Next]_(Abs!vars)
  <2>1. ASSUME NEW d \in CRs \ {c}
        PROVE  Managing'[d] = Managing[d]
    <3>1. Remote(d)' = Remote(d)
      BY <1>1 DEF Remote
    <3>2. Fits(d)' = Fits(d)
      BY <1>1, <2>1, FitsNext
    <3> QED
      BY <1>1, <2>1, <3>1, <3>2, SameManaged
  <2>2. Abs!Concerned(Managing[c], Managing'[c])
    BY <1>0, <1>1, NextCopies, CopyConcerns
  <2> QED
    BY <1>0, <1>1, <2>1, <2>2, Abs!ConcernedSteps
<1>2. CASE cr' = cr /\ meddled'
  <2>1. meddled' = TRUE
    BY <1>0, <1>2 DEF Abs!TypeOK
  <2> QED
    BY <1>0, <1>2, <2>1, Meddling
<1>3. CASE cr' = cr /\ ~meddled'
  <2>1. ~meddled /\ UNCHANGED meddled
    BY <1>0, <1>3, MeddledStays DEF Abs!TypeOK
  <2>2. ASSUME NEW o \in Operators, NEW c \in CRs, MoveKind(o, c),
               WritesUser(o, c) \/ WritesPolicy(o, c)
        PROVE  [Abs!Next]_(Abs!vars)
    <3>1. PICK n : Writing(o, c, n)
      BY <2>1, <2>2, UserHandled, PolicyHandled
    <3>2. \A d \in CRs \ {c} : Managing'[d] = Managing[d]
      BY <1>3, <2>1, <3>1, OthersUnconcerned
    <3>3. Abs!Made(Managing[c], Managing'[c]) \/ Abs!Concerned(Managing[c], Managing'[c])
      BY <1>3, <2>1, <3>1, CreationConcerns, ChangeConcerns, DeletionConcerns
      DEF Writing, Handled
    <3>4. Abs!Concerned(Managing[c], Managing'[c])
      BY <3>3 DEF Abs!Concerned
    <3> QED
      BY <1>0, <2>1, <3>2, <3>4, Abs!ConcernedSteps
  <2>3. CASE SameServer
    <3>1. ASSUME NEW d \in CRs
          PROVE  Managing'[d] = Managing[d]
      <4>1. Remote(d)' = Remote(d)
        BY <2>3 DEF Remote, SameServer
      <4>2. Fits(d)' = Fits(d)
        BY <1>3, <2>3, FitsNext DEF SameServer
      <4> QED
        BY <1>3, <4>1, <4>2, SameManaged
    <3>2. Managing' = Managing
      BY <1>0, <3>1 DEF Abs!TypeOK
    <3> QED
      BY <2>1, <3>2 DEF Abs!vars
  <2> QED
    BY <1>0, <1>3, <2>2, <2>3, ServerCases
<1> QED
  BY <1>0, <1>1, <1>2, <1>3, CopyOrServer

\* At first nobody asks for anything.
LEMMA ManagedInit == Init => Abs!Init
<1> SUFFICES ASSUME Init
             PROVE  Abs!Init
  OBVIOUS
<1>1. ASSUME NEW c \in CRs
      PROVE  Managing[c] \in [request : {"none"}, keep : BOOLEAN, remote : {FALSE},
                              fits : {FALSE}, ready : {FALSE}]
  <2>1. /\ cr[c].phase = "absent"
        /\ \A u \in UserNames : users[u].by # c
        /\ \A p \in PolicyNames : policies[p].by # c
    BY NoneIsNoResource
    DEF Init, ControllerInit, RuntimeInit, Blank, ServerInit, NoUser, NoPolicy
  <2>2. Request(c) = "none" /\ ~Ready(c) /\ ~Fits(c) /\ ~Remote(c)
    BY <2>1, RequestIs DEF Ready, Fits, Remote, Exists
  <2>3. Ready(c) = FALSE /\ Fits(c) = FALSE /\ Remote(c) = FALSE /\ Kept(c) \in BOOLEAN
    BY <2>2 DEF Kept, Ready, Fits, Remote
  <2> QED
    BY <2>2, <2>3 DEF Managing, AsManaged, Fits
<1> QED
  BY <1>1 DEF Abs!Init, Managing, Init, ControllerInit

(***************************************************************************)
(* As long as one operator runs, users leave the name and the deletion     *)
(* policy of their resources alone, no two resources of a kind claim one   *)
(* name and documents that count as equivalent allow the same: the User    *)
(* and Policy controllers, side by side, implement ManagedResources.       *)
(***************************************************************************)
THEOREM ManagedCorrect ==
  SoleOperator /\ Discerning /\ SafetySpec /\ []Distinct /\ [][Steady]_vars => Managed
<1> SUFFICES ASSUME SoleOperator, Discerning
             PROVE  SafetySpec /\ []Distinct /\ [][Steady]_vars => Managed
  OBVIOUS
<1>1. Distinct => Apart
  BY DEF Distinct, Claimed, Apart
<1>2. Init => Resources!Init
  BY ManagedInit, SameAbstract
<1>3. AllInv /\ AllInv' /\ [Next]_vars => [Resources!Next]_(Resources!vars)
  BY ManagedStep, SameAbstract
<1>4. TypeOK /\ KindInv /\ SnapshotInv /\ UserProgressInv /\ IdentityInv(Steps) /\ MadeInv
        /\ OwnedInv /\ ReadyMeansDeclared /\ Distinct => AllInv
  BY DEF AllInv
<1>5. Init => MadeInv
  BY DEF Init, ServerInit, MadeInv, NoUser, NoPolicy
<1>6. SafetySpec => []MadeInv
  BY <1>5, MadeStep, TypedAndKind, PTL DEF SafetySpec
<1> QED
  BY <1>1, <1>2, <1>3, <1>4, <1>6, TypedAndKind, SnapshotsCorrect, UserProgressCorrect,
     OwnedCorrect, ReadyCorrect, PTL
  DEF SafetySpec, Managed, Resources!Spec
=============================================================================
