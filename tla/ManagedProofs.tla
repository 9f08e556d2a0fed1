---------------------------- MODULE ManagedProofs ----------------------------
(***************************************************************************)
(* When a controller's step is one that ManagedResources has: told by what *)
(* it makes of the one resource c that it concerns, field by field.        *)
(***************************************************************************)
EXTENDS ManagedResources, TLAPS

(***************************************************************************)
(* x is state[c] before the step, y after it.                              *)
(***************************************************************************)
Leaving(x) == x.remote => x.keep \/ meddled

Unfinished(x) == x.request # "none" /\ (x.ready => meddled)

Asked(x, y) ==
  x.request = "none" /\ y.request = "wanted" /\ ~y.ready /\ y.remote = x.remote

Edited(x, y) ==
  x.request # "none" /\ y.request = x.request /\ ~y.ready /\ y.remote = x.remote

Dropped(x, y) ==
  /\ x.request = "wanted" /\ y.request \in {"dying", "none"}
  /\ y.request = "none" => Leaving(x)
  /\ y.keep = x.keep /\ ~y.ready /\ y.remote = x.remote
  /\ y.fits = (x.fits /\ y.request # "none")

Unasked(x, y) == y.request = x.request /\ y.keep = x.keep

Made(x, y) ==
  Unasked(x, y) /\ Unfinished(x) /\ y.ready = x.ready /\ ~x.remote /\ y.remote

Adjusted(x, y) ==
  Unasked(x, y) /\ Unfinished(x) /\ y.ready = x.ready /\ y.remote = x.remote

Reported(x, y) ==
  /\ Unasked(x, y) /\ y.fits = x.fits /\ y.remote = x.remote
  /\ y.ready => x.request = "wanted" /\ (x.fits \/ meddled)

Removed(x, y) ==
  /\ Unasked(x, y) /\ y.ready = x.ready
  /\ x.request = "dying" /\ ~x.keep /\ x.remote /\ ~y.remote

Released(x, y) ==
  /\ x.request = "dying" /\ y.request = "none" /\ Leaving(x)
  /\ y.keep = x.keep /\ y.ready = x.ready /\ y.remote = x.remote /\ ~y.fits

Concerned(x, y) ==
  \/ y = x \/ Asked(x, y) \/ Edited(x, y) \/ Dropped(x, y) \/ Made(x, y) \/ Adjusted(x, y)
  \/ Reported(x, y) \/ Removed(x, y) \/ Released(x, y)

-----------------------------------------------------------------------------
\* Two records are equal if their fields are.
LEMMA Fieldwise ==
  ASSUME NEW x \in States, NEW y \in States,
         y.request = x.request, y.keep = x.keep, y.remote = x.remote, y.fits = x.fits,
         y.ready = x.ready
  PROVE  y = x
BY DEF States

\* A step that concerns c alone is a step of ManagedResources, or of nobody.
LEMMA ConcernedSteps ==
  ASSUME TypeOK, TypeOK', UNCHANGED meddled, NEW c \in CRs,
         \A d \in CRs \ {c} : state'[d] = state[d],
         Concerned(state[c], state'[c])
  PROVE  [Next]_vars
<1> DEFINE x == state[c]
           y == state'[c]
<1>0. /\ x \in States /\ y \in States
      /\ ~y.ready => y.ready = FALSE
  BY DEF TypeOK, States
<1>1. ASSUME NEW s \in States,
             y.request = s.request, y.keep = s.keep, y.remote = s.remote, y.fits = s.fits,
             y.ready = s.ready
      PROVE  Becomes(c, s)
  <2>1. y = s
    BY <1>0, <1>1, Fieldwise
  <2> QED
    BY <2>1 DEF Becomes, TypeOK
<1>2. CASE y = x
  BY <1>2 DEF vars, TypeOK
<1>3. CASE Asked(x, y)
  <2> DEFINE s == [x EXCEPT !.request = "wanted", !.keep = y.keep, !.fits = y.fits, !.ready = FALSE]
  <2>0. /\ s \in States /\ y.request = s.request /\ y.keep = s.keep /\ y.remote = s.remote
        /\ y.fits = s.fits /\ y.ready = s.ready
    BY <1>0, <1>3 DEF Asked, States
  <2>1. Becomes(c, s)
    BY <1>1, <2>0
  <2> QED
    BY <1>0, <1>3, <2>1 DEF Asked, Ask, Next, States
<1>4. CASE Edited(x, y)
  <2> DEFINE s == [x EXCEPT !.keep = y.keep, !.fits = y.fits, !.ready = FALSE]
  <2>0. /\ s \in States /\ y.request = s.request /\ y.keep = s.keep /\ y.remote = s.remote
        /\ y.fits = s.fits /\ y.ready = s.ready
    BY <1>0, <1>4 DEF Edited, States
  <2>1. Becomes(c, s)
    BY <1>1, <2>0
  <2> QED
    BY <1>0, <1>4, <2>1 DEF Edited, Edit, Next, States
<1>5. CASE Dropped(x, y)
  <2> DEFINE s == [x EXCEPT !.request = y.request, !.ready = FALSE,
                           !.fits = @ /\ y.request # "none"]
  <2>0. /\ s \in States /\ y.request = s.request /\ y.keep = s.keep /\ y.remote = s.remote
        /\ y.fits = s.fits /\ y.ready = s.ready
    BY <1>0, <1>5 DEF Dropped, States
  <2>1. Becomes(c, s)
    BY <1>1, <2>0
  <2> QED
    BY <1>0, <1>5, <2>1 DEF Dropped, Leaving, Drop, MayLeave, Next
<1>6. CASE Made(x, y)
  <2> DEFINE s == [x EXCEPT !.remote = TRUE, !.fits = y.fits]
  <2>0. /\ s \in States /\ y.request = s.request /\ y.keep = s.keep /\ y.remote = s.remote
        /\ y.fits = s.fits /\ y.ready = s.ready
    BY <1>0, <1>6 DEF Made, Unasked, States
  <2>1. Becomes(c, s)
    BY <1>1, <2>0
  <2> QED
    BY <1>0, <1>6, <2>1 DEF Made, Unfinished, Make, Pending, Next, States
<1>7. CASE Adjusted(x, y) /\ y # x
  <2>1. y.fits = ~x.fits
    BY <1>0, <1>7, Fieldwise DEF Adjusted, Unasked, States
  <2> DEFINE s == [x EXCEPT !.fits = ~@]
  <2>2. /\ s \in States /\ y.request = s.request /\ y.keep = s.keep /\ y.remote = s.remote
        /\ y.fits = s.fits /\ y.ready = s.ready
    BY <1>0, <1>7, <2>1 DEF Adjusted, Unasked, States
  <2>3. Becomes(c, s)
    BY <1>1, <2>2
  <2> QED
    BY <1>0, <1>7, <2>3 DEF Adjusted, Unfinished, Adjust, Pending, Next
<1>8. CASE Reported(x, y) /\ y.ready
  <2> DEFINE s == [x EXCEPT !.ready = TRUE]
  <2>0. /\ s \in States /\ y.request = s.request /\ y.keep = s.keep /\ y.remote = s.remote
        /\ y.fits = s.fits /\ y.ready = s.ready
    BY <1>0, <1>8 DEF Reported, Unasked, States
  <2>1. Becomes(c, s)
    BY <1>1, <2>0
  <2> QED
    BY <1>8, <2>1 DEF Reported, Acknowledge, Next
<1>9. CASE Reported(x, y) /\ ~y.ready
  <2> DEFINE s == [x EXCEPT !.ready = FALSE]
  <2>0. /\ s \in States /\ y.request = s.request /\ y.keep = s.keep /\ y.remote = s.remote
        /\ y.fits = s.fits /\ y.ready = s.ready
    BY <1>0, <1>9 DEF Reported, Unasked, States
  <2>1. Becomes(c, s)
    BY <1>1, <2>0
  <2> QED
    BY <2>1 DEF Retract, Next
<1>10. CASE Removed(x, y)
  <2> DEFINE s == [x EXCEPT !.remote = FALSE, !.fits = y.fits]
  <2>0. /\ s \in States /\ y.request = s.request /\ y.keep = s.keep /\ y.remote = s.remote
        /\ y.fits = s.fits /\ y.ready = s.ready
    BY <1>0, <1>10 DEF Removed, Unasked, States
  <2>1. Becomes(c, s)
    BY <1>1, <2>0
  <2> QED
    BY <1>0, <1>10, <2>1 DEF Removed, Remove, Next, States
<1>11. CASE Released(x, y)
  <2> DEFINE s == [x EXCEPT !.request = "none", !.fits = FALSE]
  <2>0. /\ s \in States /\ y.request = s.request /\ y.keep = s.keep /\ y.remote = s.remote
        /\ y.fits = s.fits /\ y.ready = s.ready
    BY <1>0, <1>11 DEF Released, States
  <2>1. Becomes(c, s)
    BY <1>1, <2>0
  <2> QED
    BY <1>11, <2>1 DEF Released, Leaving, Release, MayLeave, Next
<1> QED
  BY <1>2, <1>3, <1>4, <1>5, <1>6, <1>7, <1>8, <1>9, <1>10, <1>11 DEF Concerned

\* Who interferes may do anything to the server, and nothing to a resource.
LEMMA MeddlingSteps ==
  ASSUME TypeOK, TypeOK', meddled' = TRUE,
         \A c \in CRs : Unasked(state[c], state'[c]) /\ state'[c].ready = state[c].ready
  PROVE  Next
<1> DEFINE remote == [c \in CRs |-> state'[c].remote]
           fits == [c \in CRs |-> state'[c].fits]
<1>1. remote \in [CRs -> BOOLEAN] /\ fits \in [CRs -> BOOLEAN]
  BY DEF TypeOK, States
<1>2. ASSUME NEW c \in CRs
      PROVE  state'[c] = [state[c] EXCEPT !.remote = remote[c], !.fits = fits[c]]
  <2>1. state[c] \in States /\ state'[c] \in States
    BY DEF TypeOK
  <2>2. remote[c] = state'[c].remote /\ fits[c] = state'[c].fits
    OBVIOUS
  <2> QED
    BY <2>1, <2>2, Fieldwise DEF States, Unasked
<1> HIDE DEF remote, fits
<1>3. state' = [c \in CRs |-> [state[c] EXCEPT !.remote = remote[c], !.fits = fits[c]]]
  BY <1>2 DEF TypeOK
<1> QED
  BY <1>1, <1>3 DEF Meddle, Next

-----------------------------------------------------------------------------
(***************************************************************************)
(* What all of this amounts to as long as nobody interferes: ready is said *)
(* only of what is wanted and as the spec has it, and a resource that is   *)
(* gone has left only an object that it was to keep.                       *)
(***************************************************************************)
Promise(x) ==
  /\ x.ready => x.request = "wanted" /\ x.fits
  /\ x.request = "none" /\ x.remote => x.keep

Promises == ~meddled => \A c \in CRs : Promise(state[c])

\* A step that touches one resource keeps the promise made of every other.
LEMMA BecomesKeeps ==
  ASSUME TypeOK, Promises, NEW c \in CRs, NEW s \in States, Becomes(c, s),
         ~meddled => Promise(s)
  PROVE  TypeOK' /\ Promises'
BY DEF TypeOK, Promises, Becomes

\* What the users do, and
LEMMA UserKeeps ==
  ASSUME TypeOK, Promises, NEW c \in CRs, Ask(c) \/ Edit(c) \/ Drop(c)
  PROVE  TypeOK' /\ Promises'
<1>0. state[c] \in States /\ (~meddled => Promise(state[c]))
  BY DEF TypeOK, Promises
<1>1. CASE Ask(c)
  BY <1>0, <1>1, BecomesKeeps DEF Ask, Promise, States
<1>2. CASE Edit(c)
  BY <1>0, <1>2, BecomesKeeps DEF Edit, Promise, States
<1>3. CASE Drop(c)
  BY <1>0, <1>3, BecomesKeeps DEF Drop, MayLeave, Promise, States
<1> QED
  BY <1>1, <1>2, <1>3

\* what the operator does.
LEMMA OperatorKeeps ==
  ASSUME TypeOK, Promises, NEW c \in CRs,
         \/ Make(c) \/ Adjust(c) \/ Acknowledge(c) \/ Retract(c) \/ Remove(c) \/ Release(c)
  PROVE  TypeOK' /\ Promises'
<1>0. state[c] \in States /\ (~meddled => Promise(state[c]))
  BY DEF TypeOK, Promises
<1>1. CASE Make(c) \/ Adjust(c)
  BY <1>0, <1>1, BecomesKeeps DEF Make, Adjust, Pending, Promise, States
<1>2. CASE Acknowledge(c) \/ Retract(c)
  BY <1>0, <1>2, BecomesKeeps DEF Acknowledge, Retract, Promise, States
<1>3. CASE Remove(c) \/ Release(c)
  BY <1>0, <1>3, BecomesKeeps DEF Remove, Release, MayLeave, Promise, States
<1> QED
  BY <1>1, <1>2, <1>3

(***************************************************************************)
(* Whatever implements ManagedResources keeps the two promises the README  *)
(* and crd.rs make of a resource: ready means as declared, and deleting it *)
(* deletes its object.                                                     *)
(***************************************************************************)
THEOREM PromisesKept == Spec => []Promises
<1>1. Init => TypeOK /\ Promises
  BY DEF Init, TypeOK, Promises, Promise, States
<1>2. TypeOK /\ Promises /\ [Next]_vars => (TypeOK /\ Promises)'
  <2> SUFFICES ASSUME TypeOK, Promises, [Next]_vars
               PROVE  TypeOK' /\ Promises'
    OBVIOUS
  <2>1. CASE Meddle
    <3>0. PICK remote, fits \in [CRs -> BOOLEAN] :
            state' = [c \in CRs |-> [state[c] EXCEPT !.remote = remote[c], !.fits = fits[c]]]
      BY <2>1 DEF Meddle
    <3>1. meddled' = TRUE /\ state' \in [CRs -> States]
      BY <2>1, <3>0 DEF Meddle, TypeOK, States
    <3> QED
      BY <3>1 DEF TypeOK, Promises
  <2>2. CASE UNCHANGED vars
    BY <2>2 DEF vars, TypeOK, Promises
  <2> QED
    BY <2>1, <2>2, UserKeeps, OperatorKeeps DEF Next
<1> QED
  BY <1>1, <1>2, PTL DEF Spec
=============================================================================
