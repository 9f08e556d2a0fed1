-------------------------- MODULE ManagedResources --------------------------
(***************************************************************************)
(* What the operator promises of custom resources and the objects they     *)
(* stand for on the RustFS server, whatever their kind: an object is made  *)
(* and changed only while somebody asks for it, ready is said only of what *)
(* is as asked for, and a resource does not go without its object unless   *)
(* the object is to be kept.                                               *)
(*                                                                         *)
(* The controllers keep these promises although none of their steps sees   *)
(* a resource and its object at once.                                      *)
(***************************************************************************)
CONSTANT CRs

VARIABLES
  state,    \* state[c]: the resource c and the object made for it
  meddled   \* has another tool, or a misleading answer, interfered?

vars == <<state, meddled>>

(***************************************************************************)
(* request is "dying" once the resource is deleted and until it is gone;   *)
(* keep is deletionPolicy Retain; remote: there is an object made for the  *)
(* resource; fits: the server is as the spec declares; ready: .status says *)
(* so of the current generation.                                           *)
(***************************************************************************)
States ==
  [request : {"none", "wanted", "dying"}, keep : BOOLEAN, remote : BOOLEAN,
   fits : BOOLEAN, ready : BOOLEAN]

TypeOK == state \in [CRs -> States] /\ meddled \in BOOLEAN

Init ==
  /\ state \in [CRs -> [request : {"none"}, keep : BOOLEAN, remote : {FALSE},
                        fits : {FALSE}, ready : {FALSE}]]
  /\ meddled = FALSE

Becomes(c, s) == state' = [state EXCEPT ![c] = s] /\ UNCHANGED meddled

(***************************************************************************)
(* The resource may go and leave the object, if any, to itself.            *)
(***************************************************************************)
MayLeave(c) == state[c].remote => state[c].keep \/ meddled

(***************************************************************************)
(* A resource that is ready is done with, unless somebody interferes.      *)
(***************************************************************************)
Pending(c) == state[c].request # "none" /\ (state[c].ready => meddled)

-----------------------------------------------------------------------------
(***************************************************************************)
(* The user.                                                               *)
(***************************************************************************)
Ask(c) ==
  /\ state[c].request = "none"
  /\ \E k, f \in BOOLEAN :
       Becomes(c, [state[c] EXCEPT !.request = "wanted", !.keep = k, !.fits = f,
                                   !.ready = FALSE])

Edit(c) ==
  /\ state[c].request # "none"
  /\ \E k, f \in BOOLEAN :
       Becomes(c, [state[c] EXCEPT !.keep = k, !.fits = f, !.ready = FALSE])

Drop(c) ==
  /\ state[c].request = "wanted"
  /\ \E r \in {"dying", "none"} :
       /\ r = "none" => MayLeave(c)
       /\ Becomes(c, [state[c] EXCEPT !.request = r, !.ready = FALSE,
                                      !.fits = @ /\ r # "none"])

-----------------------------------------------------------------------------
(***************************************************************************)
(* The operator.                                                           *)
(***************************************************************************)
Make(c) ==
  /\ Pending(c)
  /\ ~state[c].remote
  /\ \E f \in BOOLEAN : Becomes(c, [state[c] EXCEPT !.remote = TRUE, !.fits = f])

Adjust(c) ==
  /\ Pending(c)
  /\ Becomes(c, [state[c] EXCEPT !.fits = ~@])

Acknowledge(c) ==
  /\ state[c].request = "wanted"
  /\ state[c].fits \/ meddled
  /\ Becomes(c, [state[c] EXCEPT !.ready = TRUE])

Retract(c) == Becomes(c, [state[c] EXCEPT !.ready = FALSE])

Remove(c) ==
  /\ state[c].request = "dying"
  /\ ~state[c].keep
  /\ state[c].remote
  /\ \E f \in BOOLEAN : Becomes(c, [state[c] EXCEPT !.remote = FALSE, !.fits = f])

Release(c) ==
  /\ state[c].request = "dying"
  /\ MayLeave(c)
  /\ Becomes(c, [state[c] EXCEPT !.request = "none", !.fits = FALSE])

-----------------------------------------------------------------------------
(***************************************************************************)
(* Everybody else: objects come, change and go, resources do not.          *)
(***************************************************************************)
Meddle ==
  /\ meddled' = TRUE
  /\ \E remote, fits \in [CRs -> BOOLEAN] :
       state' = [c \in CRs |-> [state[c] EXCEPT !.remote = remote[c], !.fits = fits[c]]]

Next ==
  \/ \E c \in CRs :
       \/ Ask(c) \/ Edit(c) \/ Drop(c)
       \/ Make(c) \/ Adjust(c) \/ Acknowledge(c) \/ Retract(c) \/ Remove(c) \/ Release(c)
  \/ Meddle

Spec == Init /\ [][Next]_vars
=============================================================================
