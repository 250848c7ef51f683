----------------------------- MODULE PodLifecycle -----------------------------
(***************************************************************************)
(* What a node promises for the pods bound to it, without saying how: a    *)
(* pod is bound once, leaves once it was told to, and is worked on by one  *)
(* call at a time; a service is made by a creation under way, or by one    *)
(* whose process is gone, and no creation is begun for a pod that was      *)
(* given up.  CloudRunKubelet, with its old caches, its queues and its     *)
(* restarts, implements this.                                              *)
(*                                                                         *)
(* The sets below hold the identities of pods.                             *)
(***************************************************************************)
CONSTANT Uids   \* the pods there may ever be

VARIABLES
  unborn,     \* not bound to the node yet
  bound,      \* bound, and not asked to go
  leaving,    \* asked to go, and still there
  creating,   \* a creation is under way
  deleting,   \* a deletion is under way
  givenUp,    \* the node is done with the pod
  adrift,     \* a creation of a process that is gone may still arrive
  served      \* owners of services

vars == <<unborn, bound, leaving, creating, deleting, givenUp, adrift, served>>

workVars == <<creating, deleting, givenUp, adrift>>

Init ==
  /\ unborn = Uids
  /\ bound = {} /\ leaving = {}
  /\ creating = {} /\ deleting = {} /\ givenUp = {} /\ adrift = {}
  /\ served = {}

-----------------------------------------------------------------------------
(* The cluster *)

Bind(pod) ==
  /\ pod \in unborn
  /\ unborn' = unborn \ {pod}
  /\ bound' = bound \cup {pod}
  /\ UNCHANGED <<leaving, workVars, served>>

RequestDelete(pod) ==
  /\ pod \in bound
  /\ bound' = bound \ {pod}
  /\ leaving' = leaving \cup {pod}
  /\ UNCHANGED <<unborn, workVars, served>>

(* No pod is gone that was not asked to go. *)
Vanish(pod) ==
  /\ pod \in leaving
  /\ leaving' = leaving \ {pod}
  /\ UNCHANGED <<unborn, bound, workVars, served>>

-----------------------------------------------------------------------------
(* The node *)

Idle(pod) == pod \notin creating \cup deleting

BeginCreate(pod) ==
  /\ pod \in Uids \ (unborn \cup givenUp)
  /\ Idle(pod)
  /\ creating' = creating \cup {pod}
  /\ UNCHANGED <<unborn, bound, leaving, deleting, givenUp, adrift, served>>

Serve(pod) ==
  /\ pod \in creating
  /\ served' = served \cup {pod}
  /\ UNCHANGED <<unborn, bound, leaving, workVars>>

EndCreate(pod) ==
  /\ pod \in creating
  /\ creating' = creating \ {pod}
  /\ UNCHANGED <<unborn, bound, leaving, deleting, givenUp, adrift, served>>

(* A pod that is leaving or gone is given up, with a deletion or without. *)
GiveUp(pod) ==
  /\ pod \in Uids \ (unborn \cup bound)
  /\ Idle(pod)
  /\ givenUp' = givenUp \cup {pod}
  /\ deleting' \in {deleting, deleting \cup {pod}}
  /\ UNCHANGED <<unborn, bound, leaving, creating, adrift, served>>

EndDelete(pod) ==
  /\ pod \in deleting
  /\ deleting' = deleting \ {pod}
  /\ UNCHANGED <<unborn, bound, leaving, creating, givenUp, adrift, served>>

(* The process ends; what it has asked for may still be on its way. *)
Exit ==
  /\ creating' = {} /\ deleting' = {}
  /\ \E sent \in SUBSET creating : adrift' = adrift \cup sent
  /\ UNCHANGED <<unborn, bound, leaving, givenUp, served>>

(* A creation of a process that is gone makes a service, *)
ServeLate(pod) ==
  /\ pod \in adrift
  /\ served' = served \cup {pod}
  /\ adrift' \in {adrift, adrift \ {pod}}
  /\ UNCHANGED <<unborn, bound, leaving, creating, deleting, givenUp>>

(* or is refused. *)
Refuse(pod) ==
  /\ pod \in adrift
  /\ adrift' = adrift \ {pod}
  /\ UNCHANGED <<unborn, bound, leaving, creating, deleting, givenUp, served>>

(* Cloud Run takes services down. *)
Undeploy ==
  /\ served' \in SUBSET served
  /\ UNCHANGED <<unborn, bound, leaving, workVars>>

-----------------------------------------------------------------------------
Next ==
  \/ \E pod \in Uids :
       \/ Bind(pod) \/ RequestDelete(pod) \/ Vanish(pod)
       \/ BeginCreate(pod) \/ Serve(pod) \/ EndCreate(pod)
       \/ GiveUp(pod) \/ EndDelete(pod)
       \/ ServeLate(pod) \/ Refuse(pod)
  \/ Exit
  \/ Undeploy

Spec == Init /\ [][Next]_vars

-----------------------------------------------------------------------------
(* What follows for whatever implements this: a pod that was given up is    *)
(* not being created,                                                        *)
GivenUpIsNotCreated == creating \cap givenUp = {}

(* and gets no service any more, but for one a process that is gone asked    *)
(* for.                                                                      *)
NotServedAgain ==
  [][\A pod \in givenUp : pod \in served' => pod \in served \cup adrift]_vars
=============================================================================
