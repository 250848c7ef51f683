------------------------------ MODULE PodStatus ------------------------------
(***************************************************************************)
(* The pods of the virtual node and the pure part of the code that works   *)
(* on them: how the state of a Cloud Run service becomes a pod status      *)
(* (cloudrun.go) and what the tracker makes of a fetched status            *)
(* (podsTracker.go).  Nothing here has state; every other module of the    *)
(* project extends this one.                                               *)
(*                                                                         *)
(* Data abstraction.  A pod keeps its namespace and name, the identity of  *)
(* the incarnation (uid), the version of its spec (gen), whether a         *)
(* deletion was requested, and its status.  A status keeps its phase, its  *)
(* reason, the pod conditions that are True and the set of states its      *)
(* containers are in; messages, times, images and addresses are left out.  *)
(***************************************************************************)
EXTENDS Naturals

CONSTANTS
  Namespaces,   \* namespaces of the cluster: the node watches all of them
  Names         \* pod names, which are also the ids of Cloud Run services

(* A pod is known by its namespace and name (PodIdentifier). *)
Keys == Namespaces \X Names

(* The Cloud Run service of a pod is named after the pod only: the *)
(* namespace takes no part in it. *)
ServiceId(key) == key[2]

-----------------------------------------------------------------------------
(* Statuses *)

Phases == {"Pending", "Running", "Succeeded", "Failed"}

(* "": none; "NotFound": statusReasonNotFound, written by the tracker; *)
(* "ProviderFailed": podStatusReasonProviderFailed, written by the pod *)
(* controller when the provider returns an error. *)
Reasons == {"", "NotFound", "ProviderFailed"}

Conditions == {"Ready", "Initialized", "PodScheduled"}

(* The state a ContainerStatus carries: exactly one of its pointers, or *)
(* "none" when the provider filled in no state at all. *)
ContainerStates == {"none", "running", "terminated"}

Status == [phase : Phases, reason : Reasons,
           conditions : SUBSET Conditions, containers : SUBSET ContainerStates]

(* A pod the scheduler has just bound to the node: no container is reported. *)
NewStatus == [phase |-> "Pending", reason |-> "",
              conditions |-> {"PodScheduled"}, containers |-> {}]

Pod == [key : Keys, uid : Nat, gen : Nat, deleting : BOOLEAN, status : Status]

(* A version of a pod: all that is kept of it but its status. *)
Version == [key : Keys, uid : Nat, gen : Nat, deleting : BOOLEAN]

VersionOf(pod) == [key |-> pod.key, uid |-> pod.uid, gen |-> pod.gen,
                   deleting |-> pod.deleting]

(* getPodFromList: the pod of a list with this namespace and name, as a set *)
(* that is empty where the code returns nil. *)
getPodFromList(list, key) == {p \in list : p.key = key}

-----------------------------------------------------------------------------
(* From a Cloud Run service to a pod status *)

ServiceStates == {"STATE_UNSPECIFIED", "CONDITION_PENDING",
                  "CONDITION_RECONCILING", "CONDITION_FAILED",
                  "CONDITION_SUCCEEDED"}

(* Mutant: any other state is reported as Unknown. *)
phaseOfUnnamedUnknown(state) ==
  CASE state = "CONDITION_FAILED" -> "Failed"
    [] state \in {"CONDITION_RECONCILING", "CONDITION_PENDING"} -> "Pending"
    [] OTHER -> "Unknown"

(* A state the switch does not name counts as Running. *)
getPodPhaseFromCloudRunState(state) ==
  CASE state = "CONDITION_FAILED" -> "Failed"
    [] state \in {"CONDITION_RECONCILING", "CONDITION_PENDING"} -> "Pending"
    [] OTHER -> "Running"

(* The only caller passes allReady = true, so a service that succeeded has *)
(* all three conditions and any other service has none. *)
getPodConditionsFromCloudRunState(state) ==
  IF state = "CONDITION_SUCCEEDED" THEN Conditions ELSE {}

(* GetPodStatus for a service that exists: its containers are reported, but *)
(* the lines that would fill in their State are commented out. *)
statusOfService(state) ==
  [phase      |-> getPodPhaseFromCloudRunState(state),
   reason     |-> "",
   conditions |-> getPodConditionsFromCloudRunState(state),
   containers |-> {"none"}]

-----------------------------------------------------------------------------
(* What the tracker does with a pod and the answer of FetchPodStatus *)

Finished(pod) == pod.status.phase \in {"Succeeded", "Failed"}

(* Mutant: a pod that runs needs no update either. *)
skipOnceRunning(pod) == Finished(pod) \/ pod.status.phase = "Running"

shouldSkipPodStatusUpdate(pod) ==
  \/ Finished(pod)
  \/ pod.status.reason = "ProviderFailed"
  \/ pod.deleting

(* The four answers the interface PodsTrackerHandler allows: a status, no *)
(* status and no error, a NotFound error, any other error. *)
Answers == [kind : {"status"}, status : Status]
             \cup [kind : {"nil", "notfound", "error"}]

terminated(containers) ==
  {IF c = "running" THEN "terminated" ELSE c : c \in containers}

(* Mutant: the phase of a lost pod is Unknown. *)
unknownAsNotFound(status) == [status EXCEPT !.phase = "Unknown", !.reason = "NotFound"]

(* The conditions of the pod are left as they were. *)
failedAsNotFound(status) ==
  [status EXCEPT !.phase = "Failed", !.reason = "NotFound",
                 !.containers = terminated(@)]

(* Mutant: a pod the provider does not know is failed, up already or not. *)
failWheneverUnknown(pod, answer) ==
  CASE answer.kind = "status" -> {[pod EXCEPT !.status = answer.status]}
    [] answer.kind \in {"nil", "notfound"} ->
         {[pod EXCEPT !.status = failedAsNotFound(@)]}
    [] OTHER -> {}

(* Mutant: a NotFound error is only logged, like any other. *)
failWithoutErrorOnly(pod, answer) ==
  CASE answer.kind = "status" -> {[pod EXCEPT !.status = answer.status]}
    [] answer.kind = "nil" /\ pod.status.phase = "Running" ->
         {[pod EXCEPT !.status = failedAsNotFound(@)]}
    [] OTHER -> {}

(* processPodUpdates after the skip test: the set of pods handed to the *)
(* update callback, empty when it returns false.  A pod the provider does *)
(* not know is failed only if it was up already. *)
processPodUpdates(pod, answer) ==
  CASE answer.kind = "status" -> {[pod EXCEPT !.status = answer.status]}
    [] answer.kind \in {"nil", "notfound"} /\ pod.status.phase = "Running" ->
         {[pod EXCEPT !.status = failedAsNotFound(@)]}
    [] OTHER -> {}
=============================================================================
