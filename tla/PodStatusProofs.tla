---------------------------- MODULE PodStatusProofs ----------------------------
(***************************************************************************)
(* What the pure operators of PodStatus return: the proofs about the       *)
(* tracker and about the kubelet both rest on these.                       *)
(***************************************************************************)
EXTENDS PodStatus, TLAPS

(* The parts of a pod that the library and the tracker assign to. *)
LEMMA PodUpdates ==
  ASSUME NEW pod \in Pod
  PROVE  /\ [pod EXCEPT !.deleting = TRUE] \in Pod
         /\ [pod EXCEPT !.gen = @ + 1] \in Pod
         /\ \A status \in Status : [pod EXCEPT !.status = status] \in Pod
         /\ pod.status \in Status
         /\ pod.uid \in Nat
         /\ pod.key \in Keys
         /\ VersionOf(pod) \in Version
<1>1. /\ pod.status \in Status
      /\ pod.uid \in Nat
      /\ pod.key \in Keys
      /\ [pod EXCEPT !.deleting = TRUE] \in Pod
  BY DEF Pod
<1>2. [pod EXCEPT !.gen = @ + 1] \in Pod
  BY DEF Pod
<1>3. \A status \in Status : [pod EXCEPT !.status = status] \in Pod
  BY DEF Pod
<1>4. VersionOf(pod) \in Version
  BY DEF Pod, Version, VersionOf
<1>5. QED
  BY <1>1, <1>2, <1>3, <1>4

(* The status made of a service is a status. *)
LEMMA StatusOfServiceType ==
  ASSUME NEW state \in ServiceStates
  PROVE  statusOfService(state) \in Status
BY DEF statusOfService, Status, getPodPhaseFromCloudRunState,
       getPodConditionsFromCloudRunState, Phases, Reasons, ContainerStates

LEMMA FailedAsNotFoundType ==
  ASSUME NEW status \in Status
  PROVE  failedAsNotFound(status) \in Status
<1>1. terminated(status.containers) \subseteq ContainerStates
  BY DEF terminated, Status, ContainerStates
<1>2. QED
  BY <1>1 DEF failedAsNotFound, Status, Phases, Reasons

(* Whatever the answer, the tracker makes pods of a pod. *)
LEMMA ProcessPodUpdatesType ==
  ASSUME NEW pod \in Pod, NEW answer,
         answer.kind = "status" => answer.status \in Status
  PROVE  processPodUpdates(pod, answer) \subseteq Pod
<1>1. CASE answer.kind = "status"
  <2>1. processPodUpdates(pod, answer) = {[pod EXCEPT !.status = answer.status]}
    BY <1>1 DEF processPodUpdates
  <2>2. QED
    BY <1>1, <2>1, PodUpdates
<1>2. CASE /\ answer.kind # "status"
           /\ answer.kind \in {"nil", "notfound"} /\ pod.status.phase = "Running"
  <2>1. processPodUpdates(pod, answer)
          = {[pod EXCEPT !.status = failedAsNotFound(@)]}
    BY <1>2 DEF processPodUpdates
  <2>2. failedAsNotFound(pod.status) \in Status
    BY PodUpdates, FailedAsNotFoundType
  <2>3. QED
    BY <2>1, <2>2 DEF Pod
<1>3. CASE /\ answer.kind # "status"
           /\ ~(answer.kind \in {"nil", "notfound"}
                  /\ pod.status.phase = "Running")
  <2>1. processPodUpdates(pod, answer) = {}
    BY <1>3 DEF processPodUpdates
  <2>2. QED
    BY <2>1
<1>4. QED
  BY <1>1, <1>2, <1>3

(* The pod a binding adds is one. *)
LEMMA NewPodType ==
  ASSUME NEW key \in Keys, NEW uid \in Nat
  PROVE  [key |-> key, uid |-> uid, gen |-> 1, deleting |-> FALSE,
          status |-> NewStatus] \in Pod
BY DEF Pod, NewStatus, Status, Phases, Reasons, Conditions

-----------------------------------------------------------------------------
(* What processPodUpdates makes of a pod is the same pod in another status:  *)
(* the one that was fetched, or that of a pod that is lost, which was        *)
(* running.                                                                  *)
LEMMA ProcessedPod ==
  ASSUME NEW pod \in Pod, NEW answer, NEW new \in processPodUpdates(pod, answer)
  PROVE  /\ new.key = pod.key /\ new.uid = pod.uid
         /\ \/ answer.kind = "status" /\ new.status = answer.status
            \/ /\ answer.kind \in {"nil", "notfound"}
               /\ pod.status.phase = "Running"
               /\ new.status.phase = "Failed"
<1>1. \A status : /\ [pod EXCEPT !.status = status].key = pod.key
                  /\ [pod EXCEPT !.status = status].uid = pod.uid
                  /\ [pod EXCEPT !.status = status].status = status
  BY DEF Pod
<1>2. failedAsNotFound(pod.status).phase = "Failed"
  BY DEF failedAsNotFound, Pod, Status
<1>3. CASE answer.kind = "status"
  <2>1. new = [pod EXCEPT !.status = answer.status]
    BY <1>3 DEF processPodUpdates
  <2>2. QED
    BY <1>1, <1>3, <2>1
<1>4. CASE answer.kind # "status"
  <2>1. /\ answer.kind \in {"nil", "notfound"}
        /\ pod.status.phase = "Running"
        /\ new = [pod EXCEPT !.status = failedAsNotFound(@)]
    BY <1>4 DEF processPodUpdates
  <2>2. new = [pod EXCEPT !.status = failedAsNotFound(pod.status)]
    BY <2>1
  <2>3. QED
    BY <1>1, <1>2, <2>1, <2>2
<1>5. QED
  BY <1>3, <1>4
=============================================================================
