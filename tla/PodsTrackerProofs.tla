-------------------------- MODULE PodsTrackerProofs --------------------------
(***************************************************************************)
(* Theorems about PodsTracker, for every set of namespaces and names, all  *)
(* statuses of the provider, all calls that may fail, and any number of    *)
(* incarnations.                                                           *)
(***************************************************************************)
EXTENDS PodsTracker, PodStatusProofs

-----------------------------------------------------------------------------
(* Type correctness *)

(* A status is written for the incarnation it was posted for.                *)
LEMMA WrittenPod ==
  ASSUME TypeOK, NEW pod \in posted, WriteStatus(pod), NEW new \in lister'
  PROVE  /\ new \in Pod
         /\ \E p \in lister :
              /\ new.key = p.key /\ new.uid = p.uid
              /\ \/ new.status = p.status
                 \/ p.uid = pod.uid /\ new.status = pod.status
<1>1. PICK p \in lister :
        new = IF p.key = pod.key /\ p.uid = pod.uid /\ ~Finished(p)
                THEN [p EXCEPT !.status = pod.status] ELSE p
  BY DEF WriteStatus
<1>2. p \in Pod /\ pod.status \in Status
  BY PodUpdates DEF TypeOK
<1>3. /\ [p EXCEPT !.status = pod.status] \in Pod
      /\ [p EXCEPT !.status = pod.status].key = p.key
      /\ [p EXCEPT !.status = pod.status].uid = p.uid
      /\ [p EXCEPT !.status = pod.status].status = pod.status
  BY <1>2 DEF Pod
<1>4. QED
  BY <1>1, <1>2, <1>3

LEMMA EnvironmentType == TypeOK /\ Environment => TypeOK'
<1> SUFFICES ASSUME TypeOK, Environment PROVE TypeOK'
  OBVIOUS
<1> USE DEF TypeOK, LoopTypeOK, loopVars, envVars
<1>1. CASE Cancel
  BY <1>1 DEF Cancel
<1>2. ASSUME NEW key \in Keys, Bind(key) PROVE TypeOK'
  BY <1>2, NewPodType DEF Bind
<1>3. ASSUME NEW key \in Keys, Host(key) PROVE TypeOK'
  BY <1>3 DEF Host
<1>4. ASSUME NEW key \in Keys, Lose(key) PROVE TypeOK'
  BY <1>4, PodUpdates DEF Lose, Unhost, getPodFromList
<1>5. ASSUME NEW pod \in lister, MarkDeleting(pod) PROVE TypeOK'
  BY <1>5, PodUpdates DEF MarkDeleting
<1>6. ASSUME NEW pod \in lister, Remove(pod) PROVE TypeOK'
  BY <1>6 DEF Remove
<1>7. ASSUME NEW pod \in lister, ProviderFails(pod) PROVE TypeOK'
  <2>1. [pod EXCEPT !.status.reason = "ProviderFailed"] \in Pod
    BY DEF Pod, Status, Reasons
  <2>2. QED
    BY <1>7, <2>1 DEF ProviderFails
<1>8. ASSUME NEW pod \in posted, WriteStatus(pod) PROVE TypeOK'
  BY <1>8, WrittenPod DEF WriteStatus
<1>9. ASSUME NEW key \in Keys, NEW status \in UpdateStatuses,
             UpdatePodStatus(key, status)
      PROVE  TypeOK'
  BY <1>9, PodUpdates, TrackerAssumption DEF UpdatePodStatus, getPodFromList
<1>10. ASSUME NEW pod \in updating, PostUpdate(pod) PROVE TypeOK'
  BY <1>10 DEF PostUpdate, updateCb
<1>11. QED
  BY <1>1, <1>2, <1>3, <1>4, <1>5, <1>6, <1>7, <1>8, <1>9, <1>10
     DEF Environment

LEMMA TrackerType == TypeOK /\ Tracker => TypeOK'
<1> SUFFICES ASSUME TypeOK, Tracker PROVE TypeOK'
  OBVIOUS
<1> USE DEF TypeOK, LoopTypeOK, LoopPlaces, envVars
<1>1. CASE StatusTimer \/ CleanupTimer
  BY <1>1 DEF StatusTimer, CleanupTimer, StatusTimerFires, CleanupTimerFires
<1>2. ASSUME NEW pod \in todo, Visit(pod) PROVE TypeOK'
  BY <1>2 DEF Visit, SkipPod, VisitPod
<1>3. ASSUME NEW pod \in current, NEW answer \in Answers,
             FetchPodStatus(pod, answer)
      PROVE  TypeOK'
  <2>1. answer.kind = "status" => answer.status \in Status
    BY <1>3, TrackerAssumption DEF FetchPodStatus
  <2>2. current' \subseteq Pod
    BY <1>3, <2>1, ProcessPodUpdatesType DEF FetchPodStatus, FetchReturns
  <2>3. QED
    BY <1>3, <2>2 DEF FetchPodStatus, FetchReturns
<1>4. ASSUME NEW pod \in current, FetchPodStatusFails(pod) PROVE TypeOK'
  <2>1. current' \subseteq Pod
    BY <1>4, ProcessPodUpdatesType DEF FetchPodStatusFails, FetchReturns
  <2>2. QED
    BY <1>4, <2>1 DEF FetchPodStatusFails, FetchReturns
<1>5. ASSUME NEW pod \in current, Publish(pod) PROVE TypeOK'
  BY <1>5 DEF Publish, PublishPod, updateCb
<1>6. CASE EndPoll \/ ListActivePodsFails \/ EndCleanup \/ StopTracking
  BY <1>6 DEF EndPoll, ListActivePodsFails, EndCleanup, StopTracking, PollDone,
     ActivePodsNotListed, CleanupDone, LoopStops
<1>7. CASE ListActivePods
  BY <1>7 DEF ListActivePods, ActivePodsListed
<1>8. ASSUME NEW key \in dangling, CleanupPod(key) PROVE TypeOK'
  BY <1>8, PodUpdates DEF CleanupPod, CleanupOne, Unhost, getPodFromList
<1>9. ASSUME NEW key \in dangling, CleanupPodFails(key) PROVE TypeOK'
  BY <1>9 DEF CleanupPodFails, CleanupOne
<1>10. QED
  BY <1>1, <1>2, <1>3, <1>4, <1>5, <1>6, <1>7, <1>8, <1>9 DEF Tracker

(* The types of the tracker's state hold against any provider.               *)
THEOREM TypeCorrect == Spec => []TypeOK
<1>1. Init => TypeOK
  <2> SUFFICES ASSUME Init PROVE TypeOK
    OBVIOUS
  <2>1. LoopTypeOK
    BY DEF Init, LoopInit, LoopTypeOK, LoopPlaces
  <2>2. cancelled \in BOOLEAN
    BY DEF Init
  <2>3. QED
    BY <2>1, <2>2 DEF Init, TypeOK
<1>2. TypeOK /\ [Next]_vars => TypeOK'
  <2>1. TypeOK /\ UNCHANGED vars => TypeOK'
    BY DEF TypeOK, LoopTypeOK, vars, loopVars, envVars
  <2>2. QED
    BY <2>1, EnvironmentType, TrackerType DEF Next, Stopped
<1>3. QED
  BY <1>1, <1>2, PTL DEF Spec

-----------------------------------------------------------------------------
(* Lost pods *)

(* The copies of pods in use, some of them old. *)
Copies == lister \cup todo \cup current \cup posted \cup updating

(* What a copy says of an incarnation that is still bound: it is running only *)
(* if it was hosted, as it still is or else was lost since; it is failed as  *)
(* NotFound only if it was lost.                                             *)
Explained(p) ==
  /\ p.uid < nextUid
  /\ \A q \in lister : p.uid = q.uid =>
       /\ p.key = q.key
       /\ p.status.phase = "Running" => p.uid \in lost \/ p.key \in hosted
       /\ p.status.reason = "NotFound" => p.uid \in lost

CopiesAreExplained == \A p \in Copies : Explained(p)

LEMMA CopiesType == ASSUME TypeOK PROVE Copies \subseteq Pod
BY DEF TypeOK, LoopTypeOK, Copies

(* What a step may do to what explains a copy: incarnations are only added,  *)
(* and a key that is not hosted any more is lost by the pods bound to it.    *)
Evolves ==
  /\ nextUid <= nextUid'
  /\ lost \subseteq lost'
  /\ \A q \in lister' : \/ q.uid = nextUid
                       \/ \E r \in lister : r.uid = q.uid /\ r.key = q.key
  /\ \A q \in lister' : q.key \in hosted \ hosted' => q.uid \in lost'

LEMMA SamePodsEvolve ==
  ASSUME TypeOK, UNCHANGED <<nextUid, lost, hosted>>,
         \A q \in lister' : \E r \in lister : r.uid = q.uid /\ r.key = q.key
  PROVE  Evolves
BY DEF TypeOK, Evolves

LEMMA UnhostEvolves ==
  ASSUME TypeOK, NEW key, Unhost(key), UNCHANGED <<nextUid, lister>>
  PROVE  Evolves
BY DEF TypeOK, Unhost, getPodFromList, Evolves

LEMMA EnvironmentEvolves == TypeOK /\ Environment => Evolves
<1> SUFFICES ASSUME TypeOK, Environment PROVE Evolves
  OBVIOUS
<1>1. ASSUME NEW key \in Keys, Bind(key) PROVE Evolves
  <2>1. PICK new : new.uid = nextUid /\ lister' = lister \cup {new}
    BY <1>1 DEF Bind
  <2>2. QED
    BY <1>1, <2>1 DEF Bind, Evolves, TypeOK
<1>2. ASSUME NEW key \in Keys, Lose(key) PROVE Evolves
  BY <1>2, UnhostEvolves DEF Lose
<1>3. ASSUME NEW key \in Keys, Host(key) PROVE Evolves
  BY <1>3 DEF Host, Evolves, TypeOK
<1>4. ASSUME NEW pod \in lister, MarkDeleting(pod) \/ ProviderFails(pod)
      PROVE  Evolves
  <2>1. PICK new : /\ new.uid = pod.uid /\ new.key = pod.key
                   /\ lister' = (lister \ {pod}) \cup {new}
    BY <1>4 DEF MarkDeleting, ProviderFails, TypeOK, Pod
  <2>2. QED
    BY <1>4, <2>1, SamePodsEvolve DEF MarkDeleting, ProviderFails
<1>5. ASSUME NEW pod \in lister, Remove(pod) PROVE Evolves
  BY <1>5, SamePodsEvolve DEF Remove
<1>6. ASSUME NEW pod \in posted, WriteStatus(pod) PROVE Evolves
  <2>1. \A q \in lister' : \E r \in lister : r.uid = q.uid /\ r.key = q.key
    BY <1>6, WrittenPod
  <2>2. QED
    BY <1>6, <2>1, SamePodsEvolve DEF WriteStatus
<1>7. CASE UNCHANGED <<nextUid, lost, hosted, lister>>
  BY <1>7, SamePodsEvolve
<1>8. QED
  BY <1>1, <1>2, <1>3, <1>4, <1>5, <1>6, <1>7
     DEF Environment, Cancel, UpdatePodStatus, PostUpdate, envVars

LEMMA TrackerEvolves == TypeOK /\ Tracker => Evolves
<1> SUFFICES ASSUME TypeOK, Tracker PROVE Evolves
  OBVIOUS
<1>1. ASSUME NEW key \in dangling, CleanupPod(key) PROVE Evolves
  BY <1>1, UnhostEvolves DEF CleanupPod
<1>2. CASE UNCHANGED <<nextUid, lost, hosted, lister>>
  BY <1>2, SamePodsEvolve
<1>3. QED
  BY <1>1, <1>2
     DEF Tracker, StatusTimer, Visit, FetchPodStatus, FetchPodStatusFails,
         Publish, EndPoll, CleanupTimer, ListActivePods, ListActivePodsFails,
         CleanupPodFails, EndCleanup, StopTracking, envVars

(* A copy that is kept stays explained, *)
LEMMA StaysExplained ==
  ASSUME TypeOK, Evolves, NEW p \in Pod, Explained(p), nextUid' \in Nat
  PROVE  Explained(p)'
<1>1. p.uid \in Nat /\ p.uid < nextUid /\ nextUid \in Nat
  BY DEF TypeOK, Pod, Explained
<1>2. p.uid < nextUid'
  BY <1>1 DEF Evolves
<1>3. ASSUME NEW q \in lister', p.uid = q.uid
      PROVE  /\ p.key = q.key
             /\ p.status.phase = "Running" => p.uid \in lost' \/ p.key \in hosted'
             /\ p.status.reason = "NotFound" => p.uid \in lost'
  <2>1. PICK r \in lister : r.uid = q.uid /\ r.key = q.key
    BY <1>1, <1>3 DEF Evolves
  <2>2. QED
    BY <1>3, <2>1 DEF Explained, Evolves
<1>4. QED
  BY <1>2, <1>3 DEF Explained

(* and so is one that differs from it in what does not matter.               *)
LEMMA AlikeExplained ==
  ASSUME NEW p, NEW new, new.uid = p.uid, new.key = p.key,
         \/ new.status = p.status
         \/ new.status.phase # "Running" /\ new.status.reason # "NotFound",
         Explained(p)'
  PROVE  Explained(new)'
BY DEF Explained

LEMMA EnvironmentExplained ==
  TypeOK /\ TypeOK' /\ CopiesAreExplained /\ Environment => CopiesAreExplained'
<1> SUFFICES ASSUME TypeOK, TypeOK', CopiesAreExplained, Environment
             PROVE  CopiesAreExplained'
  OBVIOUS
<1>1. ASSUME NEW p \in Copies PROVE Explained(p)'
  BY <1>1, CopiesType, EnvironmentEvolves, StaysExplained
     DEF CopiesAreExplained, TypeOK
<1>2. CASE Copies' \subseteq Copies
  BY <1>1, <1>2 DEF CopiesAreExplained
<1>3. ASSUME NEW new, Copies' \subseteq Copies \cup {new}, Explained(new)'
      PROVE  CopiesAreExplained'
  BY <1>1, <1>3 DEF CopiesAreExplained
<1>4. ASSUME NEW key \in Keys, Bind(key) PROVE CopiesAreExplained'
  <2>1. PICK new : /\ new.uid = nextUid /\ new.status = NewStatus
                   /\ lister' = lister \cup {new}
    BY <1>4 DEF Bind
  <2>2. \A q \in lister : q.uid \in Nat /\ q.uid < nextUid
    BY DEF CopiesAreExplained, Explained, Copies, TypeOK, Pod
  <2>3. Explained(new)'
    <3>1. new.uid < nextUid'
      BY <1>4, <2>1 DEF Bind, TypeOK
    <3>2. \A q \in lister' : new.uid = q.uid => q = new
      BY <2>1, <2>2
    <3>3. NewStatus.phase = "Pending" /\ NewStatus.reason = ""
      BY DEF NewStatus
    <3>4. QED
      BY <2>1, <3>1, <3>2, <3>3 DEF Explained
  <2>4. Copies' \subseteq Copies \cup {new}
    BY <1>4, <2>1 DEF Bind, Copies, loopVars
  <2>5. QED
    BY <1>3, <2>3, <2>4
<1>5. ASSUME NEW pod \in lister, MarkDeleting(pod) \/ ProviderFails(pod)
      PROVE  CopiesAreExplained'
  <2>1. PICK new : /\ new.uid = pod.uid /\ new.key = pod.key
                   /\ \/ new.status = pod.status
                      \/ /\ new.status.phase = "Pending"
                         /\ new.status.reason = "ProviderFailed"
                   /\ lister' = (lister \ {pod}) \cup {new}
    BY <1>5 DEF MarkDeleting, ProviderFails, TypeOK, Pod, Status
  <2>2. Explained(new)'
    BY <1>1, <2>1, AlikeExplained DEF Copies
  <2>3. Copies' \subseteq Copies \cup {new}
    BY <1>5, <2>1 DEF MarkDeleting, ProviderFails, Copies, loopVars
  <2>4. QED
    BY <1>3, <2>2, <2>3
<1>6. ASSUME NEW pod \in posted, WriteStatus(pod) PROVE CopiesAreExplained'
  <2>1. ASSUME NEW new \in lister' PROVE Explained(new)'
    <3>1. PICK p \in lister :
            /\ new.key = p.key /\ new.uid = p.uid
            /\ \/ new.status = p.status
               \/ p.uid = pod.uid /\ new.status = pod.status
      BY <1>6, <2>1, WrittenPod
    <3>2. Explained(p)' /\ Explained(pod)'
      BY <1>1 DEF Copies
    <3>3. p.uid = pod.uid => p.key = pod.key
      BY DEF CopiesAreExplained, Copies, Explained
    <3>4. QED
      BY <3>1, <3>2, <3>3, AlikeExplained
  <2>2. Copies' \subseteq Copies \cup lister'
    BY <1>6 DEF WriteStatus, Copies, loopVars
  <2>3. QED
    BY <1>1, <2>1, <2>2 DEF CopiesAreExplained
<1>7. ASSUME NEW key \in Keys, NEW status \in UpdateStatuses,
             UpdatePodStatus(key, status)
      PROVE  CopiesAreExplained'
  <2>1. PICK pod \in lister :
          pod.key = key /\ updating' = updating \cup {[pod EXCEPT !.status = status]}
    BY <1>7 DEF UpdatePodStatus, getPodFromList
  <2>2. PICK new : /\ new.uid = pod.uid /\ new.key = pod.key
                   /\ new.status = status
                   /\ updating' = updating \cup {new}
    BY <2>1 DEF TypeOK, Pod
  <2>3. Explained(pod)' /\ pod.key \in hosted' /\ status.reason # "NotFound"
    BY <1>1, <1>7, <2>1, NotFoundAssumption DEF Copies, UpdatePodStatus
  <2>4. Explained(new)'
    BY <2>2, <2>3 DEF Explained
  <2>5. Copies' \subseteq Copies \cup {new}
    BY <1>7, <2>2 DEF UpdatePodStatus, Copies, loopVars
  <2>6. QED
    BY <1>3, <2>4, <2>5
<1>8. CASE Cancel \/ \E key \in Keys : Host(key) \/ Lose(key)
  BY <1>2, <1>8 DEF Host, Lose, Cancel, Copies, loopVars, envVars
<1>9. CASE \/ \E pod \in lister : Remove(pod)
           \/ \E pod \in updating : PostUpdate(pod)
  BY <1>2, <1>9 DEF Remove, PostUpdate, updateCb, Copies, loopVars
<1>10. QED
  BY <1>4, <1>5, <1>6, <1>7, <1>8, <1>9 DEF Environment

LEMMA TrackerExplained ==
  TypeOK /\ TypeOK' /\ CopiesAreExplained /\ Tracker => CopiesAreExplained'
<1> SUFFICES ASSUME TypeOK, TypeOK', CopiesAreExplained, Tracker
             PROVE  CopiesAreExplained'
  OBVIOUS
<1>1. ASSUME NEW p \in Copies PROVE Explained(p)'
  BY <1>1, CopiesType, TrackerEvolves, StaysExplained
     DEF CopiesAreExplained, TypeOK
<1>2. CASE Copies' \subseteq Copies
  BY <1>1, <1>2 DEF CopiesAreExplained
<1>3. ASSUME NEW pod \in current, NEW answer \in Answers,
             FetchPodStatus(pod, answer)
      PROVE  CopiesAreExplained'
  <2>1. ASSUME NEW new \in current' PROVE Explained(new)'
    <3>1. /\ new.key = pod.key /\ new.uid = pod.uid
          /\ \/ answer.kind = "status" /\ new.status = answer.status
             \/ /\ answer.kind \in {"nil", "notfound"}
                /\ pod.status.phase = "Running"
                /\ new.status.phase = "Failed"
      BY <1>3, <2>1, ProcessedPod
         DEF FetchPodStatus, FetchReturns, TypeOK, LoopTypeOK
    <3>2. /\ UNCHANGED <<hosted, lost, lister>>
          /\ Explained(pod) /\ Explained(pod)'
      BY <1>1, <1>3 DEF FetchPodStatus, envVars, CopiesAreExplained, Copies
    <3>3. CASE answer.kind = "status"
      <4>1. pod.key \in hosted /\ new.status.reason # "NotFound"
        BY <1>3, <3>1, <3>3, NotFoundAssumption DEF FetchPodStatus
      <4>2. QED
        BY <3>1, <3>2, <4>1 DEF Explained
    <3>4. CASE answer.kind # "status"
      <4>1. pod.key \notin hosted
        BY <1>3, <3>4 DEF FetchPodStatus
      <4>2. QED
        BY <3>1, <3>2, <3>4, <4>1 DEF Explained
    <3>5. QED
      BY <3>3, <3>4
  <2>2. Copies' \subseteq Copies \cup current'
    BY <1>3 DEF FetchPodStatus, FetchReturns, Copies, envVars
  <2>3. QED
    BY <1>1, <2>1, <2>2 DEF CopiesAreExplained
<1>4. ASSUME NEW pod \in current, FetchPodStatusFails(pod)
      PROVE  CopiesAreExplained'
  <2>1. current' = {}
    BY <1>4 DEF FetchPodStatusFails, FetchReturns, processPodUpdates
  <2>2. QED
    BY <1>2, <1>4, <2>1 DEF FetchPodStatusFails, FetchReturns, Copies, envVars
<1>5. ASSUME NEW pod \in todo, Visit(pod) PROVE CopiesAreExplained'
  BY <1>2, <1>5 DEF Visit, SkipPod, VisitPod, Copies, envVars
<1>6. ASSUME NEW pod \in current, Publish(pod) PROVE CopiesAreExplained'
  BY <1>2, <1>6 DEF Publish, PublishPod, updateCb, Copies
<1>7. CASE \/ StatusTimer \/ CleanupTimer
           \/ EndPoll \/ ListActivePods \/ ListActivePodsFails
           \/ EndCleanup \/ StopTracking
           \/ \E key \in dangling : CleanupPod(key) \/ CleanupPodFails(key)
  BY <1>2, <1>7
     DEF StatusTimer, CleanupTimer, EndPoll, ListActivePods,
         ListActivePodsFails, EndCleanup, StopTracking, CleanupPod,
         CleanupPodFails, StatusTimerFires, CleanupTimerFires, PollDone,
         ActivePodsListed, ActivePodsNotListed, CleanupOne, CleanupDone,
         LoopStops, Copies, envVars
<1>8. QED
  BY <1>3, <1>4, <1>5, <1>6, <1>7 DEF Tracker

(* However old the copy is on which the tracker or UpdatePodStatus works,    *)
(* and whatever was bound, removed and bound again since, a bound pod that   *)
(* is failed as NotFound was lost.                                           *)
THEOREM FailedOnlyIfLost == Spec => []FailedWasLost
<1>1. Init => CopiesAreExplained
  BY DEF Init, LoopInit, CopiesAreExplained, Copies
<1>2. TypeOK /\ TypeOK' /\ CopiesAreExplained /\ [Next]_vars
        => CopiesAreExplained'
  <2>1. CopiesAreExplained /\ UNCHANGED vars => CopiesAreExplained'
    BY DEF CopiesAreExplained, Copies, Explained, vars, loopVars, envVars
  <2>2. QED
    BY <2>1, EnvironmentExplained, TrackerExplained DEF Next, Stopped
<1>3. CopiesAreExplained => FailedWasLost
  BY DEF CopiesAreExplained, Copies, Explained, FailedWasLost
<1>4. QED
  BY <1>1, <1>2, <1>3, TypeCorrect, PTL DEF Spec
=============================================================================
