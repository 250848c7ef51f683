----------------------------- MODULE PodsTracker -----------------------------
(***************************************************************************)
(* The pods tracker (podsTracker.go) against any provider that implements  *)
(* PodsTrackerHandler and has no events to deliver, as the one of the      *)
(* repository has none: the sink given to FetchPodEvents is never called.  *)
(* The goroutine comes from TrackerLoop; this module adds what it shares   *)
(* with the rest of the process: the pod lister it reads, the callback it  *)
(* posts to and the provider it asks; and UpdatePodStatus, which a         *)
(* provider may call from any goroutine of its own.  The provider, the     *)
(* cluster and the pod controller behind the callback act at any moment    *)
(* between two steps of the goroutine.                                     *)
(***************************************************************************)
EXTENDS TrackerLoop

CONSTANTS
  HostStatuses,   \* the statuses a provider reports for a pod it hosts
  UpdateStatuses, \* the statuses it hands to UpdatePodStatus
  Failures,       \* the calls that may fail: a subset of Calls
  MaxUid          \* bound: incarnations of pods bound in a behaviour

(* The informer's lister reads memory and never fails. *)
Calls == {"status", "active", "cleanup"}

ASSUME TrackerAssumption ==
  /\ HostStatuses \subseteq Status
  /\ UpdateStatuses \subseteq Status
  /\ Failures \subseteq Calls
  /\ MaxUid \in Nat

(* NotFound is the tracker's own reason: no provider reports it. *)
ASSUME NotFoundAssumption ==
  \A status \in HostStatuses \cup UpdateStatuses : status.reason # "NotFound"

VARIABLES
  lister,          \* the pods PodsTracker.pods lists
  posted,          \* pods given to updateCb whose status is not written yet
  updating,        \* pods UpdatePodStatus has changed and not posted yet
  hosted,          \* keys of the pods the provider hosts
  nextUid,         \* identity of the next incarnation
  cancelled,       \* the context of StartTracking is done
  lost             \* history: incarnations bound when their key stopped
                   \* being hosted

envVars == <<lister, posted, updating, hosted, nextUid, lost>>
vars    == <<loopVars, envVars, cancelled>>

TypeOK ==
  /\ LoopTypeOK
  /\ lister \subseteq Pod
  /\ posted \subseteq Pod
  /\ updating \subseteq Pod
  /\ hosted \subseteq Keys
  /\ nextUid \in Nat
  /\ cancelled \in BOOLEAN
  /\ lost \subseteq Nat

Init ==
  /\ LoopInit
  /\ lister = {}
  /\ posted = {}
  /\ updating = {}
  /\ hosted = {}
  /\ nextUid = 1
  /\ cancelled = FALSE
  /\ lost = {}

Listed(key) == getPodFromList(lister, key) # {}

-----------------------------------------------------------------------------
(* The cluster and the pod controller *)

(* A pod is bound to the node and appears in the lister. *)
Bind(key) ==
  /\ ~Listed(key)
  /\ nextUid <= MaxUid
  /\ lister' = lister \cup {[key |-> key, uid |-> nextUid, gen |-> 1,
                             deleting |-> FALSE, status |-> NewStatus]}
  /\ nextUid' = nextUid + 1
  /\ UNCHANGED <<loopVars, posted, updating, hosted, lost, cancelled>>

MarkDeleting(pod) ==
  /\ pod \in lister
  /\ ~pod.deleting
  /\ lister' = (lister \ {pod}) \cup {[pod EXCEPT !.deleting = TRUE]}
  /\ UNCHANGED <<loopVars, posted, updating, hosted, nextUid, lost, cancelled>>

Remove(pod) ==
  /\ pod \in lister
  /\ pod.deleting
  /\ lister' = lister \ {pod}
  /\ UNCHANGED <<loopVars, posted, updating, hosted, nextUid, lost, cancelled>>

(* The pod controller refuses the provider's pod: CreatePod failed. *)
ProviderFails(pod) ==
  /\ pod \in lister
  /\ pod.status.phase = "Pending" /\ pod.status.reason = ""
  /\ pod.key \notin hosted
  /\ lister' = (lister \ {pod})
                 \cup {[pod EXCEPT !.status.reason = "ProviderFailed"]}
  /\ UNCHANGED <<loopVars, posted, updating, hosted, nextUid, lost, cancelled>>

(* The pod controller writes the status posted last for a key; the write is *)
(* refused for another incarnation and not tried for a finished pod. *)
WriteStatus(pod) ==
  /\ pod \in posted
  /\ posted' = posted \ {pod}
  /\ lister' = {IF p.key = pod.key /\ p.uid = pod.uid /\ ~Finished(p)
                  THEN [p EXCEPT !.status = pod.status] ELSE p : p \in lister}
  /\ UNCHANGED <<loopVars, updating, hosted, nextUid, lost, cancelled>>

-----------------------------------------------------------------------------
(* The provider *)

(* CreatePod of a listed pod succeeded. *)
Host(key) ==
  /\ \E pod \in getPodFromList(lister, key) :
       ~shouldSkipPodStatusUpdate(pod)
  /\ key \notin hosted
  /\ hosted' = hosted \cup {key}
  /\ UNCHANGED <<loopVars, lister, posted, updating, nextUid, lost, cancelled>>

(* From now on FetchPodStatus does not know the key. *)
Unhost(key) ==
  /\ hosted' = hosted \ {key}
  /\ lost' = lost \cup {pod.uid : pod \in getPodFromList(lister, key)}

(* The container group of a hosted pod is gone, by itself or deleted. *)
Lose(key) ==
  /\ key \in hosted
  /\ Unhost(key)
  /\ UNCHANGED <<loopVars, lister, posted, updating, nextUid, cancelled>>

(* UpdatePodStatus, called by the provider for a pod it hosts: a copy of     *)
(* what is listed now is changed, and given to updateCb some time later.     *)
UpdatePodStatus(key, status) ==
  /\ key \in hosted
  /\ \E pod \in getPodFromList(lister, key) :
       updating' = updating \cup {[pod EXCEPT !.status = status]}
  /\ UNCHANGED <<loopVars, lister, posted, hosted, nextUid, lost, cancelled>>

(* updateCb keeps the pod it was given last for a key. *)
updateCb(pod) == posted' = {p \in posted : p.key # pod.key} \cup {pod}

PostUpdate(pod) ==
  /\ pod \in updating
  /\ updating' = updating \ {pod}
  /\ updateCb(pod)
  /\ UNCHANGED <<loopVars, lister, hosted, nextUid, lost, cancelled>>

-----------------------------------------------------------------------------
(* The tracker *)

StatusTimer == StatusTimerFires(lister) /\ UNCHANGED <<envVars, cancelled>>

(* processPodUpdates decides whether the copy it was given needs an update.  *)
Visit(pod) ==
  /\ SkipPod(pod) \/ VisitPod(pod)
  /\ UNCHANGED <<envVars, cancelled>>

FetchPodStatus(pod, answer) ==
  /\ \/ pod.key \in hosted /\ answer.kind = "status"
                           /\ answer.status \in HostStatuses
     \/ pod.key \notin hosted /\ answer.kind \in {"nil", "notfound"}
  /\ FetchReturns(pod, answer)
  /\ UNCHANGED <<envVars, cancelled>>

FetchPodStatusFails(pod) ==
  /\ "status" \in Failures
  /\ FetchReturns(pod, [kind |-> "error"])
  /\ UNCHANGED <<envVars, cancelled>>

Publish(pod) ==
  /\ PublishPod(pod)
  /\ updateCb(pod)
  /\ UNCHANGED <<lister, updating, hosted, nextUid, lost, cancelled>>

EndPoll == PollDone /\ UNCHANGED <<envVars, cancelled>>

CleanupTimer == CleanupTimerFires(lister) /\ UNCHANGED <<envVars, cancelled>>

ListActivePods == ActivePodsListed(hosted) /\ UNCHANGED <<envVars, cancelled>>

ListActivePodsFails ==
  /\ "active" \in Failures
  /\ ActivePodsNotListed
  /\ UNCHANGED <<envVars, cancelled>>

CleanupPod(key) ==
  /\ CleanupOne(key)
  /\ Unhost(key)
  /\ UNCHANGED <<lister, posted, updating, nextUid, cancelled>>

CleanupPodFails(key) ==
  /\ "cleanup" \in Failures
  /\ CleanupOne(key)
  /\ UNCHANGED <<envVars, cancelled>>

EndCleanup == CleanupDone /\ UNCHANGED <<envVars, cancelled>>

(* select takes the Done channel of a context that was cancelled. *)
StopTracking ==
  /\ cancelled
  /\ LoopStops
  /\ UNCHANGED <<envVars, cancelled>>

(* The process is told to stop. *)
Cancel ==
  /\ ~cancelled
  /\ cancelled' = TRUE
  /\ UNCHANGED <<loopVars, envVars>>

-----------------------------------------------------------------------------
Environment ==
  \/ Cancel
  \/ \E key \in Keys : Bind(key) \/ Host(key) \/ Lose(key)
  \/ \E pod \in lister : MarkDeleting(pod) \/ Remove(pod) \/ ProviderFails(pod)
  \/ \E pod \in posted : WriteStatus(pod)
  \/ \E key \in Keys, status \in UpdateStatuses : UpdatePodStatus(key, status)
  \/ \E pod \in updating : PostUpdate(pod)

Tracker ==
  \/ StatusTimer
  \/ \E pod \in todo : Visit(pod)
  \/ \E pod \in current :
       \/ \E answer \in Answers : FetchPodStatus(pod, answer)
       \/ FetchPodStatusFails(pod)
       \/ Publish(pod)
  \/ EndPoll
  \/ CleanupTimer
  \/ ListActivePods
  \/ ListActivePodsFails
  \/ \E key \in dangling : CleanupPod(key) \/ CleanupPodFails(key)
  \/ EndCleanup
  \/ StopTracking

(* Nothing is left to happen once StartTracking has returned. *)
Stopped == pc = "stopped" /\ UNCHANGED vars

Next == Environment \/ Tracker \/ Stopped

(* The goroutine is scheduled, and select picks any ready timer, so neither *)
(* starves the other.  A call of the provider that is repeated for ever     *)
(* succeeds for ever often.  The pod controller's workers write statuses.   *)
Fairness ==
  /\ WF_vars(Tracker)
  /\ SF_vars(StatusTimer)
  /\ SF_vars(CleanupTimer)
  /\ SF_vars(StopTracking)
  /\ SF_vars(ListActivePods)
  /\ \A key \in Keys :
       /\ SF_vars(CleanupPod(key))
       /\ SF_vars(\E pod \in todo : pod.key = key /\ Visit(pod))
       /\ SF_vars(\E pod \in current, answer \in Answers :
                    pod.key = key /\ FetchPodStatus(pod, answer))
       /\ WF_vars(\E pod \in posted : pod.key = key /\ WriteStatus(pod))

Spec == Init /\ [][Next]_vars /\ Fairness

-----------------------------------------------------------------------------
(* Properties *)

(* A pod is failed as NotFound only if the provider lost it: its key was    *)
(* hosted and stopped being so while this incarnation was bound.  A pod     *)
(* whose creation is still under way, and a pod the provider could not be   *)
(* asked about, are never failed ("Only change the status when the pod was  *)
(* already up"), however old the copy the loop works on is.                 *)
FailedWasLost ==
  \A pod \in lister : pod.status.reason = "NotFound" => pod.uid \in lost

(* A bound pod that ran and is not hosted any more is eventually reported   *)
(* as finished, unless it is deleted, hosted again or the tracker is told   *)
(* to stop: the loop polls for ever and an error does not end it.           *)
Unreported(key) ==
  /\ key \notin hosted
  /\ \E pod \in getPodFromList(lister, key) :
       pod.status.phase = "Running" /\ ~shouldSkipPodStatusUpdate(pod)

LossIsReported ==
  \A key \in Keys : Unreported(key) ~> (~Unreported(key) \/ cancelled)

(* What the provider hosts for no pod of the cluster is eventually cleaned  *)
(* up, whatever listing or cleaning attempts fail in between.               *)
Dangling(key) == key \in hosted /\ ~Listed(key)

DanglingIsCleaned ==
  \A key \in Keys : Dangling(key) ~> (~Dangling(key) \/ cancelled)

(* A cancelled context ends the goroutine, whatever it was doing.           *)
StopsWhenCancelled == cancelled ~> (pc = "stopped")

(* The cleanup deletes dangling pods only: no pod the cluster has bound to  *)
(* the node loses what hosts it.                                            *)
CleanupSparesBoundPods ==
  [][\A key \in dangling : CleanupPod(key) => ~Listed(key)]_vars
=============================================================================
