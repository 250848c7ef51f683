----------------------------- MODULE TrackerLoop -----------------------------
(***************************************************************************)
(* The loop of the tracker goroutine (PodsTracker.StartTracking): its      *)
(* program counter, what it holds in local variables while it iterates,    *)
(* and its steps, written as actions on those variables alone.  A module   *)
(* that extends this one says what the lister, the handler and the         *)
(* callback do in the same step: PodsTracker against any handler,          *)
(* CloudRunKubelet against the Cloud Run provider.                         *)
(*                                                                         *)
(* The goroutine is at one of these places:                                *)
(*   "select"   waiting in the select of StartTracking                     *)
(*   "poll"     in the for loop of updatePodsLoop                          *)
(*   "fetch"    in processPodUpdates, about to call FetchPodStatus         *)
(*   "publish"  about to call updateCb with the pod it just updated        *)
(*   "list"     in cleanupDanglingPods, between pods.List and              *)
(*              ListActivePods                                             *)
(*   "cleanup"  in the for loop of cleanupDanglingPods                     *)
(*   "stopped"  StartTracking returned because the context was cancelled   *)
(***************************************************************************)
EXTENDS PodStatus

VARIABLES
  pc,         \* where the goroutine is
  todo,       \* copies of the listed pods the current loop has yet to visit
  current,    \* the pod being processed: at most one
  dangling    \* the pods cleanupDanglingPods has yet to clean up

loopVars == <<pc, todo, current, dangling>>

LoopPlaces == {"select", "poll", "fetch", "publish", "list", "cleanup",
               "stopped"}

LoopTypeOK ==
  /\ pc \in LoopPlaces
  /\ todo \subseteq Pod
  /\ current \subseteq Pod
  /\ dangling \subseteq Keys

(* StartTracking: both timers are armed and nothing is being processed. *)
LoopInit ==
  /\ pc = "select"
  /\ todo = {}
  /\ current = {}
  /\ dangling = {}

-----------------------------------------------------------------------------
(* updatePodsLoop *)

(* The status timer fires; the loop lists the pods once, before it visits *)
(* any of them, and works on copies from then on. *)
StatusTimerFires(list) ==
  /\ pc = "select"
  /\ pc' = "poll"
  /\ todo' = list
  /\ UNCHANGED <<current, dangling>>

(* processPodUpdates returns false because the copy needs no update. *)
SkipPod(pod) ==
  /\ pc = "poll"
  /\ pod \in todo
  /\ shouldSkipPodStatusUpdate(pod)
  /\ todo' = todo \ {pod}
  /\ UNCHANGED <<pc, current, dangling>>

(* processPodUpdates goes on to ask the handler. *)
VisitPod(pod) ==
  /\ pc = "poll"
  /\ pod \in todo
  /\ ~shouldSkipPodStatusUpdate(pod)
  /\ pc' = "fetch"
  /\ todo' = todo \ {pod}
  /\ current' = {pod}
  /\ UNCHANGED dangling

(* The answer of FetchPodStatus arrives. *)
FetchReturns(pod, answer) ==
  /\ pc = "fetch"
  /\ current = {pod}
  /\ current' = processPodUpdates(pod, answer)
  /\ pc' = IF current' = {} THEN "poll" ELSE "publish"
  /\ UNCHANGED <<todo, dangling>>

(* updateCb is called with the updated copy. *)
PublishPod(pod) ==
  /\ pc = "publish"
  /\ current = {pod}
  /\ current' = {}
  /\ pc' = "poll"
  /\ UNCHANGED <<todo, dangling>>

(* The loop is over: the timer is reset and select entered again. *)
PollDone ==
  /\ pc = "poll"
  /\ todo = {}
  /\ pc' = "select"
  /\ UNCHANGED <<todo, current, dangling>>

-----------------------------------------------------------------------------
(* cleanupDanglingPods *)

(* The cleanup timer fires; Kubernetes is listed first. *)
CleanupTimerFires(list) ==
  /\ pc = "select"
  /\ pc' = "list"
  /\ todo' = list
  /\ UNCHANGED <<current, dangling>>

(* Mutant: what the list has is cleaned up. *)
ActivePodsListedInverted(active) ==
  /\ pc = "list"
  /\ pc' = "cleanup"
  /\ dangling' = {key \in active : getPodFromList(todo, key) # {}}
  /\ todo' = {}
  /\ UNCHANGED current

(* ListActivePods answers: what the provider has and the list has not. *)
ActivePodsListed(active) ==
  /\ pc = "list"
  /\ pc' = "cleanup"
  /\ dangling' = {key \in active : getPodFromList(todo, key) = {}}
  /\ todo' = {}
  /\ UNCHANGED current

(* ListActivePods fails: the cleanup is given up. *)
ActivePodsNotListed ==
  /\ pc = "list"
  /\ pc' = "select"
  /\ todo' = {}
  /\ UNCHANGED <<current, dangling>>

(* CleanupPod is called for one of them; an error is only logged. *)
CleanupOne(key) ==
  /\ pc = "cleanup"
  /\ key \in dangling
  /\ dangling' = dangling \ {key}
  /\ UNCHANGED <<pc, todo, current>>

CleanupDone ==
  /\ pc = "cleanup"
  /\ dangling = {}
  /\ pc' = "select"
  /\ UNCHANGED <<todo, current, dangling>>

-----------------------------------------------------------------------------
(* Mutant: a break that leaves the select and not the loop around it. *)
LoopGoesOn ==
  /\ pc = "select"
  /\ UNCHANGED <<pc, todo, current, dangling>>

(* The context is done: both timers are stopped and StartTracking returns. *)
LoopStops ==
  /\ pc = "select"
  /\ pc' = "stopped"
  /\ UNCHANGED <<todo, current, dangling>>
=============================================================================
