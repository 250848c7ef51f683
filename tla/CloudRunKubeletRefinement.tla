---------------------- MODULE CloudRunKubeletRefinement ----------------------
(***************************************************************************)
(* CloudRunKubelet implements PodLifecycle, for every value of its         *)
(* constants: the initial states are initial, and every step is a step of  *)
(* the life of one pod or changes nothing of it.                           *)
(***************************************************************************)
EXTENDS CloudRunKubeletProofs

-----------------------------------------------------------------------------
(* The identities in use are among those of the abstract specification. *)

InRange ==
  /\ nextUid \in 1..MaxUid + 1
  /\ \A p \in api \cup cache : p.uid \in 1..MaxUid
  /\ \A call \in calls \cup adrift : call.pod.uid \in 1..MaxUid

LEMMA InRangeFrame ==
  ASSUME InRange, UNCHANGED <<api, cache, calls, nextUid>>, adrift' \subseteq adrift
  PROVE  InRange'
BY DEF InRange

LEMMA ExitInRange ==
  ASSUME NEW cause, NEW sent \in SUBSET calls
  PROVE  InRange /\ Exit(cause, sent) => InRange'
BY DEF InRange, Exit, clusterVars

LEMMA ClusterInRange == TypeOK /\ InRange /\ Cluster => InRange'
<1> SUFFICES ASSUME TypeOK, InRange, Cluster PROVE InRange'
  OBVIOUS
<1> USE DEF InRange, unchangedButCluster, providerVars, libraryVars
<1>1. ASSUME NEW key \in Keys, BindPod(key) PROVE InRange'
  <2>1. PICK new : new.uid = nextUid /\ api' = api \cup {new}
    BY <1>1 DEF BindPod
  <2>2. /\ nextUid <= MaxUid /\ nextUid' = nextUid + 1
        /\ UNCHANGED <<cache, calls, adrift>>
    BY <1>1 DEF BindPod
  <2>3. QED
    BY <2>1, <2>2, KubeletAssumption
<1>2. ASSUME NEW pod \in api, EditPod(pod) \/ RequestDelete(pod)
      PROVE  InRange'
  <2>1. pod \in Pod
    BY DEF TypeOK
  <2>2. PICK new : new.uid = pod.uid /\ api' = (api \ {pod}) \cup {new}
    BY <1>2, <2>1 DEF EditPod, RequestDelete, Pod
  <2>3. UNCHANGED <<cache, calls, adrift, nextUid>>
    BY <1>2 DEF EditPod, RequestDelete
  <2>4. QED
    BY <2>2, <2>3
<1>3. ASSUME NEW pod \in api, ForceRemove(pod) PROVE InRange'
  BY <1>3 DEF ForceRemove
<1>4. QED
  BY <1>1, <1>2, <1>3 DEF Cluster

LEMMA WorkerInRange == StoreStaysEmpty /\ InRange /\ Worker => InRange'
<1> SUFFICES ASSUME StoreStaysEmpty, InRange, Worker PROVE InRange'
  OBVIOUS
<1>1. UNCHANGED <<api, cache, adrift, nextUid>>
  BY DEF Worker, SyncGone, SyncForceDelete, SyncDelete, SyncNothing, SyncPod,
         unchangedButWorker, clusterVars
<1>2. \A call \in calls' \ calls : \E pod \in cache : call.pod.uid = pod.uid
  <2>1. CASE \E key \in syncQ : SyncGone(key)
    BY <2>1, EmptyStore DEF SyncGone, StoreStaysEmpty
  <2>2. CASE \E pod \in cache : \/ SyncForceDelete(pod)
                                \/ SyncDelete(pod)
                                \/ SyncNothing(pod)
    BY <2>2 DEF SyncForceDelete, SyncDelete, SyncNothing, DeletePod, VersionOf
  <2>3. CASE \E pod \in cache : SyncPod(pod)
    BY <2>3, EmptyStore DEF SyncPod, CreatePod, StoreStaysEmpty, VersionOf
  <2>4. QED
    BY <2>1, <2>2, <2>3 DEF Worker
<1>3. QED
  BY <1>1, <1>2 DEF InRange

LEMMA CallStepInRange ==
  ASSUME TypeOK, InRange, NEW call \in calls, CallStep(call)
  PROVE  InRange'
<1>1. CASE CreateStep(call) \/ DeleteStep(call)
  <2>1. call \in Call
    BY DEF TypeOK, ProviderTypeOK
  <2>2. PICK next : /\ next.pod = call.pod
                    /\ calls' = (calls \ {call}) \cup {next}
    BY <1>1, <2>1 DEF CreateStep, DeleteStep, CreateAccepted, DeleteAccepted, Call
  <2>3. QED
    BY <1>1, <2>2 DEF CreateStep, DeleteStep, CreateAccepted, DeleteAccepted,
       unchangedButCall, clusterVars, InRange
<1>2. CASE CreateReturn(call) \/ DeleteReturn(call)
  BY <1>2 DEF CreateReturn, DeleteReturn, CreatePodReturns, DeletePodReturns,
              unchangedButCall, clusterVars, InRange
<1>3. CASE CreatePanic(call) \/ DeletePanic(call)
  BY <1>3, SentCalls, ExitInRange DEF CreatePanic, DeletePanic
<1>4. QED
  BY <1>1, <1>2, <1>3 DEF CallStep

LEMMA ApiWritesInRange ==
  TypeOK /\ InRange /\ (\/ \E uid \in deleteQ : DeleteFromApi(uid)
                       \/ \E pod \in posted : WriteStatus(pod)) => InRange'
<1>1. ASSUME InRange, NEW uid \in deleteQ, DeleteFromApi(uid) PROVE InRange'
  BY <1>1 DEF DeleteFromApi, InRange, providerVars
<1>2. ASSUME TypeOK, InRange, NEW pod \in posted, WriteStatus(pod) PROVE InRange'
  <2>1. \A p \in api : [p EXCEPT !.status = pod.status].uid = p.uid
    BY <1>2 DEF TypeOK, Pod
  <2>2. QED
    BY <1>2, <2>1 DEF WriteStatus, InRange, providerVars
<1>3. QED
  BY <1>1, <1>2

LEMMA InRangeInvariant == Spec => []InRange
<1>1. Init => InRange
  BY KubeletAssumption DEF Init, InRange
<1>2. TypeOK /\ StoreStaysEmpty /\ InRange /\ [Next]_vars => InRange'
  <2> SUFFICES ASSUME TypeOK, StoreStaysEmpty, InRange, [Next]_vars
               PROVE  InRange'
    OBVIOUS
  <2>1. CASE \E key \in Keys : Informer(key)
    BY <2>1 DEF Informer, ObserveAdd, ObserveUpdate, ObserveDelete,
         unchangedButInformer, providerVars, clusterVars, InRange
  <2>2. CASE Tracker
    <3>1. CASE \E pod \in current : FetchPanic(pod)
      BY <3>1, SentCalls, ExitInRange DEF FetchPanic
    <3>2. CASE ~\E pod \in current : FetchPanic(pod)
      BY <2>2, <3>2, InRangeFrame DEF Tracker, StatusTimer, Visit,
           FetchPodStatus, Publish, EndPoll, CleanupTimer, ListActive, Cleanup,
           unchangedButTracker, providerVars, clusterVars
    <3>3. QED
      BY <3>1, <3>2
  <2>3. CASE \E service \in services :
               Settles(service) \/ FinishesDelete(service) \/ Meddle(service)
    BY <2>3, InRangeFrame DEF Settles, Settle, FinishesDelete, FinishDelete,
         Meddle, DeletedElsewhere, Redeployed, unchangedButServices,
         clusterVars, libraryVars
  <2>4. CASE Stop
    BY <2>4, SentCalls, ExitInRange DEF Stop
  <2>5. CASE Start
    BY <2>5, InRangeFrame DEF Start, clusterVars, libraryVars
  <2>6. CASE UNCHANGED vars
    BY <2>6, InRangeFrame DEF vars, providerVars, clusterVars, libraryVars
  <2>7. CASE StayDown
    BY <2>6, <2>7 DEF StayDown
  <2>8. CASE \E call \in adrift : ArrivesLate(call)
    BY <2>8, InRangeFrame DEF ArrivesLate, Arrives, unchangedButServices,
       clusterVars, libraryVars
  <2>9. QED
    BY <2>1, <2>2, <2>3, <2>4, <2>5, <2>6, <2>7, <2>8, ClusterInRange, WorkerInRange,
       CallStepInRange, ApiWritesInRange DEF Next
<1>3. QED
  BY <1>1, <1>2, TypeCorrect, StoreEmpty, PTL DEF Spec
-----------------------------------------------------------------------------
(* The mapping, and what each action does to it. *)

Bound      == {pod.uid : pod \in {p \in api : ~p.deleting}}
Leaving    == {pod.uid : pod \in {p \in api : p.deleting}}
Creating   == {call.pod.uid : call \in {c \in calls : c.op = "create"}}
InDeletion == {call.pod.uid : call \in {c \in calls : c.op = "delete"}}
Adrift     == {call.pod.uid : call \in {c \in adrift : c.op = "create"}}
Served     == {service.owner : service \in services}

unchangedApi == UNCHANGED <<nextUid, Bound, Leaving>>
unchangedWork == UNCHANGED <<Creating, InDeletion, ended, Adrift>>

LEMMA ApiFrame == UNCHANGED <<api, nextUid>> => unchangedApi
BY DEF unchangedApi, Bound, Leaving

LEMMA WorkFrame == UNCHANGED <<calls, ended, adrift>> => unchangedWork
BY DEF unchangedWork, Creating, InDeletion, Adrift

LEMMA AdriftFrame == UNCHANGED adrift => UNCHANGED Adrift
BY DEF Adrift

LEMMA ServedFrame == UNCHANGED services => UNCHANGED Served
BY DEF Served

LifecycleStep == Lifecycle!Next \/ UNCHANGED Lifecycle!vars

LEMMA Stutter ==
  unchangedApi /\ unchangedWork /\ UNCHANGED Served => LifecycleStep
BY DEF unchangedApi, unchangedWork, Bound, Leaving, Creating, InDeletion,
       Adrift, Served, LifecycleStep, Lifecycle!vars

(* What is being taken down still has its owner. *)
LEMMA SameOwners ==
  ASSUME ProviderTypeOK, NEW name, services' = Deleting(name)
  PROVE  UNCHANGED Served
<1>1. \A s \in services : [s EXCEPT !.deleting = TRUE].owner = s.owner
  BY DEF ProviderTypeOK, Service
<1>2. QED
  BY <1>1 DEF Deleting, Served

(* The cluster: bindings, requests to go, and removals. *)
LEMMA ClusterSteps ==
  TypeOK /\ Incarnations /\ InRange /\ Cluster => LifecycleStep
<1> SUFFICES ASSUME TypeOK, Incarnations, InRange, Cluster PROVE LifecycleStep
  OBVIOUS
<1>1. unchangedWork /\ UNCHANGED Served
  BY WorkFrame, ServedFrame DEF Cluster, BindPod, EditPod, RequestDelete,
     ForceRemove, unchangedButCluster, providerVars, historyVars
<1>2. ASSUME NEW key \in Keys, BindPod(key) PROVE LifecycleStep
  <2>1. PICK new : /\ new.uid = nextUid /\ ~new.deleting
                   /\ api' = api \cup {new}
    BY <1>2 DEF BindPod
  <2>2. /\ nextUid \in 1..MaxUid
        /\ nextUid' = nextUid + 1
    BY <1>2, KubeletAssumption DEF BindPod, InRange
  <2>3. Bound' = Bound \cup {nextUid} /\ UNCHANGED Leaving
    BY <2>1 DEF Bound, Leaving
  <2>4. /\ nextUid \in nextUid..MaxUid
        /\ (nextUid')..MaxUid = (nextUid..MaxUid) \ {nextUid}
    BY <2>2, KubeletAssumption
  <2>5. PICK uid \in 1..MaxUid : uid = nextUid
    BY <2>2
  <2>6. Lifecycle!Bind(uid)
    BY <1>1, <2>3, <2>4, <2>5 DEF Lifecycle!Bind, Lifecycle!workVars, unchangedWork,
       Bound, Leaving, Creating, InDeletion, Adrift, Served
  <2>7. QED
    BY <2>6 DEF LifecycleStep, Lifecycle!Next
<1>3. ASSUME NEW pod \in api, EditPod(pod) PROVE LifecycleStep
  <2>1. PICK new : /\ new.uid = pod.uid /\ new.deleting = pod.deleting
                   /\ api' = (api \ {pod}) \cup {new}
    BY <1>3 DEF EditPod, TypeOK, Pod
  <2>2. UNCHANGED <<Bound, Leaving>>
    BY <2>1 DEF Bound, Leaving
  <2>3. QED
    BY <1>1, <1>3, <2>2, Stutter DEF EditPod, unchangedApi
<1>4. ASSUME NEW pod \in api, RequestDelete(pod) PROVE LifecycleStep
  <2>1. PICK new : /\ new.uid = pod.uid /\ new.deleting
                   /\ api' = (api \ {pod}) \cup {new}
    BY <1>4 DEF RequestDelete, TypeOK, Pod
  <2>2. \A p \in api : p.uid = pod.uid => p = pod
    BY DEF Incarnations
  <2>3. /\ pod.uid \in Bound
        /\ Bound' = Bound \ {pod.uid}
        /\ Leaving' = Leaving \cup {pod.uid}
    BY <1>4, <2>1, <2>2 DEF RequestDelete, Bound, Leaving
  <2>4. Lifecycle!RequestDelete(pod.uid)
    BY <1>1, <1>4, <2>3 DEF RequestDelete, Lifecycle!RequestDelete,
       Lifecycle!workVars, unchangedWork, Bound, Leaving, Creating, InDeletion,
       Adrift, Served
  <2>5. pod.uid \in 1..MaxUid
    BY DEF InRange
  <2>6. QED
    BY <2>4, <2>5 DEF LifecycleStep, Lifecycle!Next
<1>5. ASSUME NEW pod \in api, ForceRemove(pod) PROVE LifecycleStep
  <2>1. \A p \in api : p.uid = pod.uid => p = pod
    BY DEF Incarnations
  <2>2. /\ pod.uid \in Leaving
        /\ UNCHANGED Bound
        /\ Leaving' = Leaving \ {pod.uid}
    BY <1>5, <2>1 DEF ForceRemove, Bound, Leaving
  <2>3. Lifecycle!Vanish(pod.uid)
    BY <1>1, <1>5, <2>2 DEF ForceRemove, Lifecycle!Vanish,
       Lifecycle!workVars, unchangedWork, Bound, Leaving, Creating, InDeletion,
       Adrift, Served
  <2>4. pod.uid \in 1..MaxUid
    BY DEF InRange
  <2>5. QED
    BY <2>3, <2>4 DEF LifecycleStep, Lifecycle!Next
<1>6. QED
  BY <1>2, <1>3, <1>4, <1>5 DEF Cluster

(* A worker begins a creation, gives a pod up, or does nothing that shows.   *)
LEMMA WorkerSteps ==
  TypeOK /\ StoreStaysEmpty /\ Incarnations /\ InRange /\ Worker => LifecycleStep
<1> SUFFICES ASSUME TypeOK, StoreStaysEmpty, Incarnations, InRange, Worker
             PROVE  LifecycleStep
  OBVIOUS
<1>1. unchangedApi /\ UNCHANGED <<Served, Adrift>>
  BY ApiFrame, ServedFrame, AdriftFrame DEF Worker, SyncGone, SyncForceDelete, SyncDelete,
     SyncNothing, SyncPod, unchangedButWorker, clusterVars
<1>2. ASSUME NEW pod \in cache, Dequeue(pod.key)
      PROVE  /\ pod.uid \in 1..MaxUid
             /\ pod.uid \notin nextUid..MaxUid
             /\ pod.uid \notin Creating \cup InDeletion
  <2>1. pod.uid \in 1..MaxUid /\ pod.uid < nextUid
    BY DEF InRange, Incarnations
  <2>2. \A call \in calls : call.pod.uid # pod.uid
    BY <1>2 DEF Dequeue, Incarnations
  <2>3. QED
    BY <2>1, <2>2 DEF InRange, Creating, InDeletion
<1>3. ASSUME NEW pod \in cache, pod.deleting
      PROVE  pod.uid \notin Bound
  BY <1>3 DEF Incarnations, Bound
<1>4. ASSUME NEW pod \in cache, Dequeue(pod.key), pod.deleting,
             ended' = ended \cup {pod.uid}, UNCHANGED Creating,
             InDeletion' \in {InDeletion, InDeletion \cup {pod.uid}}
      PROVE  LifecycleStep
  <2>1. Lifecycle!GiveUp(pod.uid)
    BY <1>1, <1>2, <1>3, <1>4 DEF Lifecycle!GiveUp, Lifecycle!Idle, unchangedApi,
       Bound, Leaving, Creating, InDeletion, Adrift, Served
  <2>2. QED
    BY <1>2, <1>4, <2>1 DEF LifecycleStep, Lifecycle!Next
<1>5. CASE \E key \in syncQ : SyncGone(key)
  BY <1>1, <1>5, EmptyStore, WorkFrame, Stutter
     DEF SyncGone, StoreStaysEmpty, historyVars, unchangedButWorker
<1>6. ASSUME NEW pod \in cache, SyncForceDelete(pod) PROVE LifecycleStep
  <2>1. UNCHANGED <<Creating, InDeletion>>
    BY <1>6 DEF SyncForceDelete, Creating, InDeletion
  <2>2. QED
    BY <1>4, <1>6, <2>1 DEF SyncForceDelete
<1>7. ASSUME NEW pod \in cache, SyncDelete(pod) PROVE LifecycleStep
  <2>1. PICK call : /\ call.op = "delete" /\ call.pod.uid = pod.uid
                    /\ calls' = calls \cup {call}
    BY <1>7 DEF SyncDelete, DeletePod, VersionOf
  <2>2. UNCHANGED Creating /\ InDeletion' = InDeletion \cup {pod.uid}
    BY <2>1 DEF Creating, InDeletion
  <2>3. QED
    BY <1>4, <1>7, <2>2 DEF SyncDelete
<1>8. CASE \E pod \in cache : SyncNothing(pod)
  BY <1>1, <1>8, WorkFrame, Stutter
     DEF SyncNothing, historyVars, unchangedButWorker
<1>9. ASSUME NEW pod \in cache, SyncPod(pod) PROVE LifecycleStep
  <2>1. CreatePod(pod) /\ UNCHANGED ended
    BY <1>9, EmptyStore DEF SyncPod, StoreStaysEmpty
  <2>2. PICK call : /\ call.op = "create" /\ call.pod.uid = pod.uid
                    /\ calls' = calls \cup {call}
    BY <2>1 DEF CreatePod, VersionOf
  <2>3. Creating' = Creating \cup {pod.uid} /\ UNCHANGED InDeletion
    BY <2>2 DEF Creating, InDeletion
  <2>4. pod.uid \notin ended /\ Dequeue(pod.key)
    BY <1>9 DEF SyncPod, Incarnations
  <2>5. Lifecycle!BeginCreate(pod.uid)
    BY <1>1, <1>2, <2>1, <2>3, <2>4 DEF Lifecycle!BeginCreate, Lifecycle!Idle,
       unchangedApi, Bound, Leaving, Creating, InDeletion, Adrift, Served
  <2>6. QED
    BY <1>2, <2>4, <2>5 DEF LifecycleStep, Lifecycle!Next
<1>10. QED
  BY <1>5, <1>6, <1>7, <1>8, <1>9 DEF Worker

LEMMA ExitSteps ==
  ASSUME NEW cause, NEW sent \in SUBSET calls
  PROVE  Exit(cause, sent) => LifecycleStep
<1> SUFFICES ASSUME Exit(cause, sent) PROVE LifecycleStep
  OBVIOUS
<1> DEFINE Late == {call.pod.uid : call \in {c \in sent : c.op = "create"}}
<1>1. unchangedApi /\ UNCHANGED <<Served, ended>>
  BY ApiFrame, ServedFrame DEF Exit, clusterVars, historyVars
<1>2. Creating' = {} /\ InDeletion' = {}
  BY DEF Exit, Creating, InDeletion
<1>3. Late \in SUBSET Creating /\ Adrift' = Adrift \cup Late
  BY DEF Exit, Creating, Adrift
<1> HIDE DEF Late
<1>4. Lifecycle!Exit
  BY <1>1, <1>2, <1>3 DEF Lifecycle!Exit, unchangedApi,
     Bound, Leaving, Creating, InDeletion, Adrift, Served
<1>5. QED
  BY <1>4 DEF LifecycleStep, Lifecycle!Next

(* A creation that is accepted makes a service of its own pod; a call that   *)
(* returns was the only one about its pod.                                   *)
LEMMA CallSteps ==
  ASSUME TypeOK, CallsAreApart, InRange, NEW call \in calls, CallStep(call)
  PROVE  LifecycleStep
<1>1. /\ call \in Call /\ call.pod.uid \in 1..MaxUid
      /\ \A c \in calls : c.pod.uid = call.pod.uid => c = call
  BY DEF TypeOK, ProviderTypeOK, InRange, CallsAreApart
<1>2. ASSUME ~(CreatePanic(call) \/ DeletePanic(call))
      PROVE  unchangedApi /\ UNCHANGED <<ended, Adrift>>
  <2>1. unchangedApi /\ UNCHANGED ended
    BY <1>2, ApiFrame DEF CallStep, CreateStep, CreateReturn, DeleteStep,
       DeleteReturn, unchangedButCall, clusterVars, historyVars
  <2>2. CASE CreateStep(call) \/ CreateReturn(call) \/ DeleteStep(call)
    BY <2>1, <2>2, AdriftFrame DEF CreateStep, CreateReturn, DeleteStep,
       CreateAccepted, CreatePodReturns, DeleteAccepted
  <2>3. CASE DeleteReturn(call)
    BY <2>1, <2>3 DEF DeleteReturn, DeletePodReturns, Adrift
  <2>4. QED
    BY <1>2, <2>2, <2>3 DEF CallStep
<1>3. ASSUME NEW next, next.pod = call.pod, next.op = call.op,
             calls' = (calls \ {call}) \cup {next}
      PROVE  UNCHANGED <<Creating, InDeletion>>
  BY <1>3 DEF Creating, InDeletion
<1>4. CASE CreatePanic(call) \/ DeletePanic(call)
  BY <1>4, SentCalls, ExitSteps DEF CreatePanic, DeletePanic
<1>5. CASE CreateStep(call) /\ ~(CreatePanic(call) \/ DeletePanic(call))
  <2>1. PICK next : /\ next.pod = call.pod /\ next.op = call.op
                    /\ calls' = (calls \ {call}) \cup {next}
    BY <1>1, <1>5 DEF CreateStep, CreateAccepted, Call
  <2>2. call.pod.uid \in Creating
    BY <1>5 DEF CreateStep, CreateAccepted, Creating
  <2>3. Served' = Served \cup {call.pod.uid}
    <3>1. PICK service : /\ service.owner = call.pod.uid
                         /\ services' = services \cup {service}
      BY <1>5 DEF CreateStep, CreateAccepted, ServiceOf
    <3>2. QED
      BY <3>1 DEF Served
  <2>4. Lifecycle!Serve(call.pod.uid)
    BY <1>2, <1>3, <1>5, <2>1, <2>2, <2>3 DEF Lifecycle!Serve,
       Lifecycle!workVars, unchangedApi, Bound, Leaving, Creating, InDeletion,
       Adrift, Served
  <2>5. QED
    BY <1>1, <2>4 DEF LifecycleStep, Lifecycle!Next
<1>6. CASE DeleteStep(call) /\ ~(CreatePanic(call) \/ DeletePanic(call))
  <2>1. PICK next : /\ next.pod = call.pod /\ next.op = call.op
                    /\ calls' = (calls \ {call}) \cup {next}
    BY <1>1, <1>6 DEF DeleteStep, DeleteAccepted, Call
  <2>2. UNCHANGED Served
    BY <1>6, SameOwners DEF DeleteStep, DeleteAccepted, TypeOK
  <2>3. QED
    BY <1>2, <1>3, <1>6, <2>1, <2>2, Stutter DEF unchangedWork
<1>7. CASE CreateReturn(call) /\ ~(CreatePanic(call) \/ DeletePanic(call))
  <2>1. call.op = "create" /\ calls' = calls \ {call} /\ UNCHANGED services
    BY <1>7 DEF CreateReturn, CreatePodReturns
  <2>2. /\ call.pod.uid \in Creating
        /\ Creating' = Creating \ {call.pod.uid}
        /\ UNCHANGED InDeletion
    BY <1>1, <2>1 DEF Creating, InDeletion
  <2>3. Lifecycle!EndCreate(call.pod.uid)
    BY <1>2, <1>7, <2>1, <2>2 DEF Lifecycle!EndCreate,
       unchangedApi, Bound, Leaving, Creating, InDeletion, Adrift, Served
  <2>4. QED
    BY <1>1, <2>3 DEF LifecycleStep, Lifecycle!Next
<1>8. CASE DeleteReturn(call) /\ ~(CreatePanic(call) \/ DeletePanic(call))
  <2>1. call.op = "delete" /\ calls' = calls \ {call} /\ UNCHANGED services
    BY <1>8 DEF DeleteReturn, DeletePodReturns
  <2>2. /\ call.pod.uid \in InDeletion
        /\ InDeletion' = InDeletion \ {call.pod.uid}
        /\ UNCHANGED Creating
    BY <1>1, <2>1 DEF Creating, InDeletion
  <2>3. Lifecycle!EndDelete(call.pod.uid)
    BY <1>2, <1>8, <2>1, <2>2 DEF Lifecycle!EndDelete,
       unchangedApi, Bound, Leaving, Creating, InDeletion, Adrift, Served
  <2>4. QED
    BY <1>1, <2>3 DEF LifecycleStep, Lifecycle!Next
<1>9. QED
  BY <1>4, <1>5, <1>6, <1>7, <1>8 DEF CallStep

(* The kubelet takes out of the API server what it was told to delete; its   *)
(* writes of a status change neither who is bound nor who leaves.            *)
LEMMA ApiWriteSteps ==
  TypeOK /\ Incarnations /\ CallsAreApart /\ InRange
    /\ (\/ \E uid \in deleteQ : DeleteFromApi(uid)
        \/ \E pod \in posted : WriteStatus(pod)) => LifecycleStep
<1> SUFFICES ASSUME TypeOK, Incarnations, CallsAreApart, InRange,
                    \/ \E uid \in deleteQ : DeleteFromApi(uid)
                    \/ \E pod \in posted : WriteStatus(pod)
             PROVE  LifecycleStep
  OBVIOUS
<1>1. unchangedWork /\ UNCHANGED <<Served, nextUid>>
  BY WorkFrame, ServedFrame DEF DeleteFromApi, WriteStatus, providerVars,
     historyVars
<1>2. ASSUME NEW uid \in deleteQ, DeleteFromApi(uid) PROVE LifecycleStep
  <2>1. api' = {p \in api : p.uid # uid}
    BY <1>2 DEF DeleteFromApi
  <2>2. uid \in ended
    BY DEF CallsAreApart
  <2>3. /\ \A p \in api : p.uid = uid => p.deleting
        /\ \A p, q \in api : p.uid = q.uid => p = q
    BY <2>2 DEF Incarnations
  <2>4. UNCHANGED Bound /\ Leaving' = Leaving \ {uid}
    BY <2>1, <2>3 DEF Bound, Leaving
  <2>5. CASE uid \in Leaving
    <3>1. uid \in 1..MaxUid
      BY <2>5 DEF Leaving, InRange
    <3>2. Lifecycle!Vanish(uid)
      BY <1>1, <2>4, <2>5 DEF Lifecycle!Vanish, Lifecycle!workVars,
         unchangedWork, Bound, Leaving, Creating, InDeletion, Adrift, Served
    <3>3. QED
      BY <3>1, <3>2 DEF LifecycleStep, Lifecycle!Next
  <2>6. CASE uid \notin Leaving
    BY <1>1, <2>4, <2>6, Stutter DEF unchangedApi
  <2>7. QED
    BY <2>5, <2>6
<1>3. ASSUME NEW pod \in posted, WriteStatus(pod) PROVE LifecycleStep
  <2> DEFINE Written(p) == IF p.uid = pod.uid
                             THEN [p EXCEPT !.status = pod.status] ELSE p
  <2>1. api' = {Written(p) : p \in api} \/ UNCHANGED api
    BY <1>3 DEF WriteStatus
  <2>2. \A p \in api : /\ Written(p).uid = p.uid
                      /\ Written(p).deleting = p.deleting
    BY DEF TypeOK, Pod
  <2> HIDE DEF Written
  <2>3. UNCHANGED <<Bound, Leaving>>
    BY <2>1, <2>2 DEF Bound, Leaving
  <2>4. QED
    BY <1>1, <2>3, Stutter DEF unchangedApi
<1>4. QED
  BY <1>2, <1>3

(* The tracker shows nothing: its cleanup finds nothing to clean up.         *)
LEMMA TrackerSteps == StoreStaysEmpty /\ Tracker => LifecycleStep
<1> SUFFICES ASSUME StoreStaysEmpty, Tracker PROVE LifecycleStep
  OBVIOUS
<1>1. CASE \E pod \in current : FetchPanic(pod)
  BY <1>1, SentCalls, ExitSteps DEF FetchPanic
<1>2. CASE ~\E pod \in current : FetchPanic(pod)
  <2>1. UNCHANGED <<api, nextUid, calls, ended, adrift, services>>
    BY <1>2 DEF Tracker, StatusTimer, Visit, FetchPodStatus, Publish, EndPoll,
       CleanupTimer, ListActive, Cleanup, StoreStaysEmpty, unchangedButTracker,
       providerVars, clusterVars, historyVars
  <2>2. QED
    BY <2>1, ApiFrame, WorkFrame, ServedFrame, Stutter
<1>3. QED
  BY <1>1, <1>2

(* Cloud Run: what settles or is redeployed keeps its owner.                 *)
LEMMA ServiceSteps ==
  ProviderTypeOK /\ (\E service \in services : \/ Settles(service)
                                               \/ FinishesDelete(service)
                                               \/ Meddle(service))
    => LifecycleStep
<1> SUFFICES ASSUME ProviderTypeOK, NEW service \in services,
                    \/ Settles(service)
                    \/ FinishesDelete(service)
                    \/ Meddle(service)
             PROVE  LifecycleStep
  OBVIOUS
<1>1. unchangedApi /\ unchangedWork
  BY ApiFrame, WorkFrame DEF Settles, Settle, FinishesDelete, FinishDelete,
     Meddle, DeletedElsewhere, Redeployed, unchangedButServices, clusterVars,
     historyVars
<1>2. CASE Settles(service) \/ Redeployed(service)
  <2>1. PICK new : /\ new.owner = service.owner
                   /\ services' = (services \ {service}) \cup {new}
    BY <1>2 DEF Settles, Settle, Redeployed, ProviderTypeOK, Service
  <2>2. UNCHANGED Served
    BY <2>1 DEF Served
  <2>3. QED
    BY <1>1, <2>2, Stutter
<1>3. CASE DeletedElsewhere(service)
  BY <1>1, <1>3, SameOwners, Stutter DEF DeletedElsewhere
<1>4. CASE FinishesDelete(service)
  <2>1. Served' \in SUBSET Served
    BY <1>4 DEF FinishesDelete, FinishDelete, Served
  <2>2. Lifecycle!Undeploy
    BY <1>1, <2>1 DEF Lifecycle!Undeploy, Lifecycle!workVars, unchangedApi,
       unchangedWork, Bound, Leaving, Creating, InDeletion, Adrift, Served
  <2>3. QED
    BY <2>2 DEF LifecycleStep, Lifecycle!Next
<1>5. QED
  BY <1>2, <1>3, <1>4 DEF Meddle

(* A request of a process that is gone: a creation makes a service or is     *)
(* refused, and another of its pod may still be adrift; a deletion shows     *)
(* nothing.                                                                  *)
LEMMA ArrivalSteps ==
  ASSUME TypeOK, InRange, NEW call \in adrift, ArrivesLate(call)
  PROVE  LifecycleStep
<1>1. unchangedApi /\ UNCHANGED <<Creating, InDeletion, ended>>
  BY ApiFrame DEF ArrivesLate, Arrives, unchangedButServices, clusterVars,
     historyVars, Creating, InDeletion
<1>2. adrift' = adrift \ {call} /\ call.pod.uid \in 1..MaxUid
  BY DEF ArrivesLate, Arrives, InRange
<1>3. CASE call.op = "delete"
  <2>1. UNCHANGED Adrift
    BY <1>2, <1>3 DEF Adrift
  <2>2. UNCHANGED Served
    BY <1>3, SameOwners DEF ArrivesLate, Arrives, TypeOK
  <2>3. QED
    BY <1>1, <2>1, <2>2, Stutter DEF unchangedWork
<1>4. CASE call.op = "create"
  <2>1. /\ call.pod.uid \in Adrift
        /\ Adrift' \in {Adrift, Adrift \ {call.pod.uid}}
    BY <1>2, <1>4 DEF Adrift
  <2>2. CASE services' = services \cup {ServiceOf(call)}
    <3>1. Served' = Served \cup {call.pod.uid}
      <4>1. PICK service : /\ service.owner = call.pod.uid
                           /\ services' = services \cup {service}
        BY <2>2 DEF ServiceOf
      <4>2. QED
        BY <4>1 DEF Served
    <3>2. Lifecycle!ServeLate(call.pod.uid)
      BY <1>1, <2>1, <3>1 DEF Lifecycle!ServeLate, unchangedApi, Bound, Leaving,
         Creating, InDeletion, Adrift, Served
    <3>3. QED
      BY <1>2, <3>2 DEF LifecycleStep, Lifecycle!Next
  <2>3. CASE UNCHANGED services /\ Adrift' = Adrift \ {call.pod.uid}
    <3>1. UNCHANGED Served
      BY <2>3, ServedFrame
    <3>2. Lifecycle!Refuse(call.pod.uid)
      BY <1>1, <2>1, <2>3, <3>1 DEF Lifecycle!Refuse, unchangedApi, Bound,
         Leaving, Creating, InDeletion, Adrift, Served
    <3>3. QED
      BY <1>2, <3>2 DEF LifecycleStep, Lifecycle!Next
  <2>4. CASE UNCHANGED services /\ Adrift' = Adrift
    BY <1>1, <2>4, ServedFrame, Stutter DEF unchangedWork
  <2>5. QED
    BY <1>4, <2>1, <2>2, <2>3, <2>4 DEF ArrivesLate, Arrives
<1>5. QED
  BY <1>3, <1>4 DEF ArrivesLate, Arrives

(* CloudRunKubelet implements PodLifecycle through the mapping, for every    *)
(* value of the constants and whatever the faults, caches and restarts do.   *)
THEOREM Refinement == Spec => ImplementsLifecycle
<1>1. Init => Lifecycle!Init
  BY KubeletAssumption DEF Init, Lifecycle!Init
<1>2. TypeOK /\ StoreStaysEmpty /\ Incarnations /\ CallsAreApart /\ InRange
        /\ [Next]_vars => [Lifecycle!Next]_(Lifecycle!vars)
  <2> SUFFICES ASSUME TypeOK, StoreStaysEmpty, Incarnations, CallsAreApart,
                      InRange, [Next]_vars
               PROVE  LifecycleStep
    BY DEF LifecycleStep
  <2>1. ASSUME UNCHANGED <<api, nextUid, calls, ended, adrift, services>>
        PROVE  LifecycleStep
    BY <2>1, ApiFrame, WorkFrame, ServedFrame, Stutter
  <2>2. CASE \E key \in Keys : Informer(key)
    BY <2>1, <2>2 DEF Informer, ObserveAdd, ObserveUpdate, ObserveDelete,
         unchangedButInformer, providerVars, clusterVars, historyVars
  <2>3. CASE Start
    BY <2>1, <2>3 DEF Start, clusterVars, historyVars
  <2>4. CASE UNCHANGED vars
    BY <2>1, <2>4 DEF vars, providerVars, clusterVars, historyVars
  <2>5. CASE StayDown
    BY <2>4, <2>5 DEF StayDown
  <2>6. CASE Stop
    BY <2>6, SentCalls, ExitSteps DEF Stop
  <2>7. QED
    BY <2>2, <2>3, <2>4, <2>5, <2>6, ClusterSteps, WorkerSteps, CallSteps,
       ApiWriteSteps, TrackerSteps, ServiceSteps, ArrivalSteps
       DEF Next, TypeOK
<1>3. QED
  BY <1>1, <1>2, TypeCorrect, StoreEmpty, PodsKeepIdentity,
     OneCallAtATime, InRangeInvariant, PTL
     DEF Spec, ImplementsLifecycle, Lifecycle!Spec

-----------------------------------------------------------------------------
(* What PodLifecycle promises holds of its implementation: whatever faults,  *)
(* old caches and restarts there are, a pod the library gave up gets no      *)
(* service any more but from a request of a process that is gone, and one    *)
(* that was taken down does not come back otherwise.                         *)
THEOREM ServicesStayGone == Spec => Lifecycle!NotServedAgain
<1>1. NoCreateAfterDelete /\ [Lifecycle!Next]_(Lifecycle!vars)
        => [\A pod \in ended :
              pod \in {service.owner : service \in services}' =>
                pod \in {service.owner : service \in services}
                         \cup {call.pod.uid :
                                 call \in {c \in adrift : c.op = "create"}}
           ]_(Lifecycle!vars)
  <2> SUFFICES ASSUME NoCreateAfterDelete, Lifecycle!Next,
                      NEW pod \in ended, pod \in Served'
               PROVE  pod \in Served \cup Adrift
    BY DEF Served, Adrift
  <2>1. CASE \E other \in 1..MaxUid : Lifecycle!Serve(other)
    <3>1. PICK other : other \in Creating /\ Served' = Served \cup {other}
      BY <2>1 DEF Lifecycle!Serve, Creating, Served
    <3>2. other \notin ended
      BY <3>1 DEF Creating, NoCreateAfterDelete
    <3>3. QED
      BY <3>1, <3>2
  <2>2. CASE \E other \in 1..MaxUid : Lifecycle!ServeLate(other)
    <3>1. PICK other : other \in Adrift /\ Served' = Served \cup {other}
      BY <2>2 DEF Lifecycle!ServeLate, Adrift, Served
    <3>2. QED
      BY <3>1
  <2>3. CASE ~\E other \in 1..MaxUid :
                 Lifecycle!Serve(other) \/ Lifecycle!ServeLate(other)
    <3>1. Served' \subseteq Served
      BY <2>3 DEF Lifecycle!Next, Lifecycle!Bind, Lifecycle!RequestDelete,
           Lifecycle!Vanish, Lifecycle!BeginCreate, Lifecycle!EndCreate,
           Lifecycle!GiveUp, Lifecycle!EndDelete, Lifecycle!Exit,
           Lifecycle!Refuse, Lifecycle!Undeploy, Served
    <3>2. QED
      BY <3>1
  <2>4. QED
    BY <2>1, <2>2, <2>3
<1>2. Spec => [][Lifecycle!Next]_(Lifecycle!vars)
  BY Refinement, PTL DEF ImplementsLifecycle, Lifecycle!Spec
<1>3. [][Lifecycle!Next]_(Lifecycle!vars) /\ []NoCreateAfterDelete
        => Lifecycle!NotServedAgain
  BY <1>1, PTL DEF Lifecycle!NotServedAgain
<1>4. QED
  BY <1>2, <1>3, DeletedStaysDeleted, PTL
=============================================================================
