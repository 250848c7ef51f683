------------------------ MODULE CloudRunKubeletProofs ------------------------
(***************************************************************************)
(* Theorems about CloudRunKubelet, for every value of its constants.       *)
(***************************************************************************)
EXTENDS CloudRunKubelet, PodStatusProofs

-----------------------------------------------------------------------------
(* What the pure operators return. *)

(* A service has the name of a pod. *)
LEMMA NameOfType ==
  ASSUME NEW call \in Call
  PROVE  NameOf(call) \in Names
BY DEF NameOf, ServiceId, Call, Version, Keys

(* Starting the call of a pod leaves the set of calls one of calls. *)
LEMMA CallType ==
  ASSUME NEW op \in {"create", "delete"}, NEW version \in Version
  PROVE  /\ [op |-> op, stage |-> "rpc", pod |-> version] \in Call
         /\ \A call \in Call : [call EXCEPT !.stage = "wait"] \in Call
BY DEF Call

LEMMA ServiceUpdates ==
  ASSUME NEW service \in Service
  PROVE  /\ [service EXCEPT !.deleting = TRUE] \in Service
         /\ \A state \in ServiceStates :
              [service EXCEPT !.state = state] \in Service
BY DEF Service

LEMMA DeletingType ==
  ASSUME services \subseteq Service, NEW name
  PROVE  Deleting(name) \subseteq Service
BY ServiceUpdates DEF Deleting

LEMMA NowUsedType ==
  ASSUME used \subseteq Version, NEW version \in Version
  PROVE  NowUsed(version) \subseteq Version
BY DEF NowUsed

LEMMA EntryType ==
  ASSUME NEW pod \in Pod, NEW suffix \in Suffixes
  PROVE  [key |-> buildKeyFromNames(pod.key, suffix), pod |-> pod] \in Entry
BY PodUpdates DEF Entry, buildKeyFromNames

LEMMA ServiceOfType ==
  ASSUME NEW call \in Call
  PROVE  ServiceOf(call) \in Service
BY NameOfType DEF ServiceOf, Service, ServiceStates, Call, Version

(* What is on its way when the process ends was asked for by a call. *)
LEMMA SentCalls == /\ Sent \subseteq calls
                   /\ \A call \in calls : SentBut(call) \subseteq calls
BY DEF Sent, SentBut

-----------------------------------------------------------------------------
(* Type correctness, one lemma per group of actions. *)

LEMMA ClusterType == TypeOK /\ Cluster => TypeOK'
<1> SUFFICES ASSUME TypeOK, Cluster PROVE TypeOK'
  OBVIOUS
<1> USE DEF TypeOK, LoopTypeOK, ProviderTypeOK, unchangedButCluster, loopVars,
            providerVars, processVars, libraryVars, historyVars
<1>1. CASE \E key \in Keys : BindPod(key)
  BY <1>1, NewPodType DEF BindPod
<1>2. CASE \E pod \in api : EditPod(pod)
  BY <1>2, PodUpdates DEF EditPod
<1>3. CASE \E pod \in api : RequestDelete(pod)
  BY <1>3, PodUpdates DEF RequestDelete
<1>4. CASE \E pod \in api : ForceRemove(pod)
  BY <1>4 DEF ForceRemove
<1>5. QED
  BY <1>1, <1>2, <1>3, <1>4 DEF Cluster

LEMMA InformerType == TypeOK /\ (\E key \in Keys : Informer(key)) => TypeOK'
<1> SUFFICES ASSUME TypeOK, NEW key \in Keys, Informer(key) PROVE TypeOK'
  OBVIOUS
<1> USE DEF TypeOK, LoopTypeOK, ProviderTypeOK, unchangedButInformer, loopVars,
            providerVars, clusterVars, processVars, historyVars, getPodFromList
<1>1. CASE \E pod \in getPodFromList(api, key) : ObserveAdd(pod)
  BY <1>1, PodUpdates DEF ObserveAdd
<1>2. CASE \E old \in getPodFromList(cache, key),
             new \in getPodFromList(api, key) : ObserveUpdate(old, new)
  BY <1>2, PodUpdates DEF ObserveUpdate
<1>3. CASE \E pod \in getPodFromList(cache, key) : ObserveDelete(pod)
  BY <1>3, PodUpdates DEF ObserveDelete
<1>4. QED
  BY <1>1, <1>2, <1>3 DEF Informer

LEMMA WorkerType == TypeOK /\ Worker => TypeOK'
<1> SUFFICES ASSUME TypeOK, Worker PROVE TypeOK'
  OBVIOUS
<1> USE DEF TypeOK, LoopTypeOK, ProviderTypeOK, unchangedButWorker, loopVars,
            clusterVars, processVars, historyVars, Dequeue
<1>1. CASE \E key \in syncQ : SyncGone(key)
  <2>1. PICK key \in syncQ : SyncGone(key)
    BY <1>1
  <2>2. \A suffix \in Suffixes : GetPod(key, suffix) \subseteq Pod
    BY DEF GetPod, Entry
  <2>3. calls' \subseteq Call
    BY <2>1, <2>2, PodUpdates, CallType DEF SyncGone
  <2>4. QED
    BY <2>1, <2>3 DEF SyncGone
<1>2. CASE \E pod \in cache : SyncForceDelete(pod)
  BY <1>2, PodUpdates DEF SyncForceDelete
<1>3. CASE \E pod \in cache : SyncDelete(pod)
  BY <1>3, PodUpdates, CallType DEF SyncDelete, DeletePod
<1>4. CASE \E pod \in cache : SyncNothing(pod)
  BY <1>4 DEF SyncNothing
<1>5. CASE \E pod \in cache : SyncPod(pod)
  <2>1. PICK pod \in cache : SyncPod(pod)
    BY <1>5
  <2>2. pod \in Pod /\ VersionOf(pod) \in Version /\ pod.uid \in Nat /\ pod.gen \in Nat
    BY PodUpdates DEF Pod
  <2>3. PICK asking \in Suffixes, storing \in Suffixes :
          IF GetPod(pod.key, asking) # {}
            THEN /\ UpdatePod(pod, storing)
                 /\ used' = NowUsed(VersionOf(pod))
                 /\ UNCHANGED <<calls, asked>>
            ELSE /\ CreatePod(pod)
                 /\ asked' = asked \cup {[uid |-> pod.uid, gen |-> pod.gen,
                                          run |-> run]}
                 /\ UNCHANGED <<pods, used>>
    BY <2>1 DEF SyncPod
  <2>4. CASE GetPod(pod.key, asking) # {}
    <3>1. pods' \subseteq Entry
      BY <2>2, <2>3, <2>4, EntryType DEF UpdatePod
    <3>2. used' \subseteq Version
      BY <2>2, <2>3, <2>4, NowUsedType
    <3>3. QED
      BY <2>1, <2>3, <2>4, <3>1, <3>2 DEF SyncPod
  <2>5. CASE GetPod(pod.key, asking) = {}
    <3>1. calls' \subseteq Call
      BY <2>2, <2>3, <2>5, CallType DEF CreatePod
    <3>2. asked' \subseteq [uid : Nat, gen : Nat, run : Nat]
      BY <2>2, <2>3, <2>5
    <3>3. QED
      BY <2>1, <2>3, <2>5, <3>1, <3>2 DEF SyncPod
  <2>6. QED
    BY <2>4, <2>5
<1>6. QED
  BY <1>1, <1>2, <1>3, <1>4, <1>5 DEF Worker

LEMMA ExitType ==
  ASSUME NEW cause \in Panics, NEW sent \in SUBSET calls
  PROVE  TypeOK /\ Exit(cause, sent) => TypeOK'
BY DEF TypeOK, LoopTypeOK, ProviderTypeOK, Exit, LoopPlaces, clusterVars,
       historyVars

LEMMA CallStepType ==
  ASSUME TypeOK, NEW call \in calls, CallStep(call)
  PROVE  TypeOK'
<1> USE DEF TypeOK, LoopTypeOK, ProviderTypeOK, unchangedButCall, loopVars,
            clusterVars, processVars, historyVars
<1>1. /\ call \in Call /\ call.pod \in Version
      /\ call.pod.uid \in Nat /\ NameOf(call) \in Names
  BY NameOfType DEF Call, Version
<1>2. CASE CreateStep(call)
  <2>1. services' \subseteq Service
    BY <1>1, <1>2, ServiceOfType DEF CreateStep, CreateAccepted
  <2>2. calls' \subseteq Call
    BY <1>1, <1>2, CallType DEF CreateStep, CreateAccepted
  <2>3. QED
    BY <1>2, <2>1, <2>2 DEF CreateStep, CreateAccepted
<1>3. CASE CreateReturn(call)
  BY <1>1, <1>3, NowUsedType DEF CreateReturn, CreatePodReturns
<1>4. CASE DeleteStep(call)
  <2>1. services' \subseteq Service
    BY <1>4, DeletingType DEF DeleteStep, DeleteAccepted
  <2>2. calls' \subseteq Call
    BY <1>1, <1>4, CallType DEF DeleteStep, DeleteAccepted
  <2>3. QED
    BY <1>4, <2>1, <2>2 DEF DeleteStep, DeleteAccepted
<1>5. CASE DeleteReturn(call)
  BY <1>1, <1>5, NowUsedType DEF DeleteReturn, DeletePodReturns
<1>6. CASE CreatePanic(call) \/ DeletePanic(call)
  BY <1>6, ExitType, SentCalls DEF CreatePanic, DeletePanic, Panics
<1>7. QED
  BY <1>2, <1>3, <1>4, <1>5, <1>6 DEF CallStep

LEMMA ApiWritesType ==
  TypeOK /\ (\/ \E uid \in deleteQ : DeleteFromApi(uid)
            \/ \E pod \in posted : WriteStatus(pod)) => TypeOK'
<1> USE DEF TypeOK, LoopTypeOK, ProviderTypeOK, loopVars, providerVars,
            processVars, historyVars
<1>1. ASSUME TypeOK, NEW uid \in deleteQ, DeleteFromApi(uid) PROVE TypeOK'
  BY <1>1 DEF DeleteFromApi
<1>2. ASSUME TypeOK, NEW pod \in posted, WriteStatus(pod) PROVE TypeOK'
  <2>1. pod \in Pod /\ pod.status \in Status
    BY <1>2, PodUpdates
  <2>2. \A p \in api : [p EXCEPT !.status = pod.status] \in Pod
    BY <1>2, <2>1, PodUpdates
  <2>3. api' \subseteq Pod
    BY <1>2, <2>2 DEF WriteStatus
  <2>4. QED
    BY <1>2, <2>3 DEF WriteStatus
<1>3. QED
  BY <1>1, <1>2

LEMMA TrackerType == TypeOK /\ Tracker => TypeOK'
<1> SUFFICES ASSUME TypeOK, Tracker PROVE TypeOK'
  OBVIOUS
<1> USE DEF TypeOK, LoopTypeOK, ProviderTypeOK, LoopPlaces,
            unchangedButTracker, providerVars, clusterVars, processVars,
            historyVars
<1>1. CASE StatusTimer
  BY <1>1 DEF StatusTimer, StatusTimerFires
<1>2. CASE \E pod \in todo : Visit(pod)
  BY <1>2 DEF Visit, SkipPod, VisitPod
<1>3. CASE \E pod \in current : FetchPodStatus(pod)
  <2>0. PICK pod \in current : FetchPodStatus(pod)
    BY <1>3
  <2>1. PICK answer \in GetPodStatus(pod.key) :
          /\ FetchReturns(pod, answer)
          /\ UNCHANGED <<providerVars, posted>>
          /\ unchangedButTracker
    BY <2>0 DEF FetchPodStatus
  <2>2. answer.kind = "status" /\ answer.status \in Status
    BY StatusOfServiceType DEF GetPodStatus, Service
  <2>3. current' \subseteq Pod
    BY <2>1, <2>2, ProcessPodUpdatesType DEF FetchReturns
  <2>4. QED
    BY <2>1, <2>3 DEF FetchReturns
<1>4. CASE \E pod \in current : FetchPanic(pod)
  BY <1>4, ExitType, SentCalls DEF FetchPanic, Panics
<1>5. CASE \E pod \in current : Publish(pod)
  BY <1>5 DEF Publish, PublishPod
<1>6. CASE EndPoll
  BY <1>6 DEF EndPoll, PollDone
<1>7. CASE CleanupTimer
  BY <1>7 DEF CleanupTimer, CleanupTimerFires
<1>8. CASE ListActive
  <2>1. ListActivePods \subseteq Keys
    BY PodUpdates DEF ListActivePods, GetPods, Entry
  <2>2. QED
    BY <1>8, <2>1 DEF ListActive, ActivePodsListed
<1>9. CASE Cleanup
  BY <1>9 DEF Cleanup, CleanupOne, CleanupDone
<1>10. QED
  BY <1>1, <1>2, <1>3, <1>4, <1>5, <1>6, <1>7, <1>8, <1>9 DEF Tracker

LEMMA ProcessType == TypeOK /\ (Stop \/ Start \/ StayDown) => TypeOK'
<1> SUFFICES ASSUME TypeOK, Stop \/ Start \/ StayDown PROVE TypeOK'
  OBVIOUS
<1>1. CASE Stop
  BY <1>1, ExitType, SentCalls DEF Stop, Panics
<1>2. CASE Start
  <2>1. client' \in BOOLEAN
    BY <1>2, Zenon DEF Start
  <2>2. QED
    BY <1>2, <2>1 DEF Start, TypeOK, LoopTypeOK, ProviderTypeOK, Panics,
                          loopVars, clusterVars, libraryVars, historyVars
<1>3. CASE StayDown
  BY <1>3 DEF StayDown, vars, TypeOK, LoopTypeOK, ProviderTypeOK, loopVars,
              providerVars, clusterVars, processVars, libraryVars, historyVars
<1>4. QED
  BY <1>1, <1>2, <1>3

LEMMA ServicesType ==
  ASSUME TypeOK, NEW service \in services,
         Settles(service) \/ FinishesDelete(service) \/ Meddle(service)
  PROVE  TypeOK'
<1> USE DEF TypeOK, LoopTypeOK, ProviderTypeOK, unchangedButServices, loopVars,
            clusterVars, processVars, libraryVars, historyVars
<1>1. CASE Settles(service)
  BY <1>1, ServiceUpdates DEF Settles, Settle
<1>2. CASE FinishesDelete(service)
  BY <1>2 DEF FinishesDelete, FinishDelete
<1>3. CASE Meddle(service) /\ DeletedElsewhere(service)
  BY <1>3, DeletingType DEF Meddle, DeletedElsewhere
<1>4. CASE Meddle(service) /\ Redeployed(service)
  BY <1>4, ServiceUpdates DEF Meddle, Redeployed, ServiceStates
<1>5. QED
  BY <1>1, <1>2, <1>3, <1>4 DEF Meddle

LEMMA ArrivalType ==
  ASSUME TypeOK, NEW call \in adrift, ArrivesLate(call)
  PROVE  TypeOK'
<1>1. call \in Call /\ services \subseteq Service
  BY DEF TypeOK, ProviderTypeOK
<1>2. services' \subseteq Service
  BY <1>1, ServiceOfType, DeletingType DEF ArrivesLate, Arrives
<1>3. QED
  BY <1>2 DEF ArrivesLate, Arrives, TypeOK, LoopTypeOK, ProviderTypeOK,
              unchangedButServices, loopVars, clusterVars, processVars,
              libraryVars, historyVars

(* The types of the state hold in every reachable state, whatever the        *)
(* cluster, Cloud Run and the faults do.                                     *)
THEOREM TypeCorrect == Spec => []TypeOK
<1>1. Init => TypeOK
  <2> SUFFICES ASSUME Init PROVE TypeOK
    OBVIOUS
  <2>1. LoopTypeOK
    BY DEF Init, LoopInit, LoopTypeOK, LoopPlaces
  <2>2. ProviderTypeOK
    BY DEF Init, ProviderTypeOK
  <2>3. QED
    BY <2>1, <2>2 DEF Init, TypeOK, Panics
<1>2. TypeOK /\ [Next]_vars => TypeOK'
  <2>1. TypeOK /\ Next => TypeOK'
    BY ClusterType, InformerType, WorkerType, CallStepType, ApiWritesType,
       TrackerType, ProcessType, ServicesType, ArrivalType DEF Next
  <2>2. TypeOK /\ UNCHANGED vars => TypeOK'
    BY DEF vars, TypeOK, LoopTypeOK, ProviderTypeOK, loopVars, providerVars,
           clusterVars, processVars, libraryVars, historyVars
  <2>3. QED
    BY <2>1, <2>2
<1>3. QED
  BY <1>1, <1>2, PTL DEF Spec

-----------------------------------------------------------------------------
(* The pod store. *)

(* CreatePod "stores it in memory", but does not: nothing is ever stored.    *)
StoreStaysEmpty == pods = {} /\ dangling = {}

LEMMA EmptyStore ==
  ASSUME pods = {}
  PROVE  /\ \A key, suffix : GetPod(key, suffix) = {}
         /\ ListActivePods = {}
BY DEF GetPod, ListActivePods, GetPods

(* Whatever is created, GetPod and GetPods of the provider find no pod and   *)
(* the cleanup of the tracker has nothing to do: only UpdatePod stores a     *)
(* pod, and it is called for a pod GetPod finds.                             *)
THEOREM StoreEmpty == Spec => []StoreStaysEmpty
<1>1. Init => StoreStaysEmpty
  BY DEF Init, LoopInit, StoreStaysEmpty
<1>2. StoreStaysEmpty /\ [Next]_vars => StoreStaysEmpty'
  <2> SUFFICES ASSUME StoreStaysEmpty, [Next]_vars PROVE StoreStaysEmpty'
    OBVIOUS
  <2> USE DEF StoreStaysEmpty
  <2>1. CASE Cluster
    BY <2>1 DEF Cluster, BindPod, EditPod, RequestDelete, ForceRemove,
                unchangedButCluster, loopVars, providerVars
  <2>2. CASE \E key \in Keys : Informer(key)
    BY <2>2 DEF Informer, ObserveAdd, ObserveUpdate, ObserveDelete,
                unchangedButInformer, loopVars, providerVars
  <2>3. CASE Worker
    BY <2>3, EmptyStore DEF Worker, SyncGone, SyncForceDelete, SyncDelete,
         SyncNothing, SyncPod, unchangedButWorker, loopVars
  <2>4. CASE \E call \in calls : CallStep(call)
    BY <2>4 DEF CallStep, CreateStep, CreateReturn, DeleteStep, DeleteReturn,
         CreatePanic, DeletePanic, Exit, CreateAccepted, CreatePodReturns,
         DeleteAccepted, DeletePodReturns, unchangedButCall, loopVars
  <2>5. CASE \/ \E uid \in deleteQ : DeleteFromApi(uid)
             \/ \E pod \in posted : WriteStatus(pod)
    BY <2>5 DEF DeleteFromApi, WriteStatus, loopVars, providerVars
  <2>6. CASE Tracker
    <3>1. CASE ListActive
      BY <3>1, EmptyStore DEF ListActive, ActivePodsListed, providerVars
    <3>2. CASE Cleanup
      BY <3>2 DEF Cleanup, CleanupDone
    <3>3. CASE Tracker /\ ~ListActive /\ ~Cleanup
      BY <3>3 DEF Tracker, StatusTimer, StatusTimerFires, Visit, SkipPod,
           VisitPod, FetchPodStatus, FetchReturns, FetchPanic, Exit, Publish,
           PublishPod, EndPoll, PollDone, CleanupTimer, CleanupTimerFires,
           providerVars
    <3>4. QED
      BY <2>6, <3>1, <3>2, <3>3
  <2>7. CASE \E service \in services :
               Settles(service) \/ FinishesDelete(service) \/ Meddle(service)
    BY <2>7 DEF Settles, Settle, FinishesDelete, FinishDelete, Meddle,
         DeletedElsewhere, Redeployed, unchangedButServices, loopVars
  <2>8. CASE Stop \/ Start \/ StayDown
    BY <2>8 DEF Stop, Exit, Start, StayDown, vars, loopVars, providerVars
  <2>9. CASE UNCHANGED vars
    BY <2>9 DEF vars, loopVars, providerVars
  <2>10. CASE \E call \in adrift : ArrivesLate(call)
    BY <2>10 DEF ArrivesLate, Arrives, unchangedButServices, loopVars
  <2>11. QED
    BY <2>1, <2>2, <2>3, <2>4, <2>5, <2>6, <2>7, <2>8, <2>9, <2>10 DEF Next
<1>3. QED
  BY <1>1, <1>2, PTL DEF Spec

-----------------------------------------------------------------------------
(* No creation for a pod the library gave up. *)

(* The invariant that carries NoCreateAfterDelete: a pod is one pod by its   *)
(* key at any time and by its uid for all time, and what was given up is     *)
(* terminating wherever it is seen.                                          *)
Incarnations ==
  /\ \A p, q \in api : p.key = q.key => p = q
  /\ \A p, q \in cache : p.key = q.key => p = q
  /\ \A p \in api \cup cache : p.uid < nextUid
  /\ \A call \in calls : call.pod.uid < nextUid
  /\ \A uid \in ended : uid < nextUid
  /\ \A p, q \in api \cup cache : p.uid = q.uid => p.key = q.key
  /\ \A call \in calls, p \in api \cup cache :
       call.pod.uid = p.uid => call.pod.key = p.key
  /\ \A p \in cache, q \in api : p.uid = q.uid /\ p.deleting => q.deleting
  /\ \A p \in api \cup cache : p.uid \in ended => p.deleting
  /\ NoCreateAfterDelete

LEMMA IncarnationsFrame ==
  ASSUME Incarnations, UNCHANGED <<api, cache, calls, ended, nextUid>>
  PROVE  Incarnations'
BY DEF Incarnations, NoCreateAfterDelete

LEMMA ClusterIncarnations ==
  TypeOK /\ Incarnations /\ Cluster => Incarnations'
<1> SUFFICES ASSUME TypeOK, Incarnations, Cluster PROVE Incarnations'
  OBVIOUS
<1> USE DEF TypeOK, Incarnations, NoCreateAfterDelete, unchangedButCluster,
            providerVars, libraryVars, historyVars, Pod
<1>1. CASE \E key \in Keys : BindPod(key)
  <2>1. PICK key \in Keys : BindPod(key)
    BY <1>1
  <2>2. PICK new : /\ new.key = key /\ new.uid = nextUid
                   /\ api' = api \cup {new}
    BY <2>1 DEF BindPod
  <2>3. /\ \A p \in api : p.key # key /\ p.uid # nextUid
        /\ \A p \in cache : p.uid # nextUid
        /\ \A call \in calls : call.pod.uid # nextUid
        /\ nextUid \notin ended
    BY <2>1 DEF BindPod, getPodFromList
  <2>4. UNCHANGED <<cache, calls, ended>> /\ nextUid' = nextUid + 1
    BY <2>1 DEF BindPod
  <2>5. QED
    BY <2>2, <2>3, <2>4 DEF ProviderTypeOK, Call, Version
<1>2. CASE \E pod \in api : EditPod(pod)
  BY <1>2 DEF EditPod
<1>3. CASE \E pod \in api : RequestDelete(pod)
  <2>1. PICK pod \in api : RequestDelete(pod)
    BY <1>3
  <2>2. PICK new : /\ new.key = pod.key /\ new.uid = pod.uid /\ new.deleting
                   /\ api' = (api \ {pod}) \cup {new}
    <3>1. /\ [pod EXCEPT !.deleting = TRUE].key = pod.key
          /\ [pod EXCEPT !.deleting = TRUE].uid = pod.uid
          /\ [pod EXCEPT !.deleting = TRUE].deleting
      OBVIOUS
    <3>2. api' = (api \ {pod}) \cup {[pod EXCEPT !.deleting = TRUE]}
      BY <2>1 DEF RequestDelete
    <3>3. QED
      BY <3>1, <3>2
  <2>3. UNCHANGED <<cache, calls, ended, nextUid>>
    BY <2>1 DEF RequestDelete
  <2>4. QED
    BY <2>2, <2>3
<1>4. CASE \E pod \in api : ForceRemove(pod)
  BY <1>4 DEF ForceRemove
<1>5. QED
  BY <1>1, <1>2, <1>3, <1>4 DEF Cluster

LEMMA InformerIncarnations ==
  TypeOK /\ Incarnations /\ (\E key \in Keys : Informer(key)) => Incarnations'
<1> SUFFICES ASSUME TypeOK, Incarnations, NEW key \in Keys, Informer(key)
             PROVE  Incarnations'
  OBVIOUS
<1> USE DEF Incarnations, NoCreateAfterDelete, unchangedButInformer,
            providerVars, clusterVars, historyVars, getPodFromList
<1>1. CASE \E pod \in getPodFromList(api, key) : ObserveAdd(pod)
  BY <1>1 DEF ObserveAdd
<1>2. CASE \E old \in getPodFromList(cache, key),
             new \in getPodFromList(api, key) : ObserveUpdate(old, new)
  BY <1>2 DEF ObserveUpdate
<1>3. CASE \E pod \in getPodFromList(cache, key) : ObserveDelete(pod)
  BY <1>3 DEF ObserveDelete
<1>4. QED
  BY <1>1, <1>2, <1>3 DEF Informer

(* A worker ends a pod only while no call of its key is under way, and       *)
(* begins a creation only for a pod it does not see terminating.             *)
LEMMA WorkerIncarnations ==
  TypeOK /\ StoreStaysEmpty /\ Incarnations /\ Worker => Incarnations'
<1> SUFFICES ASSUME TypeOK, StoreStaysEmpty, Incarnations, Worker
             PROVE  Incarnations'
  OBVIOUS
<1> USE DEF Incarnations, NoCreateAfterDelete, unchangedButWorker, clusterVars,
            historyVars, Dequeue
<1>1. CASE \E key \in syncQ : SyncGone(key)
  BY <1>1, EmptyStore DEF SyncGone, StoreStaysEmpty
<1>2. CASE \E pod \in cache : SyncForceDelete(pod)
  BY <1>2 DEF SyncForceDelete
<1>3. CASE \E pod \in cache : SyncDelete(pod)
  BY <1>3 DEF SyncDelete, DeletePod, VersionOf
<1>4. CASE \E pod \in cache : SyncNothing(pod)
  BY <1>4 DEF SyncNothing
<1>5. CASE \E pod \in cache : SyncPod(pod)
  <2>1. PICK pod \in cache : SyncPod(pod)
    BY <1>5
  <2>2. (calls' = calls) \/ CreatePod(pod)
    BY <2>1 DEF SyncPod
  <2>3. UNCHANGED <<api, cache, ended, nextUid>> /\ ~pod.deleting
    BY <2>1 DEF SyncPod
  <2>4. QED
    BY <2>2, <2>3 DEF CreatePod, VersionOf
<1>6. QED
  BY <1>1, <1>2, <1>3, <1>4, <1>5 DEF Worker

(* A step of a call keeps its pod and what is done with it. *)
LEMMA CallStepIncarnations ==
  ASSUME TypeOK, Incarnations, NEW call \in calls, CallStep(call)
  PROVE  Incarnations'
<1> USE DEF Incarnations, NoCreateAfterDelete, unchangedButCall, clusterVars,
            historyVars
<1>1. CASE CreateStep(call) \/ DeleteStep(call)
  <2>1. call \in Call
    BY DEF TypeOK, ProviderTypeOK
  <2>2. PICK next : /\ next.pod = call.pod /\ next.op = call.op
                    /\ calls' = (calls \ {call}) \cup {next}
    BY <1>1, <2>1 DEF CreateStep, DeleteStep, CreateAccepted, DeleteAccepted, Call
  <2>3. UNCHANGED <<api, cache, ended, nextUid>>
    BY <1>1 DEF CreateStep, DeleteStep
  <2>4. NoCreateAfterDelete'
    BY <2>2, <2>3
  <2>5. QED
    BY <2>2, <2>3, <2>4
<1>2. CASE CreateReturn(call) \/ DeleteReturn(call)
  BY <1>2 DEF CreateReturn, DeleteReturn, CreatePodReturns, DeletePodReturns
<1>3. CASE CreatePanic(call) \/ DeletePanic(call)
  BY <1>3 DEF CreatePanic, DeletePanic, Exit
<1>4. QED
  BY <1>1, <1>2, <1>3 DEF CallStep

LEMMA ApiWritesIncarnations ==
  TypeOK /\ Incarnations /\ (\/ \E uid \in deleteQ : DeleteFromApi(uid)
                           \/ \E pod \in posted : WriteStatus(pod))
    => Incarnations'
<1> USE DEF TypeOK, Incarnations, NoCreateAfterDelete, providerVars,
            historyVars, Pod
<1>1. ASSUME TypeOK, Incarnations, NEW uid \in deleteQ, DeleteFromApi(uid)
      PROVE  Incarnations'
  BY <1>1 DEF DeleteFromApi
<1>2. ASSUME TypeOK, Incarnations, NEW pod \in posted, WriteStatus(pod)
      PROVE  Incarnations'
  <2>1. \A p \in api : LET q == [p EXCEPT !.status = pod.status] IN
          q.key = p.key /\ q.uid = p.uid /\ q.deleting = p.deleting
    BY <1>2
  <2>2. QED
    BY <1>2, <2>1 DEF WriteStatus
<1>3. QED
  BY <1>1, <1>2

LEMMA ExitIncarnations ==
  ASSUME NEW cause, NEW sent
  PROVE  Incarnations /\ Exit(cause, sent) => Incarnations'
BY DEF Incarnations, NoCreateAfterDelete, Exit, clusterVars, historyVars

(* However old the cache is, a pod is one pod by its key and for all time by *)
(* its uid, and what the library gave up is terminating wherever it is seen. *)
LEMMA PodsKeepIdentity == Spec => []Incarnations
<1>1. Init => Incarnations
  BY DEF Init, Incarnations, NoCreateAfterDelete
<1>2. TypeOK /\ StoreStaysEmpty /\ Incarnations /\ [Next]_vars => Incarnations'
  <2> SUFFICES ASSUME TypeOK, StoreStaysEmpty, Incarnations, [Next]_vars
               PROVE  Incarnations'
    OBVIOUS
  <2>1. CASE Tracker
    <3>1. CASE \E pod \in current : FetchPanic(pod)
      BY <3>1, ExitIncarnations DEF FetchPanic
    <3>2. CASE ~\E pod \in current : FetchPanic(pod)
      BY <2>1, <3>2, IncarnationsFrame DEF Tracker, StatusTimer, Visit,
           FetchPodStatus, Publish, EndPoll, CleanupTimer, ListActive, Cleanup,
           unchangedButTracker, providerVars, clusterVars, historyVars
    <3>3. QED
      BY <3>1, <3>2
  <2>2. CASE \E service \in services :
               Settles(service) \/ FinishesDelete(service) \/ Meddle(service)
    BY <2>2, IncarnationsFrame DEF Settles, Settle, FinishesDelete,
         FinishDelete, Meddle, DeletedElsewhere, Redeployed,
         unchangedButServices, clusterVars, libraryVars, historyVars
  <2>3. CASE Stop
    BY <2>3, ExitIncarnations DEF Stop
  <2>4. CASE Start
    BY <2>4, IncarnationsFrame DEF Start, clusterVars, libraryVars, historyVars
  <2>5. CASE UNCHANGED vars
    BY <2>5, IncarnationsFrame DEF vars, providerVars, clusterVars,
         libraryVars, historyVars
  <2>6. CASE StayDown
    BY <2>5, <2>6 DEF StayDown
  <2>7. CASE \E call \in adrift : ArrivesLate(call)
    BY <2>7, IncarnationsFrame DEF ArrivesLate, Arrives,
       unchangedButServices, clusterVars, processVars, libraryVars, historyVars
  <2>8. QED
    BY <2>1, <2>2, <2>3, <2>4, <2>5, <2>6, <2>7, ClusterIncarnations,
       InformerIncarnations, WorkerIncarnations, CallStepIncarnations,
       ApiWritesIncarnations DEF Next
<1>3. QED
  BY <1>1, <1>2, TypeCorrect, StoreEmpty, PTL DEF Spec

(* What the library gave up is not created again, in any run of the process. *)
THEOREM DeletedStaysDeleted == Spec => []NoCreateAfterDelete
<1>1. Incarnations => NoCreateAfterDelete
  BY DEF Incarnations
<1>2. QED
  BY <1>1, PodsKeepIdentity, PTL

-----------------------------------------------------------------------------
(* One creation for each version of a pod. *)

LEMMA CreationsFrame ==
  ASSUME Creations,
         UNCHANGED <<api, cache, calls, used, asked, run, up, nextUid>>
  PROVE  Creations'
BY DEF Creations, AskedBefore, CallFitsPod, CacheIsOlder,
       CallIsOlder, AskedIsShown, AskedIsOlder, AskedNow

LEMMA ClusterCreations ==
  TypeOK /\ Incarnations /\ Creations /\ Cluster => Creations'
<1> SUFFICES ASSUME TypeOK, Incarnations, Creations, Cluster PROVE Creations'
  OBVIOUS
<1> USE DEF TypeOK, Creations, AskedBefore, CallFitsPod, CacheIsOlder,
       CallIsOlder, AskedIsShown, AskedIsOlder, AskedNow, unchangedButCluster, providerVars,
            processVars, libraryVars, historyVars, Pod
<1>1. CASE \E key \in Keys : BindPod(key)
  <2>1. PICK key \in Keys : BindPod(key)
    BY <1>1
  <2>2. PICK new : /\ new.uid = nextUid
                   /\ new.gen = 1
                   /\ api' = api \cup {new}
    BY <2>1 DEF BindPod
  <2>3. UNCHANGED <<cache, calls, used, asked, run, up>> /\ nextUid' = nextUid + 1
    BY <2>1 DEF BindPod
  <2>4. /\ \A p \in cache : p.uid # nextUid
        /\ \A call \in calls : call.pod.uid # nextUid
        /\ \A a \in asked : a.uid # nextUid /\ a.uid < nextUid + 1
    BY DEF Incarnations
  <2>5. QED
    BY <2>2, <2>3, <2>4
<1>2. CASE \E pod \in api : EditPod(pod)
  BY <1>2 DEF EditPod
<1>3. CASE \E pod \in api : RequestDelete(pod)
  BY <1>3 DEF RequestDelete
<1>4. CASE \E pod \in api : ForceRemove(pod)
  BY <1>4 DEF ForceRemove
<1>5. QED
  BY <1>1, <1>2, <1>3, <1>4 DEF Cluster

LEMMA InformerCreations ==
  TypeOK /\ Incarnations /\ Creations /\ (\E key \in Keys : Informer(key))
    => Creations'
<1> SUFFICES ASSUME TypeOK, Incarnations, Creations, NEW key \in Keys,
                    Informer(key)
             PROVE  Creations'
  OBVIOUS
<1> USE DEF Creations, AskedBefore, CallFitsPod, CacheIsOlder,
       CallIsOlder, AskedIsShown, AskedIsOlder, AskedNow, unchangedButInformer, providerVars,
            clusterVars, processVars, historyVars, getPodFromList
<1>1. CASE \E pod \in getPodFromList(api, key) : ObserveAdd(pod)
  <2>1. PICK pod \in api : ObserveAdd(pod)
    BY <1>1
  <2>2. UNCHANGED <<api, calls, used, asked, run, up, nextUid>>
        /\ cache' = cache \cup {pod}
    BY <2>1 DEF ObserveAdd
  <2>3. \A a \in AskedNow : a.uid # pod.uid
    BY <2>1 DEF ObserveAdd, Incarnations
  <2>4. \A call \in calls : call.pod.uid # pod.uid
    BY <2>1 DEF ObserveAdd, Incarnations
  <2>5. \A q \in api : q.uid = pod.uid => q = pod
    BY <2>1 DEF Incarnations
  <2>6. pod.gen <= pod.gen
    BY DEF TypeOK, Pod
  <2>7. QED
    BY <2>2, <2>3, <2>4, <2>5, <2>6
<1>2. CASE \E old \in getPodFromList(cache, key),
             new \in getPodFromList(api, key) : ObserveUpdate(old, new)
  <2>1. PICK old \in cache, new \in api : ObserveUpdate(old, new)
    BY <1>2
  <2>2. /\ UNCHANGED <<api, calls, used, asked, run, up, nextUid>>
        /\ cache' = (cache \ {old}) \cup {new}
        /\ old.uid = new.uid /\ old.key = new.key
        /\ old.gen <= new.gen
        /\ old.deleting => new.deleting
        /\ \A q \in api : q.uid = new.uid => q = new
    BY <2>1 DEF ObserveUpdate, Incarnations
  <2>3. /\ old.gen \in Nat /\ new.gen \in Nat
        /\ \A call \in calls : call.pod.gen \in Nat
        /\ \A a \in asked : a.gen \in Nat
    BY DEF TypeOK, ProviderTypeOK, Pod, Call, Version
  <2>4. \A a \in AskedNow : a.uid = new.uid =>
          /\ a.gen <= new.gen
          /\ a.gen = new.gen /\ ~new.deleting => VersionOf(old) = VersionOf(new)
    <3>1. \A a \in AskedNow : a.uid = new.uid => a.gen <= old.gen
      BY <2>2
    <3>2. \A a \in AskedNow : a.uid = new.uid /\ a.gen = new.gen /\ ~new.deleting
            => old.gen = new.gen /\ ~old.deleting /\ ~new.deleting
      BY <2>2, <2>3, <3>1
    <3>3. old.deleting \in BOOLEAN /\ new.deleting \in BOOLEAN
      BY DEF TypeOK, Pod
    <3>4. \A a \in AskedNow : a.uid = new.uid /\ a.gen = new.gen /\ ~new.deleting
            => VersionOf(old) = VersionOf(new)
      BY <2>2, <3>2, <3>3 DEF VersionOf
    <3>5. QED
      BY <2>2, <2>3, <3>1, <3>4
  <2>5. \A call \in calls : call.pod.uid = new.uid =>
          /\ call.pod.gen <= new.gen
          /\ call.pod.deleting => new.deleting
    BY <2>2, <2>3
  <2>6. QED
    BY <2>2, <2>3, <2>4, <2>5
<1>3. CASE \E pod \in getPodFromList(cache, key) : ObserveDelete(pod)
  <2>1. PICK pod \in cache : ObserveDelete(pod)
    BY <1>3
  <2>2. /\ UNCHANGED <<api, calls, asked, run, up, nextUid>>
        /\ cache' = cache \ {pod}
        /\ used' = {v \in used : v.key # pod.key}
        /\ \A p \in api : p.uid # pod.uid
        /\ \A p \in cache' : p.key # pod.key
    BY <2>1 DEF ObserveDelete, Incarnations
  <2>3. QED
    BY <2>2 DEF VersionOf
<1>4. QED
  BY <1>1, <1>2, <1>3 DEF Informer

(* A creation begins only for a version that was not asked for in this run:  *)
(* otherwise its creation would be under way, and the key taken, or it would *)
(* be the version used last.                                                 *)
LEMMA NotAskedYet ==
  ASSUME TypeOK, Creations, NEW pod \in cache, Dequeue(pod.key),
         ~pod.deleting, VersionOf(pod) \notin used
  PROVE  [uid |-> pod.uid, gen |-> pod.gen, run |-> run] \notin asked
<1>1. \A call \in calls : call.pod # VersionOf(pod)
  BY DEF Dequeue, VersionOf
<1>2. SUFFICES ASSUME [uid |-> pod.uid, gen |-> pod.gen, run |-> run] \in asked
               PROVE  FALSE
  OBVIOUS
<1>3. [uid |-> pod.uid, gen |-> pod.gen, run |-> run] \in AskedNow
  BY <1>2 DEF AskedNow
<1>4. QED
  BY <1>1, <1>3 DEF Creations, AskedBefore, CallFitsPod, CacheIsOlder,
       CallIsOlder, AskedIsShown, AskedIsOlder

LEMMA WorkerCreations ==
  TypeOK /\ StoreStaysEmpty /\ Incarnations /\ Creations /\ Worker => Creations'
<1> SUFFICES ASSUME TypeOK, StoreStaysEmpty, Incarnations, Creations, Worker
             PROVE  Creations'
  OBVIOUS
<1> USE DEF unchangedButWorker, clusterVars, processVars, historyVars, Dequeue
<1>1. CASE \E key \in syncQ : SyncGone(key)
  BY <1>1, EmptyStore, CreationsFrame DEF SyncGone, StoreStaysEmpty
<1>2. CASE \E pod \in cache : SyncForceDelete(pod)
  BY <1>2, CreationsFrame DEF SyncForceDelete
<1>3. CASE \E pod \in cache : SyncDelete(pod)
  <2>1. PICK pod \in cache : SyncDelete(pod)
    BY <1>3
  <2>2. PICK call : /\ call.op = "delete" /\ call.pod = VersionOf(pod)
                    /\ calls' = calls \cup {call}
    BY <2>1 DEF SyncDelete, DeletePod
  <2>3. /\ UNCHANGED <<api, cache, used, asked, run, up, nextUid>>
        /\ pod.deleting
    BY <2>1 DEF SyncDelete
  <2>4. /\ call.pod.uid = pod.uid /\ call.pod.gen = pod.gen
        /\ call.pod.key = pod.key
        /\ call.op = "delete" <=> call.pod.deleting
        /\ pod.gen <= pod.gen
    BY <2>2, <2>3 DEF VersionOf, TypeOK, Pod
  <2>5. \A p \in cache : p.uid = pod.uid \/ p.key = pod.key => p = pod
    BY DEF Incarnations
  <2>6. CallFitsPod'
    BY <2>2, <2>4 DEF Creations, CallFitsPod
  <2>7. CallIsOlder'
    BY <2>2, <2>3, <2>4, <2>5 DEF Creations, CallIsOlder
  <2>8. AskedIsShown'
    BY <2>2, <2>3, <2>4, <2>5 DEF Creations, AskedIsShown, AskedNow
  <2>9. AskedIsOlder'
    BY <2>2, <2>3 DEF Creations, AskedIsOlder, AskedNow
  <2>10. QED
    BY <2>3, <2>6, <2>7, <2>8, <2>9
       DEF Creations, AskedBefore, CacheIsOlder
<1>4. CASE \E pod \in cache : SyncNothing(pod)
  BY <1>4, CreationsFrame DEF SyncNothing
<1>5. CASE \E pod \in cache : SyncPod(pod)
  <2>1. PICK pod \in cache : SyncPod(pod)
    BY <1>5
  <2>2. /\ CreatePod(pod)
        /\ asked' = asked \cup {[uid |-> pod.uid, gen |-> pod.gen, run |-> run]}
        /\ UNCHANGED <<api, cache, used, run, up, nextUid>>
        /\ ~pod.deleting
        /\ \A call \in calls : call.pod.key # pod.key
    BY <2>1, EmptyStore DEF SyncPod, StoreStaysEmpty
  <2>3. PICK call : /\ call.op = "create" /\ call.pod = VersionOf(pod)
                    /\ calls' = calls \cup {call}
    BY <2>2 DEF CreatePod
  <2>4. PICK new : /\ new.uid = pod.uid /\ new.gen = pod.gen /\ new.run = run
                   /\ asked' = asked \cup {new}
    BY <2>2
  <2>5. /\ call.pod.uid = pod.uid /\ call.pod.gen = pod.gen
        /\ call.pod.key = pod.key
        /\ call.op = "delete" <=> call.pod.deleting
        /\ ~call.pod.deleting
        /\ pod.gen <= pod.gen /\ run \in Nat /\ pod.uid < nextUid
    BY <2>2, <2>3 DEF VersionOf, TypeOK, Pod, Incarnations
  <2>6. \A p \in cache : p.uid = pod.uid \/ p.key = pod.key => p = pod
    BY DEF Incarnations
  <2>7. \A other \in calls : other.pod.uid # pod.uid
    BY <2>2 DEF Incarnations
  <2>8. AskedBefore'
    BY <2>2, <2>4, <2>5 DEF Creations, AskedBefore
  <2>9. CallFitsPod'
    BY <2>3, <2>5 DEF Creations, CallFitsPod
  <2>10. CallIsOlder'
    BY <2>2, <2>3, <2>5, <2>6 DEF Creations, CallIsOlder
  <2>11. AskedIsShown'
    <3>1. ASSUME NEW a \in AskedNow', NEW p \in cache, a.uid = p.uid
          PROVE  /\ a.gen <= p.gen
                 /\ \A c \in calls' : c.pod.key = p.key => c.pod.uid = p.uid
                 /\ a.gen = p.gen /\ ~p.deleting =>
                      \/ VersionOf(p) \in used
                      \/ \E c \in calls' : c.op = "create" /\ c.pod = VersionOf(p)
      <4>1. CASE p = pod
        <5>1. a.gen <= p.gen
          BY <2>2, <2>4, <2>5, <3>1, <4>1 DEF Creations, AskedIsShown, AskedNow
        <5>2. QED
          BY <2>2, <2>3, <2>5, <4>1, <5>1
      <4>2. CASE p # pod
        <5>1. p.uid # pod.uid /\ p.key # pod.key
          BY <2>6, <4>2
        <5>2. a \in AskedNow
          BY <2>2, <2>4, <3>1, <5>1 DEF AskedNow
        <5>3. QED
          BY <2>3, <2>5, <3>1, <5>1, <5>2 DEF Creations, AskedIsShown
      <4>3. QED
        BY <4>1, <4>2
    <3>2. QED
      BY <2>2, <3>1 DEF AskedIsShown
  <2>12. AskedIsOlder'
    BY <2>2, <2>3, <2>4, <2>5, <2>7
       DEF Creations, AskedIsOlder, AskedIsShown, AskedNow
  <2>13. QED
    BY <2>2, <2>8, <2>9, <2>10, <2>11, <2>12 DEF Creations, CacheIsOlder
<1>6. QED
  BY <1>1, <1>2, <1>3, <1>4, <1>5 DEF Worker

(* When a call returns, its pod is the one the cache has, if any is left of  *)
(* its key that was asked for: what was used last is replaced by it only.    *)
LEMMA CallStepCreations ==
  ASSUME TypeOK, Incarnations, Creations, NEW call \in calls, CallStep(call)
  PROVE  Creations'
<1> USE DEF unchangedButCall, clusterVars, processVars, historyVars
<1>1. CASE CreateStep(call) \/ DeleteStep(call)
  <2>1. call \in Call
    BY DEF TypeOK, ProviderTypeOK
  <2>2. PICK next : /\ next.pod = call.pod /\ next.op = call.op
                    /\ calls' = (calls \ {call}) \cup {next}
    BY <1>1, <2>1 DEF CreateStep, DeleteStep, CreateAccepted, DeleteAccepted, Call
  <2>3. UNCHANGED <<api, cache, used, asked, run, up, nextUid>>
    BY <1>1 DEF CreateStep, DeleteStep
  <2>4. QED
    BY <2>2, <2>3 DEF Creations, AskedBefore, CallFitsPod, CacheIsOlder,
       CallIsOlder, AskedIsShown, AskedIsOlder, AskedNow
<1>2. CASE CreateReturn(call) \/ DeleteReturn(call)
  <2>1. /\ UNCHANGED <<api, cache, asked, run, up, nextUid>>
        /\ calls' = calls \ {call}
        /\ used' = NowUsed(call.pod)
    BY <1>2 DEF CreateReturn, DeleteReturn, CreatePodReturns, DeletePodReturns
  <2>2. ASSUME NEW a \in AskedNow, NEW p \in cache, a.uid = p.uid,
               a.gen = p.gen, ~p.deleting
        PROVE  \/ VersionOf(p) \in used'
               \/ \E c \in calls' : c.op = "create" /\ c.pod = VersionOf(p)
    <3>1. \/ VersionOf(p) \in used
          \/ \E c \in calls : c.op = "create" /\ c.pod = VersionOf(p)
      BY <2>2 DEF Creations, AskedBefore, CallFitsPod, CacheIsOlder,
       CallIsOlder, AskedIsShown, AskedIsOlder
    <3>2. CASE call.pod = VersionOf(p)
      BY <2>1, <3>2 DEF NowUsed, VersionOf
    <3>3. CASE call.pod # VersionOf(p) /\ call.pod.key # p.key
      BY <2>1, <3>1, <3>3 DEF NowUsed, VersionOf
    <3>4. CASE call.pod # VersionOf(p) /\ call.pod.key = p.key
      <4>1. call.pod.uid = p.uid
        BY <2>2, <3>4 DEF Creations, AskedBefore, CallFitsPod, CacheIsOlder,
       CallIsOlder, AskedIsShown, AskedIsOlder
      <4>2. ~call.pod.deleting /\ call.op = "create"
        <5>1. ~call.pod.deleting
          BY <2>2, <4>1 DEF Creations, CallIsOlder
        <5>2. call.op # "delete"
          BY <5>1 DEF Creations, CallFitsPod
        <5>3. call.op \in {"create", "delete"}
          BY DEF TypeOK, ProviderTypeOK, Call
        <5>4. QED
          BY <5>1, <5>2, <5>3
      <4>3. call.pod.gen <= p.gen /\ a.gen <= call.pod.gen
        BY <2>2, <4>1, <4>2 DEF Creations, AskedBefore, CallFitsPod, CacheIsOlder,
       CallIsOlder, AskedIsShown, AskedIsOlder
      <4>4. /\ call.pod \in Version /\ p \in Pod
        BY DEF TypeOK, ProviderTypeOK, Call
      <4>5. call.pod.gen = p.gen
        BY <2>2, <4>3, <4>4 DEF Version, Pod
      <4>6. call.pod.deleting = p.deleting
        BY <2>2, <4>2, <4>4 DEF Version, Pod
      <4>7. call.pod = VersionOf(p)
        BY <3>4, <4>1, <4>4, <4>5, <4>6 DEF Version, VersionOf
      <4>8. QED
        BY <3>4, <4>7
    <3>5. QED
      BY <3>2, <3>3, <3>4
  <2>3. QED
    BY <2>1, <2>2 DEF Creations, AskedBefore, CallFitsPod, CacheIsOlder,
       CallIsOlder, AskedIsShown, AskedIsOlder, AskedNow
<1>3. CASE CreatePanic(call) \/ DeletePanic(call)
  BY <1>3 DEF CreatePanic, DeletePanic, Exit, Creations, AskedBefore, CallFitsPod, CacheIsOlder,
       CallIsOlder, AskedIsShown, AskedIsOlder, AskedNow
<1>4. QED
  BY <1>1, <1>2, <1>3 DEF CallStep

LEMMA ApiWritesCreations ==
  TypeOK /\ Creations /\ (\/ \E uid \in deleteQ : DeleteFromApi(uid)
                        \/ \E pod \in posted : WriteStatus(pod))
    => Creations'
<1> USE DEF TypeOK, Creations, AskedBefore, CallFitsPod, CacheIsOlder,
       CallIsOlder, AskedIsShown, AskedIsOlder, AskedNow, providerVars, processVars,
            historyVars, Pod
<1>1. ASSUME TypeOK, Creations, NEW uid \in deleteQ, DeleteFromApi(uid)
      PROVE  Creations'
  BY <1>1 DEF DeleteFromApi
<1>2. ASSUME TypeOK, Creations, NEW pod \in posted, WriteStatus(pod)
      PROVE  Creations'
  <2>1. \A p \in api : LET q == [p EXCEPT !.status = pod.status] IN
          q.uid = p.uid /\ q.gen = p.gen
    BY <1>2
  <2>2. QED
    BY <1>2, <2>1 DEF WriteStatus
<1>3. QED
  BY <1>1, <1>2

LEMMA ExitCreations ==
  ASSUME NEW cause, NEW sent
  PROVE  Creations /\ Exit(cause, sent) => Creations'
BY DEF Creations, AskedBefore, CallFitsPod, CacheIsOlder,
       CallIsOlder, AskedIsShown, AskedIsOlder, AskedNow, Exit, clusterVars, historyVars

LEMMA StartCreations == TypeOK /\ Creations /\ Start => Creations'
BY DEF TypeOK, Creations, AskedBefore, CallFitsPod, CacheIsOlder,
       CallIsOlder, AskedIsShown, AskedIsOlder, AskedNow, Start, clusterVars, libraryVars, historyVars

(* What a run remembers of a version it began to create lasts as long as the *)
(* version is to be seen: its creation is under way or it was used last, in  *)
(* whatever order the informer, the workers and the calls come.              *)
THEOREM CreationsAreKnown == Spec => []Creations
<1>1. Init => Creations
  BY DEF Init, Creations, AskedBefore, CallFitsPod, CacheIsOlder, CallIsOlder,
         AskedIsShown, AskedIsOlder, AskedNow
<1>2. TypeOK /\ StoreStaysEmpty /\ Incarnations /\ Creations /\ [Next]_vars
        => Creations'
  <2> SUFFICES ASSUME TypeOK, StoreStaysEmpty, Incarnations, Creations,
                      [Next]_vars
               PROVE  Creations'
    OBVIOUS
  <2>1. CASE Tracker
    <3>1. CASE \E pod \in current : FetchPanic(pod)
      BY <3>1, ExitCreations DEF FetchPanic
    <3>2. CASE ~\E pod \in current : FetchPanic(pod)
      BY <2>1, <3>2, CreationsFrame DEF Tracker, StatusTimer, Visit,
           FetchPodStatus, Publish, EndPoll, CleanupTimer, ListActive, Cleanup,
           unchangedButTracker, providerVars, clusterVars, processVars,
           historyVars
    <3>3. QED
      BY <3>1, <3>2
  <2>2. CASE \E service \in services :
               Settles(service) \/ FinishesDelete(service) \/ Meddle(service)
    BY <2>2, CreationsFrame DEF Settles, Settle, FinishesDelete, FinishDelete,
         Meddle, DeletedElsewhere, Redeployed, unchangedButServices,
         clusterVars, processVars, libraryVars, historyVars
  <2>3. CASE Stop
    BY <2>3, ExitCreations DEF Stop
  <2>4. CASE UNCHANGED vars
    BY <2>4, CreationsFrame DEF vars, providerVars, clusterVars, processVars,
         libraryVars, historyVars
  <2>5. CASE StayDown
    BY <2>4, <2>5 DEF StayDown
  <2>6. CASE \E call \in adrift : ArrivesLate(call)
    BY <2>6, CreationsFrame DEF ArrivesLate, Arrives,
       unchangedButServices, clusterVars, processVars, libraryVars, historyVars
  <2>7. QED
    BY <2>1, <2>2, <2>3, <2>4, <2>5, <2>6, ClusterCreations, InformerCreations,
       WorkerCreations, CallStepCreations, ApiWritesCreations, StartCreations
       DEF Next
<1>3. QED
  BY <1>1, <1>2, TypeCorrect, StoreEmpty, PodsKeepIdentity, PTL DEF Spec

(* Only a worker begins a call, and of those that do SyncPod alone begins a  *)
(* creation.                                                                 *)
LEMMA BegunByAWorker ==
  ASSUME TypeOK, [Next]_vars, ~Worker PROVE Begun = {}
<1> SUFFICES ASSUME NEW call \in calls' \ calls, call.op = "create",
                    call.stage = "rpc"
             PROVE  FALSE
  BY DEF Begun
<1>1. calls' # calls
  OBVIOUS
<1>2. CASE \E c \in calls : CallStep(c)
  <2>1. PICK c \in calls : CallStep(c)
    BY <1>2
  <2>2. c \in Call
    BY DEF TypeOK, ProviderTypeOK
  <2>3. CASE CreateStep(c) \/ DeleteStep(c)
    <3>1. PICK next : next.stage = "wait" /\ calls' = (calls \ {c}) \cup {next}
      BY <2>2, <2>3 DEF CreateStep, DeleteStep, CreateAccepted,
           DeleteAccepted, Call
    <3>2. QED
      BY <3>1
  <2>4. CASE CreateReturn(c) \/ DeleteReturn(c)
    BY <2>4 DEF CreateReturn, DeleteReturn, CreatePodReturns, DeletePodReturns
  <2>5. CASE CreatePanic(c) \/ DeletePanic(c)
    BY <2>5 DEF CreatePanic, DeletePanic, Exit
  <2>6. QED
    BY <2>1, <2>3, <2>4, <2>5 DEF CallStep
<1>3. CASE Cluster
  BY <1>1, <1>3 DEF Cluster, BindPod, EditPod, RequestDelete, ForceRemove,
       unchangedButCluster, providerVars
<1>4. CASE \E key \in Keys : Informer(key)
  BY <1>1, <1>4 DEF Informer, ObserveAdd, ObserveUpdate, ObserveDelete,
       unchangedButInformer, providerVars
<1>5. CASE \/ \E uid \in deleteQ : DeleteFromApi(uid)
           \/ \E pod \in posted : WriteStatus(pod)
  BY <1>1, <1>5 DEF DeleteFromApi, WriteStatus, providerVars
<1>6. CASE Tracker
  <2>1. CASE \E pod \in current : FetchPanic(pod)
    BY <2>1 DEF FetchPanic, Exit
  <2>2. CASE ~\E pod \in current : FetchPanic(pod)
    BY <1>1, <1>6, <2>2 DEF Tracker, StatusTimer, Visit, FetchPodStatus,
         Publish, EndPoll, CleanupTimer, ListActive, Cleanup, providerVars
  <2>3. QED
    BY <2>1, <2>2
<1>7. CASE \/ \E service \in services :
                Settles(service) \/ FinishesDelete(service) \/ Meddle(service)
           \/ \E c \in adrift : ArrivesLate(c)
  BY <1>1, <1>7 DEF Settles, Settle, FinishesDelete, FinishDelete, Meddle,
       DeletedElsewhere, Redeployed, ArrivesLate, Arrives
<1>8. CASE Stop \/ Start \/ StayDown \/ UNCHANGED vars
  BY <1>1, <1>8 DEF Stop, Exit, Start, StayDown, vars, providerVars
<1>9. QED
  BY <1>2, <1>3, <1>4, <1>5, <1>6, <1>7, <1>8 DEF Next

LEMMA BegunOnce ==
  ASSUME TypeOK, StoreStaysEmpty, Creations, [Next]_vars, NEW call \in Begun
  PROVE  [uid |-> call.pod.uid, gen |-> call.pod.gen, run |-> run] \notin asked
<1>1. Worker
  BY BegunByAWorker
<1>2. call \in calls' \ calls /\ call.op = "create"
  BY DEF Begun
<1>3. CASE \E key \in syncQ : SyncGone(key)
  BY <1>2, <1>3, EmptyStore DEF SyncGone, StoreStaysEmpty
<1>4. CASE \E pod \in cache : \/ SyncForceDelete(pod)
                              \/ SyncDelete(pod)
                              \/ SyncNothing(pod)
  BY <1>2, <1>4 DEF SyncForceDelete, SyncDelete, SyncNothing, DeletePod
<1>5. CASE \E pod \in cache : SyncPod(pod)
  <2>1. PICK pod \in cache : SyncPod(pod)
    BY <1>5
  <2>2. /\ CreatePod(pod) /\ Dequeue(pod.key)
        /\ ~pod.deleting /\ VersionOf(pod) \notin used
    BY <2>1, EmptyStore DEF SyncPod, StoreStaysEmpty
  <2>3. call.pod = VersionOf(pod)
    BY <1>2, <2>2 DEF CreatePod
  <2>4. call.pod.uid = pod.uid /\ call.pod.gen = pod.gen
    BY <2>3 DEF VersionOf
  <2>5. QED
    BY <2>2, <2>4, NotAskedYet
<1>6. QED
  BY <1>1, <1>3, <1>4, <1>5 DEF Worker

(* A run of the process never begins a second creation for a version of a    *)
(* pod, although what it created is not in the store.                        *)
THEOREM CreatedOnce == Spec => CreateOncePerVersion
<1>1. TypeOK /\ StoreStaysEmpty /\ Creations /\ [Next]_vars =>
        [\A call \in Begun :
           [uid |-> call.pod.uid, gen |-> call.pod.gen, run |-> run] \notin asked]_vars
  BY BegunOnce
<1>2. QED
  BY <1>1, TypeCorrect, StoreEmpty, CreationsAreKnown, PTL
     DEF Spec, CreateOncePerVersion

-----------------------------------------------------------------------------
(* No two calls are about the same pod. *)

(* A call has its pod and the key of its pod for itself, and what is to be   *)
(* deleted, by a call or from the API server, was given up.                  *)
CallsAreApart ==
  /\ \A c, d \in calls :
       c.pod.key = d.pod.key \/ c.pod.uid = d.pod.uid => c = d
  /\ \A call \in calls : call.op = "delete" => call.pod.uid \in ended
  /\ deleteQ \subseteq ended

LEMMA ApartFrame ==
  ASSUME CallsAreApart, UNCHANGED <<calls, ended, deleteQ>>
  PROVE  CallsAreApart'
BY DEF CallsAreApart

LEMMA ApartExit ==
  ASSUME NEW cause, NEW sent
  PROVE  CallsAreApart /\ Exit(cause, sent) => CallsAreApart'
BY DEF CallsAreApart, Exit, historyVars

(* A worker begins a call only while its key, and so its pod, has none.      *)
LEMMA WorkerApart ==
  TypeOK /\ StoreStaysEmpty /\ Incarnations /\ CallsAreApart /\ Worker
    => CallsAreApart'
<1> SUFFICES ASSUME TypeOK, StoreStaysEmpty, Incarnations, CallsAreApart, Worker
             PROVE  CallsAreApart'
  OBVIOUS
<1>1. ASSUME NEW pod \in cache, Dequeue(pod.key),
             NEW call, call.pod = VersionOf(pod), calls' = calls \cup {call}
      PROVE  \A c, d \in calls' :
               c.pod.key = d.pod.key \/ c.pod.uid = d.pod.uid => c = d
  <2>1. call.pod.key = pod.key /\ call.pod.uid = pod.uid
    BY <1>1 DEF VersionOf
  <2>2. \A c \in calls : c.pod.key # pod.key /\ c.pod.uid # pod.uid
    BY <1>1 DEF Dequeue, Incarnations
  <2>3. QED
    BY <1>1, <2>1, <2>2 DEF CallsAreApart
<1>2. CASE \E key \in syncQ : SyncGone(key)
  BY <1>2, EmptyStore, ApartFrame DEF SyncGone, StoreStaysEmpty, historyVars
<1>3. CASE \E pod \in cache : SyncForceDelete(pod)
  BY <1>3 DEF SyncForceDelete, CallsAreApart
<1>4. CASE \E pod \in cache : SyncDelete(pod)
  <2>1. PICK pod \in cache : SyncDelete(pod)
    BY <1>4
  <2>2. PICK call : /\ call.op = "delete" /\ call.pod = VersionOf(pod)
                    /\ calls' = calls \cup {call}
    BY <2>1 DEF SyncDelete, DeletePod
  <2>3. call.pod.uid = pod.uid
    BY <2>2 DEF VersionOf
  <2>4. /\ Dequeue(pod.key)
        /\ ended' = ended \cup {pod.uid}
        /\ UNCHANGED deleteQ
    BY <2>1 DEF SyncDelete
  <2>5. QED
    BY <1>1, <2>2, <2>3, <2>4 DEF CallsAreApart
<1>5. CASE \E pod \in cache : SyncNothing(pod)
  BY <1>5, ApartFrame DEF SyncNothing, historyVars
<1>6. CASE \E pod \in cache : SyncPod(pod)
  <2>1. PICK pod \in cache : SyncPod(pod)
    BY <1>6
  <2>2. Dequeue(pod.key) /\ CreatePod(pod) /\ UNCHANGED <<deleteQ, ended>>
    BY <2>1, EmptyStore DEF SyncPod, StoreStaysEmpty
  <2>3. PICK call : /\ call.op = "create" /\ call.pod = VersionOf(pod)
                    /\ calls' = calls \cup {call}
    BY <2>2 DEF CreatePod
  <2>4. QED
    BY <1>1, <2>2, <2>3 DEF CallsAreApart
<1>7. QED
  BY <1>2, <1>3, <1>4, <1>5, <1>6 DEF Worker

(* A step of a call leaves its pod alone; one that returns was a deletion    *)
(* when its pod is to be deleted from the API server.                        *)
LEMMA CallStepApart ==
  ASSUME TypeOK, CallsAreApart, NEW call \in calls, CallStep(call)
  PROVE  CallsAreApart'
<1>1. CASE CreateStep(call) \/ DeleteStep(call)
  <2>1. call \in Call
    BY DEF TypeOK, ProviderTypeOK
  <2>2. PICK next : /\ next.pod = call.pod /\ next.op = call.op
                    /\ calls' = (calls \ {call}) \cup {next}
    BY <1>1, <2>1 DEF CreateStep, DeleteStep, CreateAccepted, DeleteAccepted, Call
  <2>3. UNCHANGED <<ended, deleteQ>>
    BY <1>1 DEF CreateStep, DeleteStep, unchangedButCall, historyVars
  <2>4. QED
    BY <2>2, <2>3 DEF CallsAreApart
<1>2. CASE CreateReturn(call)
  BY <1>2 DEF CreateReturn, CreatePodReturns, unchangedButCall, historyVars,
              CallsAreApart
<1>3. CASE DeleteReturn(call)
  BY <1>3 DEF DeleteReturn, DeletePodReturns, unchangedButCall, historyVars,
              CallsAreApart
<1>4. CASE CreatePanic(call) \/ DeletePanic(call)
  BY <1>4, ApartExit DEF CreatePanic, DeletePanic
<1>5. QED
  BY <1>1, <1>2, <1>3, <1>4 DEF CallStep

(* For every set of namespaces and names, every number of pods and versions, *)
(* and through restarts, a pod is worked on by one call at a time.           *)
LEMMA OneCallAtATime == Spec => []CallsAreApart
<1>1. Init => CallsAreApart
  BY DEF Init, CallsAreApart
<1>2. TypeOK /\ StoreStaysEmpty /\ Incarnations /\ CallsAreApart /\ [Next]_vars
        => CallsAreApart'
  <2> SUFFICES ASSUME TypeOK, StoreStaysEmpty, Incarnations, CallsAreApart,
                      [Next]_vars
               PROVE  CallsAreApart'
    OBVIOUS
  <2>1. CASE Cluster
    BY <2>1, ApartFrame DEF Cluster, BindPod, EditPod, RequestDelete,
         ForceRemove, unchangedButCluster, providerVars, libraryVars, historyVars
  <2>2. CASE \E key \in Keys : Informer(key)
    BY <2>2, ApartFrame DEF Informer, ObserveAdd, ObserveUpdate, ObserveDelete,
         unchangedButInformer, providerVars, historyVars
  <2>3. CASE \E uid \in deleteQ : DeleteFromApi(uid)
    BY <2>3 DEF DeleteFromApi, CallsAreApart, providerVars, historyVars
  <2>4. CASE \E pod \in posted : WriteStatus(pod)
    BY <2>4, ApartFrame DEF WriteStatus, providerVars, historyVars
  <2>5. CASE Tracker
    <3>1. CASE \E pod \in current : FetchPanic(pod)
      BY <3>1, ApartExit DEF FetchPanic
    <3>2. CASE ~\E pod \in current : FetchPanic(pod)
      BY <2>5, <3>2, ApartFrame DEF Tracker, StatusTimer, Visit,
           FetchPodStatus, Publish, EndPoll, CleanupTimer, ListActive, Cleanup,
           unchangedButTracker, providerVars, historyVars
    <3>3. QED
      BY <3>1, <3>2
  <2>6. CASE \E service \in services :
               Settles(service) \/ FinishesDelete(service) \/ Meddle(service)
    BY <2>6, ApartFrame DEF Settles, Settle, FinishesDelete, FinishDelete,
         Meddle, DeletedElsewhere, Redeployed, unchangedButServices,
         libraryVars, historyVars
  <2>7. CASE Stop
    BY <2>7, ApartExit DEF Stop
  <2>8. CASE Start
    BY <2>8, ApartFrame DEF Start, libraryVars, historyVars
  <2>9. CASE UNCHANGED vars
    BY <2>9, ApartFrame DEF vars, providerVars, libraryVars, historyVars
  <2>10. CASE StayDown
    BY <2>9, <2>10 DEF StayDown
  <2>11. CASE \E call \in adrift : ArrivesLate(call)
    BY <2>11, ApartFrame DEF ArrivesLate, Arrives,
       unchangedButServices, libraryVars, historyVars
  <2>12. QED
    BY <2>1, <2>2, <2>3, <2>4, <2>5, <2>6, <2>7, <2>8, <2>9, <2>10, <2>11,
       WorkerApart, CallStepApart DEF Next
<1>3. QED
  BY <1>1, <1>2, TypeCorrect, StoreEmpty, PodsKeepIdentity, PTL DEF Spec

-----------------------------------------------------------------------------
(* A pod's own service. *)

(* The invariant that carries OwnServiceIsOlder: what is served, created or  *)
(* adrift was asked for, what is adrift by an earlier run, and what stands   *)
(* in the way of a creation, by any name, is older than it.                  *)
ServicesWereAsked == \A s \in services : \E a \in asked : a.uid = s.owner

CallsWereAsked ==
  \A call \in calls : call.op = "create" => \E a \in asked : a.uid = call.pod.uid

AdriftIsOlder ==
  \A call \in adrift : call.op = "create" =>
    \E a \in asked : a.uid = call.pod.uid /\ (up => a.run < run)

NoCallWhenDown == ~up => calls = {}

AskedEarlier(call) ==
  \E a \in asked : a.uid = call.pod.uid /\ (a.run < run \/ a.gen < call.pod.gen)

RequestsAreNewer ==
  \A call \in calls, s \in services :
    call.op = "create" /\ call.stage = "rpc" /\ s.owner = call.pod.uid
      => AskedEarlier(call)

Ownership ==
  /\ ServicesWereAsked
  /\ CallsWereAsked
  /\ AdriftIsOlder
  /\ NoCallWhenDown
  /\ RequestsAreNewer

LEMMA DeletingOwners ==
  ASSUME ProviderTypeOK, NEW name, NEW s \in Deleting(name)
  PROVE  \E t \in services : s.owner = t.owner
BY DEF Deleting, ProviderTypeOK, Service

(* A step of a process that goes on, ends, or starts. *)
GoesOn ==
  /\ UNCHANGED <<run, up>>
  /\ \A call \in adrift' \ adrift : call.op = "delete"

Ends == run' = run /\ up' = FALSE /\ calls' = {} /\ adrift' \subseteq adrift \cup calls

Begins == run' = run + 1 /\ up' = TRUE /\ adrift' = adrift

(* No call begins, what was asked for stays so, and every service has the    *)
(* owner of one there was.                                                   *)
LEMMA OwnershipFrame ==
  ASSUME TypeOK, Creations, Ownership, calls' \subseteq calls, UNCHANGED asked,
         GoesOn \/ Ends \/ Begins,
         \A s \in services' : \E t \in services : s.owner = t.owner
  PROVE  Ownership'
<1>1. \A a \in asked :
        /\ a.run \in Nat /\ run \in Nat /\ a.run <= run
        /\ a.run < run => a.run < run'
  BY DEF TypeOK, Creations, AskedBefore, GoesOn, Ends, Begins
<1>2. ServicesWereAsked' /\ CallsWereAsked'
  BY DEF Ownership, ServicesWereAsked, CallsWereAsked
<1>3. RequestsAreNewer'
  <2> SUFFICES ASSUME NEW call \in calls', NEW s \in services',
                      call.op = "create", call.stage = "rpc",
                      s.owner = call.pod.uid
               PROVE  AskedEarlier(call)'
    BY DEF RequestsAreNewer
  <2>1. call \in calls /\ \E t \in services : t.owner = call.pod.uid
    OBVIOUS
  <2>2. AskedEarlier(call)
    BY <2>1 DEF Ownership, RequestsAreNewer
  <2>3. QED
    BY <1>1, <2>2 DEF AskedEarlier
<1>4. NoCallWhenDown'
  BY DEF Ownership, NoCallWhenDown, GoesOn, Ends, Begins
<1>5. AdriftIsOlder'
  <2>1. CASE GoesOn
    BY <2>1 DEF Ownership, AdriftIsOlder, GoesOn
  <2>2. CASE Ends
    BY <2>2 DEF Ownership, AdriftIsOlder, CallsWereAsked, Ends
  <2>3. CASE Begins
    <3>1. \A a \in asked : a.run < run'
      <4>1. run' = run + 1
        BY <2>3 DEF Begins
      <4>2. QED
        BY <1>1, <4>1
    <3>2. QED
      BY <2>3, <3>1 DEF Ownership, AdriftIsOlder, Begins
  <2>4. QED
    BY <2>1, <2>2, <2>3
<1>6. QED
  BY <1>2, <1>3, <1>4, <1>5 DEF Ownership

LEMMA ExitOwnership ==
  ASSUME TypeOK, Creations, Ownership, NEW cause, NEW sent \in SUBSET calls,
         Exit(cause, sent)
  PROVE  Ownership'
BY OwnershipFrame DEF Exit, Ends, historyVars

(* A request that is adrift makes a service older than any creation there    *)
(* is: an earlier run asked for it.                                          *)
LEMMA ArrivalOwnership ==
  ASSUME TypeOK, Creations, Ownership, NEW call \in adrift, ArrivesLate(call)
  PROVE  Ownership'
<1>1. UNCHANGED <<calls, asked, run, up>> /\ adrift' \subseteq adrift
  BY DEF ArrivesLate, Arrives, unchangedButServices, processVars, historyVars
<1>2. CASE \A s \in services' : \E t \in services : s.owner = t.owner
  BY <1>1, <1>2, OwnershipFrame DEF GoesOn
<1>3. CASE call.op = "create" /\ services' = services \cup {ServiceOf(call)}
  <2>1. ServiceOf(call).owner = call.pod.uid
    BY DEF ServiceOf
  <2>2. PICK a \in asked : a.uid = call.pod.uid /\ (up => a.run < run)
    BY <1>3 DEF Ownership, AdriftIsOlder
  <2>3. calls # {} => up
    BY DEF Ownership, NoCallWhenDown
  <2>4. ServicesWereAsked'
    BY <1>1, <1>3, <2>1, <2>2 DEF Ownership, ServicesWereAsked
  <2>5. RequestsAreNewer'
    BY <1>1, <1>3, <2>1, <2>2, <2>3 DEF Ownership, RequestsAreNewer, AskedEarlier
  <2>6. (CallsWereAsked /\ AdriftIsOlder /\ NoCallWhenDown)'
    BY <1>1 DEF Ownership, CallsWereAsked, AdriftIsOlder, NoCallWhenDown
  <2>7. QED
    BY <2>4, <2>5, <2>6 DEF Ownership
<1>4. CASE services' = Deleting(NameOf(call))
  <2>1. \A s \in services' : \E t \in services : s.owner = t.owner
    BY <1>4, DeletingOwners DEF TypeOK
  <2>2. QED
    BY <1>2, <2>1
<1>5. QED
  BY <1>2, <1>3, <1>4 DEF ArrivesLate, Arrives

LEMMA ServicesOwnership ==
  ASSUME TypeOK, Creations, Ownership, NEW service \in services,
         Settles(service) \/ FinishesDelete(service) \/ Meddle(service)
  PROVE  Ownership'
<1>1. service \in Service /\ ProviderTypeOK
  BY DEF TypeOK, ProviderTypeOK
<1>2. \A s \in services' : \E t \in services : s.owner = t.owner
  <2>1. CASE \E new : new.owner = service.owner
                      /\ services' = (services \ {service}) \cup {new}
    BY <2>1
  <2>2. CASE services' = Deleting(service.name)
    BY <1>1, <2>2, DeletingOwners
  <2>3. CASE services' \subseteq services
    BY <2>3
  <2>4. QED
    BY <1>1, <2>1, <2>2, <2>3 DEF Settles, Settle, FinishesDelete, FinishDelete,
       Meddle, DeletedElsewhere, Redeployed, Service
<1>3. UNCHANGED <<calls, adrift, asked, run, up>>
  BY DEF Settles, Settle, FinishesDelete, FinishDelete, Meddle, DeletedElsewhere,
         Redeployed, unchangedButServices, processVars, historyVars
<1>4. QED
  BY <1>2, <1>3, OwnershipFrame DEF GoesOn

(* What a worker asks for again it asked for in an earlier run or for an     *)
(* earlier version.                                                          *)
LEMMA WorkerOwnership ==
  TypeOK /\ StoreStaysEmpty /\ Creations /\ Ownership /\ Worker => Ownership'
<1> SUFFICES ASSUME TypeOK, StoreStaysEmpty, Creations, Ownership, Worker
             PROVE  Ownership'
  OBVIOUS
<1>1. UNCHANGED <<services, adrift, run, up>> /\ up
  BY DEF Worker, SyncGone, SyncForceDelete, SyncDelete, SyncNothing, SyncPod,
         unchangedButWorker, processVars, Dequeue
<1>2. CASE \E key \in syncQ : SyncGone(key)
  BY <1>1, <1>2, EmptyStore, OwnershipFrame
     DEF SyncGone, StoreStaysEmpty, historyVars, GoesOn
<1>3. CASE \E pod \in cache : SyncForceDelete(pod) \/ SyncNothing(pod)
  BY <1>1, <1>3, OwnershipFrame
     DEF SyncForceDelete, SyncNothing, historyVars, GoesOn
<1>4. CASE \E pod \in cache : SyncDelete(pod)
  <2>1. /\ UNCHANGED asked
        /\ \E call : call.op = "delete" /\ calls' = calls \cup {call}
    BY <1>4 DEF SyncDelete, DeletePod
  <2>2. QED
    BY <1>1, <2>1 DEF Ownership, ServicesWereAsked, CallsWereAsked,
       AdriftIsOlder, NoCallWhenDown, RequestsAreNewer, AskedEarlier
<1>5. CASE \E pod \in cache : SyncPod(pod)
  <2>1. PICK pod \in cache : SyncPod(pod)
    BY <1>5
  <2> DEFINE request == [uid |-> pod.uid, gen |-> pod.gen, run |-> run]
  <2>2. /\ CreatePod(pod) /\ asked' = asked \cup {request}
        /\ ~pod.deleting /\ VersionOf(pod) \notin used /\ Dequeue(pod.key)
    BY <2>1, EmptyStore DEF SyncPod, StoreStaysEmpty
  <2>3. PICK call : /\ call.op = "create" /\ call.pod = VersionOf(pod)
                    /\ calls' = calls \cup {call}
    BY <2>2 DEF CreatePod
  <2>4. call.pod.uid = pod.uid /\ call.pod.gen = pod.gen
    BY <2>3 DEF VersionOf
  <2>5. ASSUME NEW a \in asked, a.uid = pod.uid
        PROVE  a.run < run \/ a.gen < pod.gen
    <3>1. a.run \in Nat /\ a.gen \in Nat /\ run \in Nat /\ pod.gen \in Nat
      BY DEF TypeOK, Pod
    <3>2. a.run <= run
      BY DEF Creations, AskedBefore
    <3>3. CASE a.run = run
      <4>1. a \in AskedNow
        BY <3>3 DEF AskedNow
      <4>2. a.gen <= pod.gen
        BY <4>1, <2>5 DEF Creations, AskedIsShown
      <4>3. a.gen # pod.gen
        <5>1. \A c \in calls : c.pod # VersionOf(pod)
          BY <2>2 DEF Dequeue, VersionOf
        <5>2. QED
          BY <2>2, <2>5, <4>1, <5>1 DEF Creations, AskedIsShown
      <4>4. QED
        BY <3>1, <4>2, <4>3
    <3>4. QED
      BY <3>1, <3>2, <3>3
  <2>6. \A s \in services : s.owner = pod.uid =>
          \E a \in asked : a.uid = pod.uid /\ (a.run < run \/ a.gen < pod.gen)
    BY <2>5 DEF Ownership, ServicesWereAsked
  <2>7. (ServicesWereAsked /\ CallsWereAsked /\ AdriftIsOlder /\ NoCallWhenDown)'
    <3>1. request \in asked' /\ request.uid = call.pod.uid /\ asked \subseteq asked'
      BY <2>2, <2>4
    <3>2. QED
      BY <1>1, <2>3, <3>1 DEF Ownership, ServicesWereAsked, CallsWereAsked,
         AdriftIsOlder, NoCallWhenDown
  <2>8. RequestsAreNewer'
    BY <1>1, <2>2, <2>3, <2>4, <2>6 DEF Ownership, RequestsAreNewer, AskedEarlier
  <2>9. QED
    BY <2>7, <2>8 DEF Ownership
<1>6. QED
  BY <1>2, <1>3, <1>4, <1>5 DEF Worker

(* The service a call makes obstructs no other call: there is none for the   *)
(* same pod.                                                                 *)
LEMMA CallStepOwnership ==
  ASSUME TypeOK, CallsAreApart, Creations, Ownership, NEW call \in calls, CallStep(call)
  PROVE  Ownership'
<1> USE DEF unchangedButCall, processVars, historyVars
<1>1. call \in Call /\ ProviderTypeOK
  BY DEF TypeOK, ProviderTypeOK
<1>2. CASE CreateStep(call)
  <2> DEFINE next == [call EXCEPT !.stage = "wait"]
             new  == ServiceOf(call)
  <2>1. /\ next.op = call.op /\ next.stage = "wait" /\ next.pod = call.pod
        /\ new.owner = call.pod.uid
        /\ calls' = (calls \ {call}) \cup {next}
        /\ services' = services \cup {new}
    <3>1. /\ calls' = (calls \ {call}) \cup {next}
          /\ services' = services \cup {new}
      BY <1>2 DEF CreateStep, CreateAccepted
    <3>2. next.op = call.op /\ next.stage = "wait" /\ next.pod = call.pod
      BY <1>1 DEF Call
    <3>3. QED
      BY <3>1, <3>2 DEF ServiceOf
  <2> HIDE DEF next, new
  <2>2. call.op = "create" /\ UNCHANGED <<asked, adrift, run, up>>
    BY <1>2 DEF CreateStep, CreateAccepted
  <2>3. (ServicesWereAsked /\ CallsWereAsked /\ AdriftIsOlder /\ NoCallWhenDown)'
    BY <2>1, <2>2 DEF Ownership, ServicesWereAsked, CallsWereAsked,
       AdriftIsOlder, NoCallWhenDown
  <2>4. \A c \in calls \ {call} : c.pod.uid # call.pod.uid
    BY DEF CallsAreApart
  <2>5. RequestsAreNewer'
    BY <2>1, <2>2, <2>4 DEF Ownership, RequestsAreNewer, AskedEarlier
  <2>6. QED
    BY <2>3, <2>5 DEF Ownership
<1>3. CASE DeleteStep(call)
  <2>1. PICK next : /\ next.op = "delete"
                    /\ calls' = (calls \ {call}) \cup {next}
    BY <1>1, <1>3 DEF DeleteStep, DeleteAccepted, Call
  <2>2. \A s \in services' : \E t \in services : s.owner = t.owner
    BY <1>1, <1>3, DeletingOwners DEF DeleteStep, DeleteAccepted
  <2>3. UNCHANGED <<asked, adrift, run, up>>
    BY <1>3 DEF DeleteStep, DeleteAccepted
  <2>4. (ServicesWereAsked /\ CallsWereAsked /\ AdriftIsOlder /\ NoCallWhenDown)'
    BY <2>1, <2>2, <2>3 DEF Ownership, ServicesWereAsked, CallsWereAsked,
       AdriftIsOlder, NoCallWhenDown
  <2>5. RequestsAreNewer'
    BY <2>1, <2>2, <2>3 DEF Ownership, RequestsAreNewer, AskedEarlier
  <2>6. QED
    BY <2>4, <2>5 DEF Ownership
<1>4. CASE CreateReturn(call) \/ DeleteReturn(call)
  BY <1>4, OwnershipFrame DEF CreateReturn, DeleteReturn, CreatePodReturns,
     DeletePodReturns, GoesOn
<1>5. CASE CreatePanic(call) \/ DeletePanic(call)
  BY <1>5, SentCalls, ExitOwnership DEF CreatePanic, DeletePanic
<1>6. QED
  BY <1>2, <1>3, <1>4, <1>5 DEF CallStep

(* For every number of pods, versions and runs: what stands in the way of a  *)
(* creation and is the pod's own was asked for by an earlier run or for an   *)
(* earlier version.                                                          *)
THEOREM NoRunObstructsItself == Spec => []OwnServiceIsOlder
<1>1. Init => Ownership
  BY DEF Init, Ownership, ServicesWereAsked, CallsWereAsked, AdriftIsOlder,
         NoCallWhenDown, RequestsAreNewer
<1>2. TypeOK /\ StoreStaysEmpty /\ CallsAreApart /\ Creations /\ Ownership
        /\ [Next]_vars => Ownership'
  <2> SUFFICES ASSUME TypeOK, StoreStaysEmpty, CallsAreApart, Creations,
                      Ownership, [Next]_vars
               PROVE  Ownership'
    OBVIOUS
  <2>1. CASE Cluster
    BY <2>1, OwnershipFrame DEF Cluster, BindPod, EditPod, RequestDelete,
       ForceRemove, unchangedButCluster, providerVars, processVars, historyVars,
       GoesOn
  <2>2. CASE \E key \in Keys : Informer(key)
    BY <2>2, OwnershipFrame DEF Informer, ObserveAdd, ObserveUpdate,
       ObserveDelete, unchangedButInformer, providerVars, processVars,
       historyVars, GoesOn
  <2>3. CASE \/ \E uid \in deleteQ : DeleteFromApi(uid)
             \/ \E pod \in posted : WriteStatus(pod)
    BY <2>3, OwnershipFrame DEF DeleteFromApi, WriteStatus, providerVars,
       processVars, historyVars, GoesOn
  <2>4. CASE Tracker
    <3>1. CASE \E pod \in current : FetchPanic(pod)
      BY <3>1, SentCalls, ExitOwnership DEF FetchPanic
    <3>2. CASE Cleanup
      BY <3>2, OwnershipFrame DEF Cleanup, unchangedButTracker, processVars,
         historyVars, GoesOn
    <3>3. CASE ~Cleanup /\ ~\E pod \in current : FetchPanic(pod)
      BY <2>4, <3>3, OwnershipFrame DEF Tracker, StatusTimer, Visit,
         FetchPodStatus, Publish, EndPoll, CleanupTimer, ListActive,
         unchangedButTracker, providerVars, processVars, historyVars, GoesOn
    <3>4. QED
      BY <3>1, <3>2, <3>3
  <2>5. CASE Stop
    BY <2>5, SentCalls, ExitOwnership DEF Stop
  <2>6. CASE Start
    BY <2>6, OwnershipFrame DEF Start, historyVars, Begins
  <2>7. CASE UNCHANGED vars
    BY <2>7, OwnershipFrame DEF vars, providerVars, processVars, historyVars,
       GoesOn
  <2>8. CASE StayDown
    BY <2>7, <2>8 DEF StayDown
  <2>9. QED
    BY <2>1, <2>2, <2>3, <2>4, <2>5, <2>6, <2>7, <2>8, WorkerOwnership,
       CallStepOwnership, ServicesOwnership, ArrivalOwnership DEF Next
<1>3. Ownership => OwnServiceIsOlder
  BY DEF Ownership, RequestsAreNewer, AskedEarlier, OwnServiceIsOlder, Obstructs
<1>4. QED
  BY <1>1, <1>2, <1>3, TypeCorrect, StoreEmpty, OneCallAtATime,
     CreationsAreKnown, PTL DEF Spec
=============================================================================
