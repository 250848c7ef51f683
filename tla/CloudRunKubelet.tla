--------------------------- MODULE CloudRunKubelet ---------------------------
(***************************************************************************)
(* The virtual kubelet as it runs: the Cloud Run provider, its tracker,    *)
(* the virtual-kubelet library that calls both, the API server, and the    *)
(* process that a panic of any of them ends and Kubernetes restarts.       *)
(*                                                                         *)
(* The library and the API server are not part of the repository.  They    *)
(* are modelled from what the code in src/ uses them for: NodeConfig's     *)
(* PodController calls CreatePod, UpdatePod, DeletePod and GetPod from     *)
(* workers that handle one key at a time, the lister behind                *)
(* ProviderConfig.Pods is its informer's cache, and the callback given to  *)
(* NotifyPods is its queue of statuses to write.                           *)
(***************************************************************************)
EXTENDS TrackerLoop, CloudRunProvider

CONSTANTS
  MaxUid,   \* bound: pods bound to the node in a behaviour
  MaxGen,   \* bound: versions of the spec of a pod
  MaxRun    \* bound: times the process is started

ASSUME KubeletAssumption ==
  /\ MaxUid \in Nat
  /\ MaxGen \in Nat \ {0}
  /\ MaxRun \in Nat

VARIABLES
  api,      \* the pods bound to the node, as the API server has them
  nextUid,  \* identity of the next pod
  up,       \* the process is running
  run,      \* how many times it was started
  panic,    \* the call of the provider that ended it last, or "none"
  cache,    \* the pods of the informer's cache
  syncQ,    \* keys waiting to be synchronised with the provider
  used,     \* lastPodUsed: the versions the provider was last called with
  posted,   \* statuses given to the callback and not written yet
  deleteQ,  \* uids of the pods to be deleted from the API server
  asked,    \* history: versions a creation was begun for, by run
  ended     \* history: pods the library gave up: DeletePod began, or the
            \* API server was asked to delete them

clusterVars == <<api, nextUid>>
processVars == <<up, run, panic>>
libraryVars == <<cache, syncQ, used, posted, deleteQ>>
historyVars == <<asked, ended>>
vars == <<loopVars, providerVars, clusterVars, processVars, libraryVars,
          historyVars>>

Panics == {"none", "CreateService", "DeleteService", "GetService"}

TypeOK ==
  /\ LoopTypeOK
  /\ ProviderTypeOK
  /\ api \subseteq Pod
  /\ nextUid \in Nat
  /\ up \in BOOLEAN
  /\ run \in Nat
  /\ panic \in Panics
  /\ cache \subseteq Pod
  /\ syncQ \subseteq Keys
  /\ used \subseteq Version
  /\ posted \subseteq Pod
  /\ deleteQ \subseteq Nat
  /\ asked \subseteq [uid : Nat, gen : Nat, run : Nat]
  /\ ended \subseteq Nat

Init ==
  /\ LoopInit
  /\ pods = {} /\ client = FALSE /\ calls = {} /\ adrift = {} /\ services = {}
  /\ api = {} /\ nextUid = 1
  /\ up = FALSE /\ run = 0 /\ panic = "none"
  /\ cache = {} /\ syncQ = {} /\ used = {} /\ posted = {} /\ deleteQ = {}
  /\ asked = {} /\ ended = {}

-----------------------------------------------------------------------------
(* The cluster *)

unchangedButCluster ==
  UNCHANGED <<loopVars, providerVars, processVars, libraryVars, historyVars>>

BindPod(key) ==
  /\ getPodFromList(api, key) = {}
  /\ nextUid <= MaxUid
  /\ api' = api \cup {[key |-> key, uid |-> nextUid, gen |-> 1,
                       deleting |-> FALSE, status |-> NewStatus]}
  /\ nextUid' = nextUid + 1
  /\ unchangedButCluster

(* The metadata or the images of a pod change. *)
EditPod(pod) ==
  /\ pod \in api
  /\ pod.gen < MaxGen
  /\ api' = (api \ {pod}) \cup {[pod EXCEPT !.gen = @ + 1]}
  /\ UNCHANGED nextUid
  /\ unchangedButCluster

RequestDelete(pod) ==
  /\ pod \in api
  /\ ~pod.deleting
  /\ api' = (api \ {pod}) \cup {[pod EXCEPT !.deleting = TRUE]}
  /\ UNCHANGED nextUid
  /\ unchangedButCluster

(* Someone removes a terminating pod without waiting for the kubelet. *)
ForceRemove(pod) ==
  /\ "removal" \in Faults
  /\ pod \in api
  /\ pod.deleting
  /\ api' = api \ {pod}
  /\ UNCHANGED nextUid
  /\ unchangedButCluster

-----------------------------------------------------------------------------
(* The informer *)

unchangedButInformer ==
  UNCHANGED <<loopVars, providerVars, clusterVars, processVars, posted,
              deleteQ, historyVars>>

ObserveAdd(pod) ==
  /\ up
  /\ pod \in api
  /\ getPodFromList(cache, pod.key) = {}
  /\ cache' = cache \cup {pod}
  /\ syncQ' = syncQ \cup {pod.key}
  /\ UNCHANGED used
  /\ unchangedButInformer

(* A pod whose status alone changed is not queued. *)
ObserveUpdate(old, new) ==
  /\ up
  /\ old \in cache
  /\ new \in api
  /\ old.uid = new.uid
  /\ old # new
  /\ cache' = (cache \ {old}) \cup {new}
  /\ syncQ' = IF VersionOf(old) = VersionOf(new) THEN syncQ
                                                 ELSE syncQ \cup {new.key}
  /\ UNCHANGED used
  /\ unchangedButInformer

ObserveDelete(pod) ==
  /\ up
  /\ pod \in cache
  /\ \A p \in api : p.uid # pod.uid
  /\ cache' = cache \ {pod}
  /\ syncQ' = syncQ \cup {pod.key}
  /\ used' = {v \in used : v.key # pod.key}
  /\ unchangedButInformer

-----------------------------------------------------------------------------
(* The workers of the pod controller *)

(* Mutant: two workers may have the same key. *)
DequeueShared(key) ==
  /\ up
  /\ key \in syncQ
  /\ syncQ' = syncQ \ {key}

(* A worker takes a key; no other worker has it. *)
Dequeue(key) ==
  /\ up
  /\ key \in syncQ
  /\ \A call \in calls : call.pod.key # key
  /\ syncQ' = syncQ \ {key}

unchangedButWorker ==
  UNCHANGED <<loopVars, client, adrift, services, clusterVars, processVars,
              cache, posted>>

(* The pod is not in the cache any more: what the provider still knows of it *)
(* is deleted. *)
SyncGone(key) ==
  /\ Dequeue(key)
  /\ getPodFromList(cache, key) = {}
  /\ \E suffix \in Suffixes :
       calls' = calls \cup {[op |-> "delete", stage |-> "rpc",
                             pod |-> VersionOf(pod)] :
                              pod \in GetPod(key, suffix)}
  /\ UNCHANGED <<pods, used, deleteQ, historyVars>>
  /\ unchangedButWorker

(* A terminating pod none of whose containers is reported running is deleted *)
(* from the API server without DeletePod.  The provider fills in no container *)
(* state at all, so whether DeletePod is called is left open here. *)
SyncForceDelete(pod) ==
  /\ Dequeue(pod.key)
  /\ pod \in cache
  /\ pod.deleting
  /\ deleteQ' = deleteQ \cup {pod.uid}
  /\ ended' = ended \cup {pod.uid}
  /\ UNCHANGED <<pods, calls, used, asked>>
  /\ unchangedButWorker

SyncDelete(pod) ==
  /\ Dequeue(pod.key)
  /\ pod \in cache
  /\ pod.deleting
  /\ VersionOf(pod) \notin used
  /\ DeletePod(pod)
  /\ ended' = ended \cup {pod.uid}
  /\ UNCHANGED <<pods, used, deleteQ, asked>>
  /\ unchangedButWorker

(* The provider was already called with this version, or the pod has *)
(* finished. *)
SyncNothing(pod) ==
  /\ Dequeue(pod.key)
  /\ pod \in cache
  /\ VersionOf(pod) \in used \/ (~pod.deleting /\ Finished(pod))
  /\ UNCHANGED <<pods, calls, used, deleteQ, historyVars>>
  /\ unchangedButWorker

(* The provider was called with a version and returned no error; remembered *)
(* only while the pod is known. *)
NowUsed(version) ==
  IF \E p \in cache : p.uid = version.uid
    THEN {v \in used : v.key # version.key} \cup {version}
    ELSE used

(* A pod GetPod finds is updated, any other is created. *)
SyncPod(pod) ==
  /\ Dequeue(pod.key)
  /\ pod \in cache
  /\ ~pod.deleting
  /\ ~Finished(pod)
  /\ VersionOf(pod) \notin used
  /\ \E asking, storing \in Suffixes :
       IF GetPod(pod.key, asking) # {}
         THEN /\ UpdatePod(pod, storing)
              /\ used' = NowUsed(VersionOf(pod))
              /\ UNCHANGED <<calls, asked>>
         ELSE /\ CreatePod(pod)
              /\ asked' = asked \cup {[uid |-> pod.uid, gen |-> pod.gen,
                                       run |-> run]}
              /\ UNCHANGED <<pods, used>>
  /\ UNCHANGED <<deleteQ, ended>>
  /\ unchangedButWorker

unchangedButCall ==
  UNCHANGED <<loopVars, clusterVars, processVars, cache, posted, historyVars>>

CreateStep(call) ==
  /\ CreateAccepted(call)
  /\ UNCHANGED <<syncQ, used, deleteQ>>
  /\ unchangedButCall

(* Mutant: CreatePod returns the error of the operation and is retried. *)
CreateReturnsError(call) ==
  /\ CreatePodReturns(call)
  /\ syncQ' = syncQ \cup {call.pod.key}
  /\ UNCHANGED <<used, deleteQ>>
  /\ unchangedButCall

CreateReturn(call) ==
  /\ CreatePodReturns(call)
  /\ used' = NowUsed(call.pod)
  /\ UNCHANGED <<syncQ, deleteQ>>
  /\ unchangedButCall

DeleteStep(call) ==
  /\ DeleteAccepted(call)
  /\ UNCHANGED <<syncQ, used, deleteQ>>
  /\ unchangedButCall

(* A pod the provider deleted is deleted from the API server after its grace *)
(* period. *)
DeleteReturn(call) ==
  /\ DeletePodReturns(call)
  /\ used' = NowUsed(call.pod)
  /\ deleteQ' = deleteQ \cup {call.pod.uid}
  /\ UNCHANGED syncQ
  /\ unchangedButCall

(* Only the pod meant is deleted, not a later one with its name. *)
DeleteFromApi(uid) ==
  /\ up
  /\ uid \in deleteQ
  /\ deleteQ' = deleteQ \ {uid}
  /\ api' = {p \in api : p.uid # uid}
  /\ UNCHANGED <<loopVars, providerVars, nextUid, processVars, cache, syncQ,
                 used, posted, historyVars>>

(* The status is written unless the cache has no such pod or a finished one; *)
(* the API server refuses it for another pod of that name. *)
WriteStatus(pod) ==
  /\ up
  /\ pod \in posted
  /\ posted' = posted \ {pod}
  /\ api' = IF \E p \in cache : p.key = pod.key /\ ~Finished(p)
              THEN {IF p.uid = pod.uid THEN [p EXCEPT !.status = pod.status]
                                       ELSE p : p \in api}
              ELSE api
  /\ UNCHANGED <<loopVars, providerVars, nextUid, processVars, cache, syncQ,
                 used, deleteQ, historyVars>>

-----------------------------------------------------------------------------
(* The tracker *)

unchangedButTracker ==
  UNCHANGED <<clusterVars, processVars, cache, syncQ, used, deleteQ,
              historyVars>>

StatusTimer ==
  /\ up
  /\ StatusTimerFires(cache)
  /\ UNCHANGED <<providerVars, posted>>
  /\ unchangedButTracker

(* FetchPodEvents of this provider has no events. *)
Visit(pod) ==
  /\ up
  /\ SkipPod(pod) \/ VisitPod(pod)
  /\ UNCHANGED <<providerVars, posted>>
  /\ unchangedButTracker

FetchPodStatus(pod) ==
  /\ up
  /\ \E answer \in GetPodStatus(pod.key) : FetchReturns(pod, answer)
  /\ UNCHANGED <<providerVars, posted>>
  /\ unchangedButTracker

Publish(pod) ==
  /\ up
  /\ PublishPod(pod)
  /\ posted' = {p \in posted : p.key # pod.key} \cup {pod}
  /\ UNCHANGED providerVars
  /\ unchangedButTracker

EndPoll ==
  /\ up
  /\ PollDone
  /\ UNCHANGED <<providerVars, posted>>
  /\ unchangedButTracker

CleanupTimer ==
  /\ up
  /\ CleanupTimerFires(cache)
  /\ UNCHANGED <<providerVars, posted>>
  /\ unchangedButTracker

ListActive ==
  /\ up
  /\ ActivePodsListed(ListActivePods)
  /\ UNCHANGED <<providerVars, posted>>
  /\ unchangedButTracker

(* CleanupPod deletes the service in the goroutine itself; DeleteService is  *)
(* one step here, its operation over when it returns. *)
Cleanup ==
  /\ up
  /\ IF dangling = {}
       THEN CleanupDone /\ UNCHANGED services
       ELSE \E key \in dangling :
              /\ CleanupOne(key)
              /\ services' = {s \in services : s.name # ServiceId(key)}
  /\ UNCHANGED <<pods, client, calls, adrift, posted>>
  /\ unchangedButTracker

-----------------------------------------------------------------------------
(* The process *)

(* Everything in memory is gone; the services, the cluster and the requests *)
(* that were sent are not. *)
Exit(cause, sent) ==
  /\ up
  /\ up' = FALSE
  /\ panic' = cause
  /\ pc' = "select" /\ todo' = {} /\ current' = {} /\ dangling' = {}
  /\ pods' = {} /\ client' = FALSE /\ calls' = {}
  /\ adrift' = adrift \cup sent
  /\ cache' = {} /\ syncQ' = {} /\ used' = {} /\ posted' = {} /\ deleteQ' = {}
  /\ UNCHANGED <<services, clusterVars, run, historyVars>>

CreatePanic(call) ==
  CreatePanics(call) /\ Exit("CreateService", SentBut(call))

DeletePanic(call) ==
  DeletePanics(call) /\ Exit("DeleteService", SentBut(call))

FetchPanic(pod) ==
  /\ pc = "fetch"
  /\ pod \in current
  /\ GetPodStatusPanics(pod.key)
  /\ Exit("GetService", Sent)

Stop == "stop" \in Faults /\ Exit("none", Sent)

(* The deployment starts the process again.  The client is nil if the *)
(* credentials cannot be read; deleteDanglingPods of the library finds no pod *)
(* in a new provider. *)
Start ==
  /\ ~up
  /\ run < MaxRun
  /\ up' = TRUE
  /\ run' = run + 1
  /\ panic' = "none"
  /\ client' \in (IF "credentials" \in Faults THEN BOOLEAN ELSE {TRUE})
  /\ UNCHANGED <<loopVars, pods, calls, adrift, services, clusterVars,
                 libraryVars, historyVars>>

(* Bound: the process is not started again. *)
StayDown == ~up /\ run = MaxRun /\ UNCHANGED vars

-----------------------------------------------------------------------------
unchangedButServices ==
  UNCHANGED <<loopVars, clusterVars, processVars, libraryVars, historyVars>>

Settles(service) ==
  /\ \E state \in ServiceStates : Settle(service, state)
  /\ unchangedButServices

ArrivesLate(call) == Arrives(call) /\ unchangedButServices

FinishesDelete(service) == FinishDelete(service) /\ unchangedButServices

Meddle(service) ==
  /\ DeletedElsewhere(service) \/ Redeployed(service)
  /\ unchangedButServices

Cluster ==
  \/ \E key \in Keys : BindPod(key)
  \/ \E pod \in api : EditPod(pod) \/ RequestDelete(pod) \/ ForceRemove(pod)

Informer(key) ==
  \/ \E pod \in getPodFromList(api, key) : ObserveAdd(pod)
  \/ \E old \in getPodFromList(cache, key), new \in getPodFromList(api, key) :
       ObserveUpdate(old, new)
  \/ \E pod \in getPodFromList(cache, key) : ObserveDelete(pod)

Worker ==
  \/ \E key \in syncQ : SyncGone(key)
  \/ \E pod \in cache : \/ SyncForceDelete(pod)
                        \/ SyncDelete(pod)
                        \/ SyncNothing(pod)
                        \/ SyncPod(pod)

CallStep(call) ==
  \/ CreateStep(call)
  \/ CreateReturn(call)
  \/ DeleteStep(call)
  \/ DeleteReturn(call)
  \/ CreatePanic(call)
  \/ DeletePanic(call)

Tracker ==
  \/ StatusTimer
  \/ \E pod \in todo : Visit(pod)
  \/ \E pod \in current : FetchPodStatus(pod) \/ FetchPanic(pod) \/ Publish(pod)
  \/ EndPoll
  \/ CleanupTimer
  \/ ListActive
  \/ Cleanup

Next ==
  \/ Cluster
  \/ \E key \in Keys : Informer(key)
  \/ Worker
  \/ \E call \in calls : CallStep(call)
  \/ \E uid \in deleteQ : DeleteFromApi(uid)
  \/ \E pod \in posted : WriteStatus(pod)
  \/ Tracker
  \/ \E service \in services :
       Settles(service) \/ FinishesDelete(service) \/ Meddle(service)
  \/ \E call \in adrift : ArrivesLate(call)
  \/ Stop
  \/ Start
  \/ StayDown

-----------------------------------------------------------------------------
(* Every goroutine of a running process gets to run, the queues are served, *)
(* select starves neither timer, an operation Cloud Run accepted ends, and  *)
(* the deployment restarts the process.  Nothing is assumed of requests     *)
(* that are adrift. *)
Fairness ==
  /\ \A key \in Keys :
       /\ WF_vars(Informer(key))
       /\ WF_vars(key \in syncQ /\ SyncGone(key))
       /\ WF_vars(\E pod \in getPodFromList(cache, key) :
                    \/ SyncForceDelete(pod)
                    \/ SyncDelete(pod)
                    \/ SyncNothing(pod)
                    \/ SyncPod(pod))
       /\ SF_vars(\E call \in calls : call.pod.key = key /\ CallStep(call))
       /\ WF_vars(\E pod \in posted : pod.key = key /\ WriteStatus(pod))
  /\ WF_vars(\E uid \in deleteQ : DeleteFromApi(uid))
  /\ WF_vars(Tracker)
  /\ SF_vars(StatusTimer)
  /\ SF_vars(CleanupTimer)
  /\ \A name \in Names :
       /\ WF_vars(\E service \in services :
                    service.name = name /\ Settles(service))
       /\ WF_vars(\E service \in services :
                    service.name = name /\ FinishesDelete(service))
  /\ WF_vars(Start)

Spec == Init /\ [][Next]_vars /\ Fairness

-----------------------------------------------------------------------------
(* Properties *)

(* Once the library has given a pod up (DeletePod began, or the pod was put  *)
(* on the way out of the API server) no creation for it is under way, in     *)
(* this run of the process or in a later one, however old the cache is: a    *)
(* process does not ask for a service for a pod that was deleted.            *)
NoCreateAfterDelete ==
  \A call \in calls : call.op = "create" => call.pod.uid \notin ended

Obstructs(service, call) ==
  /\ call.op = "create" /\ call.stage = "rpc"
  /\ service.name = NameOf(call) /\ service.owner = call.pod.uid

(* A creation Cloud Run refuses, which ends the process, is not refused for  *)
(* what the same run made of the same version: a service of the pod's own    *)
(* that stands in the way was asked for by an earlier run or for an earlier  *)
(* version of the pod.  Without a restart, an edit or a namesake no pod      *)
(* brings the process down by being created.                                 *)
OwnServiceIsOlder ==
  \A call \in calls, s \in services : Obstructs(s, call) =>
    \E a \in asked :
      a.uid = s.owner /\ (a.run < run \/ a.gen < call.pod.gen)

Begun == {call \in calls' \ calls : call.op = "create" /\ call.stage = "rpc"}

(* A run of the process begins at most one creation for a version of a pod,  *)
(* although creations are not stored and GetPod never finds one: a second    *)
(* request would be refused and end the process.                             *)
CreateOncePerVersion ==
  [][\A call \in Begun :
       [uid |-> call.pod.uid, gen |-> call.pod.gen, run |-> run] \notin asked]_vars

(* The invariant that carries it: what is remembered of a version the run    *)
(* began to create.  While the cache shows that version its creation is      *)
(* under way or it is the one used last, no call for another pod of its key  *)
(* is under way, and the cache has the pod until the cluster has lost it.    *)
AskedNow == {a \in asked : a.run = run}

AskedBefore == \A a \in asked : a.run <= run /\ a.uid < nextUid

(* Deletions are begun for terminating pods, creations for the others. *)
CallFitsPod == \A call \in calls : call.op = "delete" <=> call.pod.deleting

CacheIsOlder == \A p \in cache, q \in api : p.uid = q.uid => p.gen <= q.gen

CallIsOlder ==
  /\ \A call \in calls, p \in cache : call.pod.uid = p.uid =>
       /\ call.pod.gen <= p.gen
       /\ call.pod.deleting => p.deleting
  /\ \A call \in calls, q \in api :
       call.pod.uid = q.uid => \E p \in cache : p.uid = q.uid

(* A version the cache still shows was asked for: it is used or created. *)
AskedIsShown ==
  \A a \in AskedNow, p \in cache : a.uid = p.uid =>
    /\ a.gen <= p.gen
    /\ \A call \in calls : call.pod.key = p.key => call.pod.uid = p.uid
    /\ a.gen = p.gen /\ ~p.deleting =>
         \/ VersionOf(p) \in used
         \/ \E call \in calls : call.op = "create" /\ call.pod = VersionOf(p)

AskedIsOlder ==
  /\ \A a \in AskedNow, call \in calls :
       call.op = "create" /\ call.pod.uid = a.uid => a.gen <= call.pod.gen
  /\ up => \A a \in AskedNow, q \in api :
             q.uid = a.uid => \E p \in cache : p.uid = q.uid

Creations ==
  /\ AskedBefore
  /\ CallFitsPod
  /\ CacheIsOlder
  /\ CallIsOlder
  /\ AskedIsShown
  /\ AskedIsOlder

(* A pod to be deleted does not stay in the API server for ever while the    *)
(* process runs: neither a lost wakeup of a worker, nor DeletePod waiting    *)
(* without a deadline, nor the tracker's writes keep it there.               *)
DeletionCompletes ==
  \A uid \in 1..MaxUid :
    ~<>[](up /\ \E pod \in api : pod.uid = uid /\ pod.deleting)

(* A pod that should run does not stay without a service for ever while the  *)
(* process runs.                                                             *)
Unserved(pod) ==
  ~pod.deleting /\ ~Finished(pod) /\ ServiceId(pod.key) \notin ServiceNames

PodsAreServed ==
  \A uid \in 1..MaxUid :
    ~<>[](up /\ \E pod \in api : pod.uid = uid /\ Unserved(pod))

(* The status of a pod that can still change does not differ for ever from   *)
(* that of a service which stays as it is, while the process runs.           *)
StatusConverges ==
  \A key \in Keys, state \in ServiceStates :
    ~<>[](/\ up
          /\ \E s \in services : s.name = ServiceId(key) /\ s.state = state
          /\ \E pod \in getPodFromList(api, key) :
               /\ ~pod.deleting /\ ~Finished(pod)
               /\ pod.status.reason # "ProviderFailed"
               /\ pod.status # statusOfService(state))

-----------------------------------------------------------------------------
(* The abstract specification *)

Lifecycle == INSTANCE PodLifecycle WITH
  Uids     <- 1..MaxUid,
  unborn   <- nextUid..MaxUid,
  bound    <- {pod.uid : pod \in {p \in api : ~p.deleting}},
  leaving  <- {pod.uid : pod \in {p \in api : p.deleting}},
  creating <- {call.pod.uid : call \in {c \in calls : c.op = "create"}},
  deleting <- {call.pod.uid : call \in {c \in calls : c.op = "delete"}},
  givenUp  <- ended,
  adrift   <- {call.pod.uid : call \in {c \in adrift : c.op = "create"}},
  served   <- {service.owner : service \in services}

(* Whatever the queues, old caches, panics and restarts do, each step is one *)
(* of the life of a pod or none that shows: one call of the library at a     *)
(* time, services from creations under way or from requests of a process     *)
(* that is gone only, no creation after the pod was given up, and no pod out *)
(* of the API server that was not asked to go.                               *)
ImplementsLifecycle == Lifecycle!Spec

-----------------------------------------------------------------------------
(* What the documentation of the code says and the code does not do *)

(* GetPodStatus "returns nil if a pod by that name is not found": asking for *)
(* a pod that has no service does not end the process.                       *)
MissingServiceIsNotFatal == panic # "GetService"

(* "GetPodStatus returns the status of a pod by name": the status reported    *)
(* for a bound pod is that of the service made for it, not of one left       *)
(* behind by an earlier pod of its name or made for its namesake in another  *)
(* namespace.                                                                *)
StatusIsOwn ==
  [][\A pod \in current :
       FetchPodStatus(pod) /\ (\E p \in api : p.uid = pod.uid) =>
       \E s \in services : s.name = ServiceId(pod.key) /\ s.owner = pod.uid]_vars

(* UpdatePod "accepts a Pod definition and updates its reference": a pod     *)
(* that was created by this run is not created a second time when its        *)
(* definition changes.                                                       *)
EditsAreNotCreations ==
  [][\A call \in Begun : ~\E a \in asked : a.uid = call.pod.uid /\ a.run = run]_vars

(* The cleanup removes what dangles: a service none of whose pods is in the  *)
(* cluster any more does not stay for ever while the process runs.           *)
DanglingServicesAreCleaned ==
  \A name \in Names :
    ~<>[](/\ up
          /\ name \in ServiceNames
          /\ \A pod \in api : ServiceId(pod.key) # name)
=============================================================================
