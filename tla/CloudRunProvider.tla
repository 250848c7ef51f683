--------------------------- MODULE CloudRunProvider ---------------------------
(***************************************************************************)
(* The Cloud Run provider (cloudrun.go), its client (cloudRunClient.go)    *)
(* and the Cloud Run services they work on.  The state is the provider's   *)
(* pod store, its client, the calls of CreatePod and DeletePod that have   *)
(* not returned, the requests on their way to Cloud Run that nobody waits  *)
(* for any more, and the services of the project; the actions are the      *)
(* steps of those calls between two round trips to Cloud Run.  The module  *)
(* has no behaviour of its own: CloudRunKubelet says when the library      *)
(* calls the provider.                                                     *)
(*                                                                         *)
(* A step whose name ends in Panics dereferences a nil pointer, which ends *)
(* the whole process: the module that extends this one says what is lost.  *)
(***************************************************************************)
EXTENDS PodStatus

CONSTANTS
  Suffixes,   \* the values of RandStringRunes(6)
  Prefix,     \* the part of a store key made of the namespace and the name
  Faults      \* what the environment does besides working: see FaultKinds

(* "rpc": a request to Cloud Run may fail; "credentials": the credentials *)
(* file may be missing or unreadable; "meddling": someone else deletes or *)
(* redeploys services; "incomplete": a service may be read without its      *)
(* template or its condition; "removal": someone removes terminating pods   *)
(* from the API server; "stop": the process may be told to exit. *)
FaultKinds ==
  {"rpc", "credentials", "meddling", "incomplete", "removal", "stop"}

ASSUME ProviderAssumption ==
  /\ Suffixes # {}
  /\ DOMAIN Prefix = Keys
  /\ Faults \subseteq FaultKinds

VARIABLES
  pods,       \* CloudRunProvider.pods: entries of the map
  client,     \* ClientManager.client is not nil
  calls,      \* calls of CreatePod and DeletePod under way
  adrift,     \* requests sent and given up: they may still arrive
  services    \* the services that exist in the project and region

providerVars == <<pods, client, calls, adrift, services>>

Entry == [key : {Prefix[k] : k \in Keys} \X Suffixes, pod : Pod]

(* A call keeps the version of its pod. *)
(* stage "rpc": the request is not answered yet; "wait": it was accepted *)
(* and the operation it started is being waited for. *)
Call == [op : {"create", "delete"}, stage : {"rpc", "wait"},
         pod : Version]

(* owner: the pod whose containers the template of the service was made of. *)
Service == [name : Names, state : ServiceStates, deleting : BOOLEAN,
            owner : Nat]

ProviderTypeOK ==
  /\ pods \subseteq Entry
  /\ client \in BOOLEAN
  /\ calls \subseteq Call
  /\ adrift \subseteq Call
  /\ services \subseteq Service

ServiceNames == {s.name : s \in services}

NameOf(call) == ServiceId(call.pod.key)

(* Every request goes through the client made once at start and may fail. *)
MayFail == ~client \/ "rpc" \in Faults

(* The requests that are on their way when the process ends. *)
Sent == {call \in calls : client /\ call.stage = "rpc"}

(* The same when the process ends, or goes on, because that of call failed: *)
(* it was answered, unless it was the connection that failed. *)
SentBut(call) == IF "rpc" \in Faults THEN Sent ELSE Sent \ {call}

-----------------------------------------------------------------------------
(* The pod store *)

(* A new random suffix is drawn each time a key is built. *)
buildKeyFromNames(key, suffix) == <<Prefix[key], suffix>>

GetPod(key, suffix) ==
  {e.pod : e \in {x \in pods : x.key = buildKeyFromNames(key, suffix)}}

GetPods == {e.pod : e \in pods}

ListActivePods == {pod.key : pod \in GetPods}

UpdatePod(pod, suffix) ==
  LET key == buildKeyFromNames(pod.key, suffix) IN
  pods' = {e \in pods : e.key # key} \cup {[key |-> key, pod |-> pod]}

-----------------------------------------------------------------------------
(* CreatePod *)

CreatePod(pod) ==
  calls' = calls \cup {[op |-> "create", stage |-> "rpc",
                      pod |-> VersionOf(pod)]}

(* Two nil pointers end a creation: that of the client made for this call,  *)
(* closed by the deferred Close when the credentials cannot be read, and    *)
(* that of the operation CreateService did not start, waited for although   *)
(* the error was seen and printed. *)
CreatePanics(call) ==
  /\ call \in calls
  /\ call.op = "create"
  /\ call.stage = "rpc"
  /\ \/ "credentials" \in Faults
     \/ MayFail
     \/ NameOf(call) \in ServiceNames

ServiceOf(call) ==
  [name |-> NameOf(call), state |-> "CONDITION_RECONCILING",
   deleting |-> FALSE, owner |-> call.pod.uid]

CreateAccepted(call) ==
  /\ call \in calls
  /\ call.op = "create"
  /\ call.stage = "rpc"
  /\ client
  /\ NameOf(call) \notin ServiceNames
  /\ services' = services \cup {ServiceOf(call)}
  /\ calls' = (calls \ {call}) \cup {[call EXCEPT !.stage = "wait"]}
  /\ UNCHANGED <<pods, client, adrift>>

(* The operation is over, or waiting for it fails: both ways CreatePod      *)
(* returns no error.  The status it fills in belongs to the caller's copy,  *)
(* and the pod is not put into the store. *)
CreatePodReturns(call) ==
  /\ call \in calls
  /\ call.op = "create"
  /\ call.stage = "wait"
  /\ \/ "rpc" \in Faults
     \/ \A s \in services : s.name = NameOf(call) =>
          s.state \notin {"CONDITION_RECONCILING", "CONDITION_PENDING"}
  /\ calls' = calls \ {call}
  /\ UNCHANGED <<pods, client, adrift, services>>

-----------------------------------------------------------------------------
(* DeletePod and CleanupPod *)

DeletePod(pod) ==
  calls' = calls \cup {[op |-> "delete", stage |-> "rpc",
                      pod |-> VersionOf(pod)]}

DeletePanics(call) ==
  /\ call \in calls
  /\ call.op = "delete"
  /\ call.stage = "rpc"
  /\ ~client

(* DeleteService takes the service down, once. *)
Deleting(name) ==
  {IF s.name = name THEN [s EXCEPT !.deleting = TRUE] ELSE s : s \in services}

DeleteAccepted(call) ==
  /\ call \in calls
  /\ call.op = "delete"
  /\ call.stage = "rpc"
  /\ client
  /\ NameOf(call) \in ServiceNames
  /\ services' = Deleting(NameOf(call))
  /\ calls' = (calls \ {call}) \cup {[call EXCEPT !.stage = "wait"]}
  /\ UNCHANGED <<pods, client, adrift>>

(* There is no such service, or the one that was accepted to go is gone. *)
Deleted(call) ==
  \A s \in services :
    s.name = NameOf(call) => call.stage = "wait" /\ ~s.deleting

(* Mutant: a request refused because there is no such service is waited for. *)
DeletePodReturnsOnceDeleted(call) ==
  /\ call \in calls
  /\ call.op = "delete"
  /\ call.stage = "wait"
  /\ Deleted(call)
  /\ calls' = calls \ {call}
  /\ UNCHANGED <<pods, client, adrift, services>>

(* The service is gone, or there was none, or a request fails: the error is *)
(* printed and DeletePod returns none.  Nothing is taken out of the store.  *)
(* A request whose connection failed may still arrive. *)
DeletePodReturns(call) ==
  /\ call \in calls
  /\ call.op = "delete"
  /\ client
  /\ "rpc" \in Faults \/ Deleted(call)
  /\ calls' = calls \ {call}
  /\ adrift' = adrift \cup ({call} \cap SentBut(call))
  /\ UNCHANGED <<pods, client, services>>

-----------------------------------------------------------------------------
(* GetPodStatus *)

(* Mutant: a missing service is asked for again instead of ending the process. *)
GetPodStatusRetries(key) == MayFail

(* GetService returns the service the pointer it was given points to, so a  *)
(* request that fails, for a missing service too, dereferences nil; so does *)
(* the status of a service that has no template or no condition yet. *)
GetPodStatusPanics(key) ==
  \/ MayFail
  \/ ServiceId(key) \notin ServiceNames
  \/ "incomplete" \in Faults

GetPodStatus(key) ==
  {[kind |-> "status", status |-> statusOfService(s.state)] :
     s \in {x \in services : client /\ x.name = ServiceId(key)}}

-----------------------------------------------------------------------------
(* Cloud Run *)

(* A request nobody waits for is taken like any other: a creation is refused *)
(* for a name that exists.  Nothing says when it arrives, nor that it does.  *)
(* Equal requests count as one. *)
Arrives(call) ==
  /\ call \in adrift
  /\ adrift' = adrift \ {call}
  /\ \/ call.op = "create" /\ NameOf(call) \in ServiceNames /\ UNCHANGED services
     \/ call.op = "create" /\ NameOf(call) \notin ServiceNames
                          /\ services' = services \cup {ServiceOf(call)}
     \/ call.op = "delete" /\ services' = Deleting(NameOf(call))
  /\ UNCHANGED <<pods, client, calls>>

(* A deployment comes to its end. *)
Settle(service, state) ==
  /\ service \in services
  /\ service.state \in {"CONDITION_RECONCILING", "CONDITION_PENDING"}
  /\ state \in {"CONDITION_SUCCEEDED", "CONDITION_FAILED"}
  /\ services' = (services \ {service}) \cup {[service EXCEPT !.state = state]}
  /\ UNCHANGED <<pods, client, calls, adrift>>

FinishDelete(service) ==
  /\ service \in services
  /\ service.deleting
  /\ services' = services \ {service}
  /\ UNCHANGED <<pods, client, calls, adrift>>

(* Someone else deletes a service, *)
DeletedElsewhere(service) ==
  /\ "meddling" \in Faults
  /\ service \in services
  /\ ~service.deleting
  /\ services' = Deleting(service.name)
  /\ UNCHANGED <<pods, client, calls, adrift>>

(* or deploys a new revision of it. *)
Redeployed(service) ==
  /\ "meddling" \in Faults
  /\ service \in services
  /\ ~service.deleting
  /\ service.state \in {"CONDITION_SUCCEEDED", "CONDITION_FAILED"}
  /\ services' = (services \ {service})
                   \cup {[service EXCEPT !.state = "CONDITION_RECONCILING"]}
  /\ UNCHANGED <<pods, client, calls, adrift>>
=============================================================================
