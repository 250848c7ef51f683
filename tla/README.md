# vk-cloud-run in TLA+

A model of the virtual kubelet that runs pods as Google Cloud Run services
(`src/src`): TLA+ modules for its parts, TLC configurations that check them on
small instances, and TLAPS proofs of what matters most for every instance.

Paths below are relative to `src/src/`: `cloudrun.go`, `cloudRunClient.go` and
`podsTracker.go` are in `internal/provider/cloudrun/`, `root.go`, `opts.go`,
`node.go`, `flag.go` and `tracing.go` in `internal/commands/root/`.

## The system

One process. `main` reads the options and runs the root command, which checks
them, makes a node with the virtual-kubelet library (v1.10.0, `go.mod`) and
registers the Cloud Run provider in the provider store from inside an option of
that node. The library watches the pods bound to the node and calls the provider
from workers that handle one pod key at a time; the provider starts the pods
tracker, a goroutine that polls the status of every pod and gives what it finds
back to the library through a callback. The provider works on Cloud Run
services through a client. A deployment restarts the process when it ends.

| Part | State | Operations | Interacts with |
|---|---|---|---|
| Pods tracker (`podsTracker.go`) | two timers, the copies of the current loop; `lastEventCheck`, which nothing moves | `StartTracking`, `updatePodsLoop`, `processPodUpdates`, `cleanupDanglingPods`, `UpdatePodStatus` | reads the informer's cache, calls the handler (the provider), calls `updateCb` (the library) |
| Cloud Run provider (`cloudrun.go`) | the map `pods`, the client, the tracker | `CreatePod`, `UpdatePod`, `DeletePod`, `GetPod`, `GetPods`, `GetPodStatus`, `NotifyPods`, the four methods of the tracker's handler | called by the library's workers and by the tracker; calls the client |
| Cloud Run client (`cloudRunClient.go`) | the gRPC client, nil if the credentials cannot be read | `Initialize`, `CreateService`, `DeleteService`, `GetService`, `ListPods`, `GetContainerLogs` | requests to Cloud Run, long-running operations waited for without a deadline |
| Library, API server, Cloud Run (external) | informer cache, queues, what the provider was last called with, statuses to write; pods; services | | modelled from how the code uses them |
| Root command (`root.go`, `node.go`, `http.go`, `main.go`) | the context, the node's goroutine, the error to return | checks, `NewNode`, `newProvider`, `setupTracing`, `WaitReady`, shutdown | the store, the library, the signal goroutine |
| Provider store (`internal/provider/store.go`) | the map of init functions, a mutex | `Register`, `Get`, `List`, `Exists` | root command, providers command |
| Options and flags (`opts.go`, `flag.go`) | `Opts` | `SetDefaultOpts`, `installFlags`, `mapVar.Set` | environment, command line |
| Tracing (`tracing*.go`) | exporters, sampler | `setupTracing`, `setupZpages` | root command |
| Providers and version commands | none | print | the store |
| Node configuration (`cloudrun.go` 118-201, 426-529) | the node object | `loadConfig`, `ConfigureNode` | root command, a file |
| Statistics, metrics (`cloudrun.go` 532-734) | none | random numbers | library |
| Mock provider (`internal/provider/mock`) | a map of pods | as the provider | nothing registers it |

### What is hard, and what makes each part correct

* **Tracker.** It works on copies that are old while the cluster and the
  provider go on. It must fail a pod only for what happened to that pod
  (`FailedWasLost`), report a pod that is gone although requests fail
  (`LossIsReported`), come back to pods that dangle (`DanglingIsCleaned`),
  delete nothing that is bound (`CleanupSparesBoundPods`) and end with its
  context (`StopsWhenCancelled`).
* **Provider, client, library, restarts.** Every request that fails is either
  swallowed or dereferences nil and ends the process; nothing survives in
  memory; the library's cache and queues are behind the cluster, and what a process
  that died had asked for may still arrive. No service may
  be made for a pod that was given up (`NoCreateAfterDelete`), none twice for
  the same version (`CreateOncePerVersion`), none is refused for a service the
  same run made of the same version (`OwnServiceIsOlder`), a pod is worked on by
  one call at a time and has one life (`ImplementsLifecycle`), a deleted pod has
  to leave the API server (`DeletionCompletes`), a pod has to get a service
  (`PodsAreServed`) and its status (`StatusConverges`, `StatusIsOwn`).
* **Startup and shutdown.** A dozen steps may fail, and a signal, the end of
  the node and the startup timeout race (`NodeEndsFirst`, `OnlyToldToStop`,
  `StopCompletes`, `StartupEnds`). What the node
  announces passes through defaults, environment, flags and a file, some of it
  parsed twice (`NodeIsConfigured`, `PortIsNotWrapped`, `TaintedUnlessTold`,
  `ConfigurationDoesNotPanic`).
* **Translation.** Limits lose precision, and the statuses of containers are
  told apart by their order alone (`CpuIsCovered`, `MemoryIsWithinLimit`,
  `StatusesFitContainers`).

The full list, each at its line, is `hazards` in `PROJECT.json`.

## The modules

```
PodStatus            pods, statuses, and the pure functions on them
 +- PodStatusProofs  what those functions return
 +- TrackerLoop      the steps of the tracker's goroutine
 |   +- PodsTracker      ... against any handler                 (MCPodsTracker)
 |   |    +- PodsTrackerProofs
 |   +- CloudRunKubelet  ... against this provider, with         (MCCloudRunKubelet)
 |        |              library, cluster, process and restarts
 |        |  ==implements==> PodLifecycle, the life of a pod
 |        |                 +- PodLifecycleProofs
 |        +- CloudRunKubeletProofs
 |             +- CloudRunKubeletRefinement
 +- CloudRunProvider the provider, its client and the services;
                     a part of CloudRunKubelet
Options              defaults, environment, flags, taint, exporters
NodeConfiguration    the provider's file and the node object
 +- RootCommand      both, from main to the exit                 (MCRootCommand)
     +- RootCommandProofs
ServiceTemplate      pod to template to container statuses       (MCServiceTemplate)
 +- ServiceTemplateProofs
```

**PodStatus.** A pod keeps its key (namespace and name), the identity of its
incarnation (`uid`), the version of its spec (`gen`), whether a deletion was
requested, and a status of four fields. `getPodPhaseFromCloudRunState`,
`getPodConditionsFromCloudRunState`, `shouldSkipPodStatusUpdate`,
`processPodUpdates` and `getPodFromList` are the functions of that name.
`ServiceId` is the name of a pod's service, which is the pod's name alone. A
function that returns a pod or nil is a set of at most one pod.

**TrackerLoop.** `pc` says where the goroutine is, `todo` holds the copies of
the list the current loop has not visited, `current` the pod it is working on
(at most one), `dangling` what is to be cleaned up. A step ends where the
goroutine calls something that takes time or is shared: the lister, the
handler, the callback. The two timers are not modelled as clocks: either may
fire whenever the goroutine is in its select.

**PodsTracker.** The loop with the most general handler: it hosts some keys,
loses one at any moment, answers with any of `HostStatuses`, says nil or
NotFound for a key it does not host, and fails for any call in `Failures`. It
delivers no events, as the only handler of the program delivers none. The lister
reads the memory of the informer and never fails. `UpdatePodStatus` may be
called by the handler from any goroutine; nothing in this program does, and it
is two steps, as the copy it changes is posted after others may have posted. The
cluster binds up to `MaxUid` incarnations, deletes and removes them, and writes
posted statuses as the library does.

**CloudRunProvider.** `pods` is the map, `client` whether the client is not nil,
`calls` the calls of `CreatePod` and `DeletePod` that have not returned (at
stage `rpc` the request is not answered, at `wait` the operation is waited for),
`adrift` the requests nobody waits for any more (`Sent`: those under way when
the process ends; `SentBut`: the one whose connection failed among them or not),
which Cloud Run may take or refuse at any later time, or never (`Arrives`; equal
ones count as one), `services` what exists in the project. The steps whose names
end in `Panics` are where the code dereferences nil; with the fault `incomplete`
a service may be read without its template or condition, which `GetPodStatus`
dereferences too. It has no behaviour of its own.

**CloudRunKubelet.** Adds the API server's pods (`api`), the informer's cache,
the queue of keys, `used` (what the provider was last called with and returned
no error for), the statuses to write, the uids to delete, and the process:
`Exit` loses all that is in memory, whichever goroutine panicked, and leaves
adrift the requests that were sent (`ArrivesLate` is their arrival); `Start` is
the restart. `asked` and `ended` are history variables. What the library does is
modelled from the way `NodeConfig`, `PodController` and `NotifyPods` are used:
keys are handled one at a time; a key that is not in the cache leads to
`GetPod` and a deletion of what it finds; a terminating pod is deleted from the
API server, with `DeletePod` or without (the library decides by container
states, which this provider does not fill in; both are allowed); a version the
provider was called with last is skipped; a pod `GetPod` finds is updated and
any other created; a status is refused for another incarnation and not written
for a finished pod; deletions go by uid.

**PodLifecycle.** The abstract specification: a pod is bound once, asked to go,
and gone only after that; a creation or a deletion is under way, one at a time
for a pod; a service comes from a creation under way, or from one that was under
way when its process ended (`adrift`); a pod that is leaving or gone may be given
up, and no creation begins for it after that. `Lifecycle` in
CloudRunKubelet is the instance: the identities of pods are the uids, `bound` and
`leaving` are read off `api`, `creating` and `deleting` off `calls`, `adrift` are
the pods of the creations adrift, `givenUp` is `ended`, `served` are the owners
of services. The cache, the queues, the tracker and the starts of the process map
to stutters. The proof that every step of the detailed specification is one of
these rests on `Incarnations` and `CallsAreApart` of `CloudRunKubeletProofs`.

**Options.** `Defaults` and `SetDefaultOpts` fill in what is empty, `ParseFlags`
overrides it; an option nothing decides on is left out. `env` is a function of
the variables that are set: `getEnv` tells a variable that is set to nothing from
one that is not, `Getenv` does not. `Atoi` is the conversion of the numerals the
instance uses. `int32` wraps at `maxInt32`, a bound of the instance.

**NodeConfiguration.** A file is unreadable, or has entries for nodes.
`Quantities` are the strings that parse. `loadConfig` is a set that is empty when
there is an error; `capacityPanics` is what `MustParse` does.

**RootCommand.** `choice` is the command line, the environment and the files,
chosen at the start from `Choices`; `opts` the options; `pc` where the command
is; `registered` the names in the provider store; `spec` the node object the
options of `NewNode` and then `ConfigureNode` fill in; `node` and `nodeErr` the
library's node, which may start, fail, stop when its context is done, or panic
at any moment; `told` that a signal came; `cancelled` that the context of
`runRootCommand` is done; `exit` how the process ended. `Defers` is a return
after the node was run, which cancels the context and waits for the node.

**ServiceTemplate.** The containers of a pod become those of a template, one
iteration of the loop a step, and the template becomes container statuses, as
often as the tracker asks. A CPU limit is in thousandths of a core, a memory
limit in bytes, 0 for one that is not set. CloudRunKubelet leaves these contents
out: none of its decisions depends on them.

## The runs

Each passing run is complete (no state constraint); the bounds are the
constants of the `.cfg`.

| Run | Shows | Bounds |
|---|---|---|
| `tracker_safety` | `FailedWasLost` | one key, two incarnations, so that a copy of the first is published while the second is bound; status requests that fail; `UpdatePodStatus` |
| `tracker_liveness` | `LossIsReported`, `DanglingIsCleaned`, `StopsWhenCancelled` | one key, two incarnations; every call of the handler may fail |
| `tracker_race` | violation of `CleanupSparesBoundPods` | one pod |
| `kubelet_safety` | `CreateOncePerVersion`, `Creations`, `OwnServiceIsOlder` | all faults but other users of the project and incomplete services; two versions of a pod, two runs of the process |
| `kubelet_rebind` | `ImplementsLifecycle`, `NoCreateAfterDelete` | two incarnations of a name, forced removal, incomplete services, two runs |
| `kubelet_liveness` | `DeletionCompletes`, `PodsAreServed`, `StatusConverges` | one pod, services deleted and redeployed elsewhere, two runs |
| `kubelet_missing`, `kubelet_status`, `kubelet_edit`, `kubelet_dangling` | violations, see below | the smallest instance that has them, no faults |
| `root_command` | `NodeEndsFirst`, `OnlyToldToStop`, `ConfigurationDoesNotPanic`, `NodeIsConfigured`, `PortIsNotWrapped`, `TaintedUnlessTold`, `StopCompletes`, `StartupEnds` | every check failing alone and with others, each way of naming the node, the port and the taint: 345 command lines, environments and files; `maxInt32` is 20000 |
| `service_template` | `CpuIsCovered`, `MemoryIsWithinLimit`, `StatusesFitContainers` | pods of one or two containers; limits that are missing, whole, and just above and below a core or a Mi |

The runs of PodsTracker, CloudRunKubelet and RootCommand that come first check
the type invariant `TypeOK` too.

Two incarnations and two runs are enough for what the safety properties
forbid: they relate a call or a copy to one earlier incarnation, or to one
earlier run. The proofs do without the bounds. `MaxRun` also bounds liveness:
once the last run has ended nothing more is asked of the process, which is why
those properties speak of the process being up for ever.

Two namespaces are in no run: with a second key the states of CloudRunKubelet
grow beyond what a run can finish. The proofs hold for every set of namespaces
and names; `kubelet_status` is about one name bound twice, and a namesake in
another namespace fares no better, as `ServiceId` drops the namespace.

`CHECK_DEADLOCK` is left on everywhere; `Stopped`, `StayDown` and `Over` stand
for the states in which the program has really ended.

### Fairness

* `WF(Tracker)`: the goroutine is scheduled. `SF(StatusTimer)`,
  `SF(CleanupTimer)`, `SF(StopTracking)`: a timer that has fired stays ready,
  and Go's select chooses at random among what is ready, so none is passed over
  for ever. CloudRunKubelet assumes the first three, and its goroutine has no
  end but the process's. In PodsTracker a call of the handler that is repeated
  for ever succeeds for ever often (`SF` on the successful answers), and each pod
  gets its turn in a loop repeated for ever (`SF` on `Visit`); otherwise nothing
  could be said of a provider that is down.
* CloudRunKubelet: workers, informer and queues of the library run (`WF` for
  each key); a call under way gets its answer (`SF` for each key, as its steps
  are enabled and disabled by others); an operation Cloud Run accepted ends
  (`WF` on `Settles` and `FinishesDelete`); the deployment restarts the process.
  Nothing is assumed of requests adrift. That an accepted deletion ends is
  assumed and not shown: the code waits for it without a deadline. The liveness
  run has no failing requests: each of them ends the process.
* RootCommand: the command runs, the startup timer fires, and the node ends
  some time after its context is done. The last is the library's promise as
  long as the provider's calls return; `CreateService` and `DeleteService` wait
  with the background context, so it rests on Cloud Run's operations ending.

### What the runs found

| Run | The text | The code |
|---|---|---|
| `kubelet_missing` | `cloudrun.go:363` "returns nil if a pod by that name is not found" | a missing service dereferences nil and ends the process |
| `kubelet_status` | `cloudrun.go:362` "returns the status of a pod by name" | a pod is given the status of a service left behind by an earlier one |
| `kubelet_edit` | `cloudrun.go:260` "UpdatePod ... updates its reference" | never called: a changed pod is created a second time |
| `kubelet_dangling` | `podsTracker.go:143` "cleaning up dangling pod" | the list of active pods is always empty; services are leaked |
| `tracker_race` | `podsTracker.go:143` | Kubernetes is listed before the provider: a pod bound in between is cleaned up. Hidden by the empty store of this provider |

`kubelet_edit` and `kubelet_dangling` have one cause: `CreatePod` "accepts a Pod
definition and stores it in memory" (`cloudrun.go:203`), and it does not. The
theorem `StoreEmpty` says of every behaviour that nothing is stored.

Met while reading, too small for a run of their own: a negative number of workers
passes "must be greater than 0" (`root.go:66`), and the queues of the library
panic with it once the node runs (`NodePanics`); a
sample rate above 100 passes "must be between 0 and 100", as the error made
wraps a nil one (`tracing.go:78`); the providers command ("Show the list of
supported providers") prints none, as only the root command registers one; a
`--trace-tag` is stored in a nil map, which panics (`flag.go:52`, the step
`ParseTag`); a negative `KUBELET_PORT` wraps to another port (`opts.go:138`); the
value of a variable that is taken from elsewhere is passed on empty
(`cloudRunClient.go:135`); a memory limit below 1Mi becomes none
(`cloudRunClient.go:126`).

`PodsAreServed` and `DeletionCompletes` hold while the process is up for ever.
They say nothing for the crash loop that follows a restart with a pod whose
service exists: its creation is refused and ends the process again. The same
holds of a pod Cloud Run refuses each time, such as one without limits.
`OwnServiceIsOlder` says what is left: without a restart, an edit or a namesake
the creation of a pod does not meet its own service.

### Mutants

For every property of a passing run there is a definition written just before
the one it replaces, commented `Mutant:`, that breaks the property the way a
plausible change of the code would: an answer not distinguished, a queue that
hands out a key twice, an error returned where it was swallowed, a deferred
function that waits without cancelling.

## The proofs

Every safety property of a passing run (each invariant, the action property and
the refinement) is a theorem, for every value of the constants. The
assumptions on the constants are those the modules name, and no others:

| Assumption | Says | Why the code justifies it |
|---|---|---|
| `ProviderAssumption`, `KubeletAssumption` | prefixes and suffixes of keys exist; the bounds are numbers | |
| `TrackerAssumption`, `NotFoundAssumption` | the answers of the handler are statuses, and none has the reason `NotFound` | the reason is a constant of `podsTracker.go` (line 25) that only its own lines 190 and 200 set |
| `OptionsAssumption` | `Atoi` gives numbers, and none for the empty string | `strconv.Atoi` |
| `RootCommandAssumption` | no flag sets the port or the effect of the taint, one for the number of workers is a number, an entry of the file has all fields | `flag.go` has no such flags and an `IntVar`; an entry is a Go struct |
| `QuantitiesAssumption` | the empty string is no quantity | `resource.ParseQuantity` |
| `ServiceTemplateAssumption` | limits are natural numbers | the API server refuses negative ones |

**Lemmas on the functions.** `PodStatusProofs` says what `processPodUpdates`,
`statusOfService` and the others of PodStatus return; the proofs about both
systems that use TrackerLoop cite it.

**CloudRunKubeletProofs**, for every set of namespaces, names, suffixes and
faults and every bound:

* `TypeCorrect`: `[]TypeOK`.
* `StoreEmpty`: `[]StoreStaysEmpty`: nothing is ever stored, against the
  comment on `CreatePod`, and nothing dangles. It shows that the two findings
  that rest on it are not of the small instance. Inductive as it stands: `GetPod` finds
  nothing in an empty store, so `UpdatePod`, the one writer, is never called,
  and what dangles is computed from the empty store.
* `PodsKeepIdentity` (a lemma): `[]Incarnations`, and from it `DeletedStaysDeleted`:
  `[]NoCreateAfterDelete`. The latter is not inductive: one needs that
  a pod that was given up is seen terminating wherever it is still seen, and
  that uids and keys belong together so that the library's one-call-for-a-key
  rule covers all calls for an incarnation. `Incarnations` says so; it has one
  lemma for each group of actions.
* `CreationsAreKnown`: `[]Creations`, and from it `CreatedOnce`: the action
  property `CreateOncePerVersion`. `Creations` follows a version from the
  moment its creation began: while the cache shows it, its creation is under
  way or it is the one used last, no call for another pod of its key is under
  way, and the cache keeps the pod until the cluster has lost it. `NotAskedYet`
  then shows that a worker that begins a creation meets a version that was not
  asked for, and `BegunByAWorker` that nothing else begins one.
* `OneCallAtATime` (a lemma): `[]CallsAreApart`, no two calls are about the same
  pod, and only pods given up are deleted. A worker begins a call only for a key
  none has; `Incarnations` makes that a statement about pods.
* `NoRunObstructsItself`: `[]OwnServiceIsOlder`. The inductive invariant is
  `Ownership`: every service and every creation was asked for, a creation adrift
  by an earlier run (`AdriftIsOlder`, for which a process that is down has no
  calls), and a request not answered yet is newer than every service of its pod,
  whatever its name. A service that arrives late is older for that reason.
  When a worker begins a creation, `Creations` says that what this run asked for
  was an earlier version; when Cloud Run makes the service, `CallsAreApart`
  says that no other request of the same pod is waiting to meet it.

`Creations` is checked by TLC as well (`kubelet_safety`).

**CloudRunKubeletRefinement**, from the same assumptions:

* `Refinement`: `Spec => ImplementsLifecycle`, that is `Lifecycle!Spec`. Each
  lemma whose name ends in `Steps` takes the actions of one part of the system
  and shows the step of PodLifecycle they are, or that nothing of the mapping
  changes. `Incarnations` shows that what is given up is not bound and what is
  created is not given up; `CallsAreApart` that a call that returns leaves no
  other behind for its pod, and that what is taken out of the API server was
  leaving; `StoreStaysEmpty` that no cleanup and no update ever shows.
  `ArrivalSteps` maps the requests adrift.
  `InRange` (`InRangeInvariant`) says that uids are those of the abstract
  specification.
* `ServicesStayGone`: `Spec => Lifecycle!NotServedAgain`, what one gains by it:
  a pod that was given up gets no service any more, but from a request that was
  under way when its process ended. That one case is real: nothing in the code
  takes such a service down again.

`PodLifecycleProofs` proves of PodLifecycle alone, and so of whatever implements
it, that a pod that was given up is not being created (`GivenUpStaysUncreated`)
and gets no service any more but from a request adrift (`ServedNoMore`).

**PodsTrackerProofs**, for every handler without events: any statuses, calls that
fail, and number of incarnations.

* `TypeCorrect`: `[]TypeOK`.
* `FailedOnlyIfLost`: `[]FailedWasLost`. The invariant is about all copies of a
  pod there are, in the lister, the loop, the callback and `UpdatePodStatus`
  (`CopiesAreExplained`): a copy of an incarnation that is still bound shows it
  running only if it is hosted or was lost, and as `NotFound` only if it was
  lost. A copy of an earlier incarnation says nothing of the one bound now.
  `Evolves` is what a step may do to the pods copies speak of.

**RootCommandProofs**, for every command line, environment and file, and ports
of every width:

* `TypeCorrect`: `[]TypeOK`.
* `NodeEnds`: `[]NodeEndsFirst`, from `NodeFollowsCommand`, which relates the
  place of the command to the state of the node.
* `OnlyWhenTold`: `[]OnlyToldToStop`, by `EndHasReason`: before the command
  defers its end, a cancelled context, or a node that ended without an error,
  was told to.
* `PortIsTaken`, `TaintedUnlessAsked`: what was checked
  before `NewNode` still holds when the node is made (`OptionsAreChecked`), and
  what the options of `NewNode` set survives `ConfigureNode`
  (`NodeIsPrepared`). `int32Fits` and `PortTaken` are the arithmetic of a port
  that is compared first and converted after.
* `NodeHasItsEntry`, `NoPanicBeforeTheNode`: `LoadedConfig` says that what
  `loadConfig` returns is the entry of the node with its defaults, and that the
  defaults change nothing of it a second time; so what `capacity` parses is what
  was parsed before. The second is about the start alone, up to the run of the
  library's node: what the node does with the options after that, a negative
  number of workers for one, is outside it.

**ServiceTemplateProofs**: `CpuCovered`, `MemoryWithinLimit` and `StatusesFit`,
for pods of every length, from `Translated`: what is translated so far is the
translation of the first containers. `CoresRoundUp` and `MiOfRoundsDown` are
the arithmetic.

**Model-checked only.** Liveness under fairness (and `ENABLED`) is beyond the
prover: `LossIsReported`, `DanglingIsCleaned` and `StopsWhenCancelled` of PodsTracker, `StopCompletes` and `StartupEnds` of
RootCommand, `DeletionCompletes`, `PodsAreServed` and `StatusConverges` of
CloudRunKubelet are TLC's alone, and the violations are TLC's counterexamples. The functions of the models are not recursive over data,
so nothing was left out for that reason.

## Not modelled, and why

The mock provider and `register.go` are reached by no code of the program.
Logs, exec, attach and port forwarding are empty or pure output, and so are
`ListPods` and `GetContainerLogs` of the client. Statistics and metrics are
random numbers for the pods of the store, of which there are none
(theorem `StoreEmpty`). The version command prints two strings. Of tracing, the
samplers and the zpages server decide nothing else. The conditions, addresses
and labels of the node are constants. Messages, times, images and addresses do
not influence any decision of the code. The client closed by `CreatePod`'s
deferred call is made for nothing: only the panic it can cause is kept.
Events (`podsTracker.go:157-172`): the only handler delivers none, so the sink
given to `FetchPodEvents` never runs. It would not record one: `eventRecorder` is
set by nothing (`cloudrun.go:743-748`), so line 166 would dereference nil. A
handler that has events needs that field first. The lister's error
(`podsTracker.go:107`, `127`): it reads memory and returns none.
`DeleteService` within `CleanupPod` is one step, as no pod is ever cleaned up.

## Plan

Done: all modules above, their runs, and the proofs above.

Next, in this order:

1. Abstract specifications for the other parts, refined by proof as PodLifecycle
   is: the tracker as what it promises its caller, the root command as a
   process that starts one node and stops it once.
2. What TrackerLoop alone guarantees in both systems that use it, as lemmas
   proved once: one pod at a time, and no copy published that was not fetched.
3. Safety parts of the liveness properties: what a step may not undo on the way
   to `DeletionCompletes` and `LossIsReported`.
