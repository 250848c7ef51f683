----------------------------- MODULE RootCommand -----------------------------
(***************************************************************************)
(* The process from main to its exit: the options, the checks of           *)
(* runRootCommand, the provider store, the start of the node, and the      *)
(* shutdown.  Three goroutines take part: the one that runs the command,   *)
(* the one that waits for a signal and cancels the context, and the one    *)
(* that runs the node (cm.Run), which belongs to the virtual-kubelet       *)
(* library and does within this module whatever that library may do.       *)
(* CloudRunKubelet is about what happens inside the running node.          *)
(*                                                                         *)
(* The command is at one of these places:                                  *)
(*   "parse"     main, before the command line is executed                 *)
(*   "check"     runRootCommand, before NewNode                            *)
(*   "options"   NewNode, before the option that registers the provider    *)
(*   "provider"  NewNode, before newProvider                               *)
(*   "tracing"   setupTracing                                              *)
(*   "run"       before go cm.Run                                          *)
(*   "ready"     in WaitReady                                              *)
(*   "select"    in the last select of runRootCommand                      *)
(*   "deferred"  in the deferred function that waits for cm.Done           *)
(*   "over"      the process has exited                                    *)
(***************************************************************************)
EXTENDS Options, NodeConfiguration, Sequences

CONSTANTS
  Choices   \* the command lines, environments and files considered

(* What the process is started with: the command ("root" or "providers"),   *)
(* its arguments (of providers), the level of the log is one, --trace-tag,  *)
(* the flags and the environment (see Options), the kubeconfigs a client    *)
(* can be made of, the configuration file of the provider (see              *)
(* NodeConfiguration), and whether the key pair can be loaded.  A flag for a *)
(* number is one, and an entry of the file has all fields.                   *)
ASSUME RootCommandAssumption ==
  \A choice \in Choices :
    /\ choice.command \in {"root", "providers"}
    /\ choice.tag \in {"none", "malformed", "pair"}
    /\ DOMAIN choice.flags \subseteq Flags
    /\ "PodSyncWorkers" \in DOMAIN choice.flags =>
         choice.flags.PodSyncWorkers \in Int
    /\ \A name \in DOMAIN choice.file.nodes :
         DOMAIN choice.file.nodes[name] = DOMAIN zeroConfig

VARIABLES
  choice,      \* what the process was started with
  opts,        \* Opts
  pc,          \* where the command is
  registered,  \* the names in the provider store
  spec,        \* NodeConfig.NodeSpec, see noSpec
  node,        \* "none", "created", "starting", "ready" or "done"
  nodeErr,     \* cm.Err()
  told,        \* history: a signal was received
  cancelled,   \* the context of runRootCommand is done
  result,      \* the error runRootCommand returns
  exit         \* "none", "ok", "failed" or "panicked"

inputVars == <<choice, opts>>
nodeVars == <<registered, spec, node>>
endVars == <<cancelled, result, exit>>
vars == <<inputVars, pc, nodeVars, nodeErr, told, endVars>>

(* The node object NewNode starts from. *)
noSpec == [taints |-> {}, os |-> "", arch |-> "", capacity |-> zeroConfig,
           port |-> 0]

Places == {"parse", "check", "options", "provider", "tracing", "run", "ready",
           "select", "deferred", "over"}

Errors == {"nil", "canceled", "other"}

TypeOK ==
  /\ choice \in Choices
  /\ DOMAIN opts = DOMAIN zeroOpts
  /\ opts.ListenPort \in Int /\ opts.PodSyncWorkers \in Int
  /\ pc \in Places
  /\ registered \subseteq {"cloudrun"}
  /\ DOMAIN spec = DOMAIN noSpec
  /\ spec.port \in Int
  /\ node \in {"none", "created", "starting", "ready", "done"}
  /\ nodeErr \in Errors
  /\ told \in BOOLEAN
  /\ cancelled \in BOOLEAN
  /\ result \in Errors
  /\ exit \in {"none", "ok", "failed", "panicked"}

Init ==
  /\ choice \in Choices
  /\ opts = SetDefaultOpts(zeroOpts, choice.env)
  /\ pc = "parse"
  /\ registered = {}
  /\ spec = noSpec
  /\ node = "none"
  /\ nodeErr = "nil"
  /\ told = FALSE
  /\ cancelled = FALSE
  /\ result = "nil"
  /\ exit = "none"

-----------------------------------------------------------------------------
(* What the options are checked for *)

ValidOperatingSystems == {"linux", "windows"}

(* Mutant: a taint that cannot be made is left out. *)
ChecksWithoutTaint ==
  /\ opts.OperatingSystem \in ValidOperatingSystems
  /\ opts.PodSyncWorkers # 0
  /\ opts.KubeConfigPath \in choice.kubeconfigs

(* The checks of runRootCommand that come before NewNode. *)
ChecksPass ==
  /\ opts.OperatingSystem \in ValidOperatingSystems
  /\ opts.PodSyncWorkers # 0
  /\ opts.DisableTaint \/ getTaint(opts, choice.env) # {}
  /\ opts.KubeConfigPath \in choice.kubeconfigs

-----------------------------------------------------------------------------
(* The provider store; a mutex makes each of its operations one step *)

Register(name) == registered' = registered \cup {name}

Exists(name) == name \in registered

-----------------------------------------------------------------------------
(* main *)

Exits(how) == pc' = "over" /\ exit' = how

(* Errors other than that of a cancelled context are fatal. *)
Returns(err) ==
  /\ result' = err
  /\ cancelled' = TRUE
  /\ Exits(IF err = "other" THEN "failed" ELSE "ok")

(* mapVar.Set stores the tag in a nil map. *)
ParseTag ==
  /\ pc = "parse"
  /\ choice.command = "root" /\ choice.tag # "none"
  /\ Exits(IF choice.tag = "pair" THEN "panicked" ELSE "failed")
  /\ UNCHANGED <<inputVars, nodeVars, nodeErr, told, cancelled, result>>

(* The level of the log is set before any command; the error of              *)
(* SetDefaultOpts is returned by PreRunE, which the root command has and no  *)
(* other one. *)
ParseRoot ==
  /\ pc = "parse"
  /\ choice.command = "root" /\ choice.tag = "none"
  /\ opts' = ParseFlags(opts, choice.flags)
  /\ IF choice.level /\ ~PortIsRefused(choice.env)
       THEN pc' = "check" /\ UNCHANGED <<exit, result>>
       ELSE Exits("failed") /\ result' = "other"
  /\ UNCHANGED <<choice, nodeVars, nodeErr, told, cancelled>>

(* Nothing is registered yet: the list is empty, and no name exists; two     *)
(* names are accepted and not looked at. *)
Providers ==
  /\ pc = "parse"
  /\ choice.command = "providers"
  /\ Exits(IF \/ ~choice.level
              \/ Len(choice.args) > 2
              \/ Len(choice.args) = 1 /\ ~Exists(choice.args[1])
             THEN "failed" ELSE "ok")
  /\ UNCHANGED <<inputVars, nodeVars, nodeErr, told, cancelled, result>>

(* Mutant: the node is given a context the signal does not cancel. *)
SignalUnheard ==
  /\ pc # "over"
  /\ ~told
  /\ told' = TRUE
  /\ UNCHANGED <<inputVars, pc, nodeVars, nodeErr, endVars>>

(* SIGINT or SIGTERM. *)
Signal ==
  /\ pc # "over"
  /\ ~told
  /\ told' = TRUE
  /\ cancelled' = TRUE
  /\ UNCHANGED <<inputVars, pc, nodeVars, nodeErr, result, exit>>

-----------------------------------------------------------------------------
(* runRootCommand *)

unchangedByCommand == UNCHANGED <<inputVars, nodeErr, told>>

Check ==
  /\ pc = "check"
  /\ IF ChecksPass
       THEN pc' = "options" /\ UNCHANGED endVars
       ELSE Returns("other")
  /\ UNCHANGED nodeVars
  /\ unchangedByCommand

(* The option of runRootCommand: the taint, the system and its architecture. *)
Configured ==
  [noSpec EXCEPT
     !.taints = IF opts.DisableTaint THEN {} ELSE getTaint(opts, choice.env),
     !.os     = opts.OperatingSystem,
     !.arch   = "host"]

(* Mutant: the mock provider is registered, too. *)
ApplyOptionsWithMock ==
  /\ pc = "options"
  /\ spec' = Configured
  /\ registered' = registered \cup {"cloudrun", "mock"}
  /\ IF choice.certificates
       THEN pc' = "provider" /\ UNCHANGED endVars
       ELSE Returns("other")
  /\ UNCHANGED node
  /\ unchangedByCommand

(* NewNode applies the options first; one of them registers the provider, *)
(* another loads the key pair. *)
ApplyOptions ==
  /\ pc = "options"
  /\ spec' = Configured
  /\ Register("cloudrun")
  /\ IF choice.certificates
       THEN pc' = "provider" /\ UNCHANGED endVars
       ELSE Returns("other")
  /\ UNCHANGED node
  /\ unchangedByCommand

(* Get returns an init function. *)
ProviderFound == Exists(opts.Provider)

ProviderConfig == loadConfig(choice.file, opts.NodeName)

(* newProvider: the store is asked for the provider, which loads its        *)
(* configuration and configures the node with it. *)
NewProvider ==
  /\ pc = "provider"
  /\ ProviderFound
  /\ \E config \in {withDefaults(c) : c \in ProviderConfig} :
       IF capacityPanics(config)
         THEN /\ Exits("panicked")
              /\ UNCHANGED <<node, spec, cancelled, result>>
         ELSE /\ pc' = "tracing"
              /\ node' = "created"
              /\ spec' = ConfigureNode(spec, config, opts.OperatingSystem,
                                       opts.ListenPort)
              /\ UNCHANGED endVars
  /\ UNCHANGED registered
  /\ unchangedByCommand

ProviderFails ==
  /\ pc = "provider"
  /\ ~ProviderFound \/ ProviderConfig = {}
  /\ Returns("other")
  /\ UNCHANGED nodeVars
  /\ unchangedByCommand

(* The making of an exporter may fail for reasons of its own. *)
SetupTracing ==
  /\ pc = "tracing"
  /\ \/ /\ ~TracingFails(opts, choice.env)
        /\ pc' = "run"
        /\ UNCHANGED endVars
     \/ /\ \/ TracingFails(opts, choice.env)
           \/ opts.TraceExporters \ {"zpages"} # {}
        /\ Returns("other")
  /\ UNCHANGED nodeVars
  /\ unchangedByCommand

RunNode ==
  /\ pc = "run"
  /\ node' = "starting"
  /\ pc' = "ready"
  /\ UNCHANGED <<registered, spec, endVars>>
  /\ unchangedByCommand

(* Mutant: the deferred function waits without cancelling the context. *)
DefersOnly(err) ==
  /\ pc' = "deferred"
  /\ result' = err
  /\ UNCHANGED <<nodeVars, cancelled, exit>>
  /\ unchangedByCommand

(* return err: the deferred function cancels the context first. *)
Defers(err) ==
  /\ pc' = "deferred"
  /\ result' = err
  /\ cancelled' = TRUE
  /\ UNCHANGED <<nodeVars, exit>>
  /\ unchangedByCommand

(* WaitReady: the node is ready, it ended before, the context is done, or   *)
(* the time is over.  The error of a node that ended is wrapped. *)
NodeIsReady ==
  /\ pc = "ready"
  /\ node = "ready"
  /\ pc' = "select"
  /\ UNCHANGED <<nodeVars, endVars>>
  /\ unchangedByCommand

NodeEndedBefore == pc = "ready" /\ node = "done" /\ Defers("other")

StartCancelled == pc = "ready" /\ cancelled /\ Defers("canceled")

StartupTimeout == pc = "ready" /\ opts.StartupTimeout /\ Defers("other")

(* The last select. *)
ContextDone == pc = "select" /\ cancelled /\ Defers("nil")

(* Mutant: the error of the node is not looked at. *)
NodeDoneQuietly == pc = "select" /\ node = "done" /\ Defers("nil")

NodeDone == pc = "select" /\ node = "done" /\ Defers(nodeErr)

(* Mutant: the command returns while the controllers are still busy. *)
NotWaited ==
  /\ pc = "deferred"
  /\ Returns(result)
  /\ UNCHANGED nodeVars
  /\ unchangedByCommand

Waited ==
  /\ pc = "deferred"
  /\ node = "done"
  /\ Returns(result)
  /\ UNCHANGED nodeVars
  /\ unchangedByCommand

Command ==
  \/ ParseTag \/ ParseRoot \/ Providers
  \/ Check \/ ApplyOptions \/ NewProvider \/ ProviderFails \/ SetupTracing \/ RunNode
  \/ NodeIsReady \/ NodeEndedBefore \/ StartCancelled
  \/ ContextDone \/ NodeDone \/ Waited

-----------------------------------------------------------------------------
(* The node of the library *)

unchangedByNode ==
  UNCHANGED <<inputVars, registered, spec, told, cancelled, result>>

NodeRuns == node \in {"starting", "ready"} /\ pc # "over"

NodeStarts ==
  /\ NodeRuns
  /\ node = "starting"
  /\ opts.PodSyncWorkers > 0
  /\ node' = "ready"
  /\ UNCHANGED <<pc, exit, nodeErr>>
  /\ unchangedByNode

NodeFails ==
  /\ NodeRuns
  /\ node' = "done"
  /\ nodeErr' = "other"
  /\ UNCHANGED <<pc, exit>>
  /\ unchangedByNode

NodeStops ==
  /\ NodeRuns
  /\ cancelled
  /\ node' = "done"
  /\ nodeErr' \in {"nil", "canceled"}
  /\ UNCHANGED <<pc, exit>>
  /\ unchangedByNode

(* The queues of the pod controller panic with less than one worker, before  *)
(* the node is ready; the provider may panic at any time. *)
NodePanics ==
  /\ NodeRuns
  /\ Exits("panicked")
  /\ UNCHANGED <<node, nodeErr>>
  /\ unchangedByNode

Over == pc = "over" /\ UNCHANGED vars

Next ==
  \/ Command
  \/ StartupTimeout
  \/ Signal
  \/ NodeStarts \/ NodeFails \/ NodeStops \/ NodePanics
  \/ Over

(* The command gets to run, the timer fires, and the node ends some time     *)
(* after its context is done.                                                *)
Spec == Init /\ [][Next]_vars /\ WF_vars(Command) /\ WF_vars(StartupTimeout)
             /\ WF_vars(NodeStops)

-----------------------------------------------------------------------------
(* Properties *)

(* The process does not return from its command while the node is running:  *)
(* the controllers are waited for on every way out of runRootCommand.        *)
NodeEndsFirst == exit \in {"ok", "failed"} => node \notin {"starting", "ready"}

(* A process that was not told to stop does not end as if all was well: the *)
(* exit status of the root command is the one a restart policy looks at.     *)
OnlyToldToStop == exit = "ok" /\ choice.command = "root" => told

(* Until the node of the library runs (go cm.Run), no quantity of the        *)
(* configuration file, however it is written, and no option ends the process *)
(* with a panic, but for a --trace-tag: what ConfigureNode parses without    *)
(* looking at the error was parsed before.  What the node does with the      *)
(* options afterwards is not part of it: a negative number of workers, which *)
(* passes the check for 0, ends the process there (NodePanics).              *)
ConfigurationDoesNotPanic ==
  exit = "panicked" /\ node \in {"none", "created"} => choice.tag = "pair"

(* A node is made for a name the configuration file has an entry for, with   *)
(* the quantities of that entry: neither a flag nor a variable that changes  *)
(* the name brings up a node with the capacity of another one.               *)
NodeIsConfigured ==
  node # "none" =>
    /\ opts.NodeName \in DOMAIN choice.file.nodes
    /\ LET entry == choice.file.nodes[opts.NodeName] IN
       \A field \in DOMAIN entry :
         spec.capacity[field] = IF field # "Others" /\ entry[field] = ""
                                  THEN defaultCapacity[field] ELSE entry[field]

(* The port a node announces, and listens on, is the one KUBELET_PORT names: *)
(* a number too large for a port is refused before it wraps around.  (A      *)
(* negative one is not: it may wrap to any port.)                            *)
PortIsNotWrapped ==
  LET port == Getenv(choice.env, "KUBELET_PORT") IN
  node # "none" /\ port \in DOMAIN Atoi /\ Atoi[port] >= 0
    => spec.port = Atoi[port]

(* A node keeps off the pods that do not tolerate it unless it is told not   *)
(* to: an effect that is misspelt, or cleared by the environment, is never   *)
(* the reason for a node without a taint.                                    *)
TaintedUnlessTold ==
  node # "none" => (spec.taints = {} <=> opts.DisableTaint)

(* A process told to stop stops, wherever the signal found it.               *)
StopCompletes == told ~> pc = "over"

(* With a startup timeout the process is ready or over some time.           *)
StartupEnds == opts.StartupTimeout ~> (pc \in {"select", "over"})
=============================================================================
