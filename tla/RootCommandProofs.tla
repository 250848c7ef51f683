-------------------------- MODULE RootCommandProofs --------------------------
(***************************************************************************)
(* Theorems about RootCommand, for every command line, environment and     *)
(* configuration file, and for ports of every width.                       *)
(***************************************************************************)
EXTENDS RootCommand, TLAPS

-----------------------------------------------------------------------------
(* The options *)

LEMMA maxInt32Type == maxInt32 \in Nat
BY OptionsAssumption

LEMMA AtoiType ==
  ASSUME NEW numeral \in DOMAIN Atoi PROVE Atoi[numeral] \in Int
BY OptionsAssumption

LEMMA int32Type ==
  ASSUME NEW p \in Int PROVE int32(p) \in Int
<1> DEFINE width == 2 * (maxInt32 + 1)
           sum == p + maxInt32 + 1
<1>1. maxInt32 \in Int
  BY maxInt32Type
<1>2. width \in Int /\ width > 0 /\ sum \in Int
  BY maxInt32Type, <1>1
<1>3. \A a \in Int, b \in Int : b > 0 => a % b \in Int
  OBVIOUS
<1>4. sum % width \in Int
  BY ONLY <1>2, <1>3
<1>5. int32(p) = (sum % width) - (maxInt32 + 1)
  BY DEF int32
<1> HIDE DEF width, sum
<1>6. QED
  BY ONLY <1>1, <1>4, <1>5

(* What fits is not wrapped. *)
LEMMA int32Fits ==
  ASSUME NEW p \in Int, 0 <= p, p <= maxInt32 PROVE int32(p) = p
<1> DEFINE width == 2 * (maxInt32 + 1)
           sum == p + maxInt32 + 1
<1>1. maxInt32 \in Int
  BY maxInt32Type
<1>2. width \in Int /\ sum \in Int /\ 0 <= sum /\ sum < width
  BY maxInt32Type, <1>1
<1>3. \A a \in Int, b \in Int : 0 <= a /\ a < b => a % b = a
  OBVIOUS
<1>4. int32(p) = (sum % width) - (maxInt32 + 1)
  BY DEF int32
<1> HIDE DEF width
<1>5. sum % width = sum
  BY ONLY <1>2, <1>3
<1>6. QED
  BY ONLY <1>1, <1>4, <1>5

LEMMA KubeletPortType == ASSUME NEW env PROVE KubeletPort(env) \in Int
<1> DEFINE port == Getenv(env, "KUBELET_PORT")
<1>1. CASE port # "" /\ port \in DOMAIN Atoi
  <2>1. KubeletPort(env) = int32(Atoi[port])
    BY <1>1, Zenon DEF KubeletPort
  <2>2. Atoi[port] \in Int
    BY <1>1, AtoiType
  <2>3. QED
    BY <2>1, <2>2, int32Type
<1>2. CASE port = ""
  <2>1. KubeletPort(env) = DefaultListenPort
    BY <1>2, Zenon DEF KubeletPort
  <2>2. QED
    BY <2>1 DEF DefaultListenPort
<1>3. CASE port # "" /\ port \notin DOMAIN Atoi
  <2>1. KubeletPort(env) = 0
    BY <1>3, Zenon DEF KubeletPort
  <2>2. QED
    BY <2>1
<1>4. QED
  BY <1>1, <1>2, <1>3, Zenon

LEMMA DefaultPort ==
  ASSUME NEW env
  PROVE  SetDefaultOpts(zeroOpts, env).ListenPort
           = IF PortIsRefused(env) THEN 0 ELSE KubeletPort(env)
BY DEF SetDefaultOpts, zeroOpts, Defaults

LEMMA DefaultOptsType ==
  ASSUME NEW env
  PROVE  LET c == SetDefaultOpts(zeroOpts, env) IN
         /\ DOMAIN c = DOMAIN zeroOpts
         /\ c.ListenPort \in Int /\ c.PodSyncWorkers \in Int
<1>1. DOMAIN SetDefaultOpts(zeroOpts, env) = DOMAIN zeroOpts
  BY DEF SetDefaultOpts
<1>2. SetDefaultOpts(zeroOpts, env).ListenPort \in Int
  BY DefaultPort, KubeletPortType
<1>3. SetDefaultOpts(zeroOpts, env).PodSyncWorkers = 10
  BY DEF SetDefaultOpts, zeroOpts, Defaults
<1>4. QED
  BY <1>1, <1>2, <1>3

(* No flag sets the port, and one for the workers is a number. *)
LEMMA ParsedOpts ==
  ASSUME TypeOK
  PROVE  LET c == ParseFlags(opts, choice.flags) IN
         /\ DOMAIN c = DOMAIN zeroOpts
         /\ c.ListenPort = opts.ListenPort
         /\ c.PodSyncWorkers \in Int
<1>1. DOMAIN opts = DOMAIN zeroOpts /\ opts.PodSyncWorkers \in Int
  BY DEF TypeOK
<1>2. "ListenPort" \in DOMAIN zeroOpts /\ "PodSyncWorkers" \in DOMAIN zeroOpts
  BY DEF zeroOpts
<1>3. /\ "ListenPort" \notin DOMAIN choice.flags
      /\ "PodSyncWorkers" \in DOMAIN choice.flags =>
           choice.flags.PodSyncWorkers \in Int
  BY RootCommandAssumption DEF TypeOK, Flags
<1>4. QED
  BY <1>1, <1>2, <1>3 DEF ParseFlags

(* A port that is not refused and is no negative number is taken as it is.   *)
LEMMA PortTaken ==
  ASSUME NEW env, ~PortIsRefused(env)
  PROVE  LET port == Getenv(env, "KUBELET_PORT") IN
         port \in DOMAIN Atoi /\ Atoi[port] >= 0 => KubeletPort(env) = Atoi[port]
<1> DEFINE port == Getenv(env, "KUBELET_PORT")
<1> SUFFICES ASSUME port \in DOMAIN Atoi, Atoi[port] >= 0
             PROVE  KubeletPort(env) = Atoi[port]
  OBVIOUS
<1>1. port # ""
  BY OptionsAssumption
<1>2. Atoi[port] \in Int
  BY AtoiType
<1>3. ~(Atoi[port] > maxInt32)
  BY <1>1, Zenon DEF PortIsRefused
<1>4. Atoi[port] <= maxInt32
  BY <1>2, <1>3, maxInt32Type
<1>5. int32(Atoi[port]) = Atoi[port]
  BY <1>2, <1>4, int32Fits
<1>6. QED
  BY <1>1, <1>5, Zenon DEF KubeletPort

-----------------------------------------------------------------------------
(* The configuration *)

(* What loadConfig returns has no field left out, so the defaults change     *)
(* nothing of it, and it has only quantities that parse.                     *)
LEMMA LoadedConfig ==
  ASSUME TypeOK, NEW config \in loadConfig(choice.file, opts.NodeName)
  PROVE  LET entry == choice.file.nodes[opts.NodeName] IN
         /\ opts.NodeName \in DOMAIN choice.file.nodes
         /\ DOMAIN entry = DOMAIN zeroConfig
         /\ config = withDefaults(entry)
         /\ Values(config) \subseteq Quantities
         /\ withDefaults(config) = config
<1>1. Values(config) \subseteq Quantities
  BY DEF loadConfig
<1>2. "" \notin Values(config)
  BY <1>1, QuantitiesAssumption
<1>3. opts.NodeName \in DOMAIN choice.file.nodes
  <2>1. "" \in Values(zeroConfig)
    BY DEF Values, zeroConfig
  <2>2. QED
    BY <1>2, <2>1 DEF loadConfig
<1>4. config = withDefaults(choice.file.nodes[opts.NodeName])
  BY <1>3 DEF loadConfig
<1>5. DOMAIN choice.file.nodes[opts.NodeName] = DOMAIN zeroConfig
  BY <1>3, RootCommandAssumption DEF TypeOK
<1>6. DOMAIN config = {"CPU", "Memory", "Pods", "Others"}
  BY <1>4, <1>5 DEF withDefaults, zeroConfig
<1>7. DOMAIN defaultCapacity = {"CPU", "Memory", "Pods"}
  BY DEF defaultCapacity
<1>8. \A field \in DOMAIN defaultCapacity : config[field] # ""
  BY <1>2, <1>7 DEF Values
<1>9. config = [field \in DOMAIN config |-> config[field]]
  BY <1>4 DEF withDefaults
<1>10. withDefaults(config) = config
  BY <1>8, <1>9 DEF withDefaults
<1>11. QED
  BY <1>1, <1>3, <1>4, <1>5, <1>10
(* The default is taken where an entry has nothing. *)
LEMMA FieldsWithDefaults ==
  ASSUME NEW entry, DOMAIN entry = DOMAIN zeroConfig, NEW field \in DOMAIN entry
  PROVE  withDefaults(entry)[field]
           = IF field # "Others" /\ entry[field] = ""
               THEN defaultCapacity[field] ELSE entry[field]
<1>1. DOMAIN zeroConfig = {"CPU", "Memory", "Pods", "Others"}
  BY Zenon DEF zeroConfig
<1>2. DOMAIN defaultCapacity = {"CPU", "Memory", "Pods"}
  BY DEF defaultCapacity
<1>3. field \in DOMAIN defaultCapacity <=> field # "Others"
  BY <1>1, <1>2
<1>4. QED
  BY <1>3, Zenon DEF withDefaults

-----------------------------------------------------------------------------
(* Types *)

LEMMA ConfiguredType ==
  /\ DOMAIN Configured = DOMAIN noSpec
  /\ Configured.port \in Int
  /\ Configured.taints =
       IF opts.DisableTaint THEN {} ELSE getTaint(opts, choice.env)
<1>1. /\ DOMAIN noSpec = {"taints", "os", "arch", "capacity", "port"}
      /\ noSpec.port = 0
  BY Zenon DEF noSpec
<1>2. noSpec = [field \in DOMAIN noSpec |-> noSpec[field]]
  BY Zenon DEF noSpec
<1> HIDE DEF noSpec
<1>3. QED
  BY <1>1, <1>2 DEF Configured

(* ConfigureNode writes over no taint. *)
LEMMA ConfiguredNode ==
  ASSUME DOMAIN spec = DOMAIN noSpec, NEW config, NEW os, NEW port
  PROVE  LET s == ConfigureNode(spec, config, os, port) IN
         /\ DOMAIN s = DOMAIN noSpec
         /\ s.taints = spec.taints
         /\ s.capacity = config
         /\ s.port = port
<1>1. DOMAIN noSpec = {"taints", "os", "arch", "capacity", "port"}
  BY Zenon DEF noSpec
<1>2. QED
  BY <1>1, Zenon DEF ConfigureNode

LEMMA TypeInit == Init => TypeOK
<1> SUFFICES ASSUME Init PROVE TypeOK
  OBVIOUS
<1>1. DOMAIN spec = DOMAIN noSpec /\ spec.port \in Int
  <2>1. noSpec.port = 0
    BY Zenon DEF noSpec
  <2>2. QED
    BY <2>1 DEF Init
<1>2. /\ DOMAIN opts = DOMAIN zeroOpts
      /\ opts.ListenPort \in Int /\ opts.PodSyncWorkers \in Int
  BY DefaultOptsType DEF Init
<1>3. QED
  BY <1>1, <1>2 DEF Init, TypeOK, Places, Errors

LEMMA TypeNext == TypeOK /\ [Next]_vars => TypeOK'
<1> SUFFICES ASSUME TypeOK, [Next]_vars PROVE TypeOK'
  OBVIOUS
<1> USE DEF Exits, Returns, Defers, unchangedByCommand, unchangedByNode,
            inputVars, nodeVars, endVars
<1>1. CASE ParseTag
  BY <1>1 DEF ParseTag, TypeOK, Places
<1>2. CASE ParseRoot
  <2>1. /\ DOMAIN opts' = DOMAIN zeroOpts
        /\ opts'.ListenPort \in Int /\ opts'.PodSyncWorkers \in Int
    BY <1>2, ParsedOpts DEF ParseRoot, TypeOK
  <2>2. QED
    BY <1>2, <2>1 DEF ParseRoot, TypeOK, Places, Errors
<1>3. CASE Providers
  BY <1>3 DEF Providers, TypeOK, Places
<1>4. CASE Check
  BY <1>4 DEF Check, TypeOK, Places, Errors
<1>5. CASE ApplyOptions
  <2>1. DOMAIN spec' = DOMAIN noSpec /\ spec'.port \in Int
    BY <1>5, ConfiguredType DEF ApplyOptions
  <2>2. QED
    BY <1>5, <2>1 DEF ApplyOptions, Register, TypeOK, Places, Errors
<1>6. CASE NewProvider
  <2>1. DOMAIN spec' = DOMAIN noSpec /\ spec'.port \in Int
    BY <1>6, ConfiguredNode DEF NewProvider, TypeOK
  <2>2. QED
    BY <1>6, <2>1 DEF NewProvider, TypeOK, Places
<1>7. CASE ProviderFails
  BY <1>7 DEF ProviderFails, TypeOK, Places, Errors
<1>8. CASE SetupTracing
  BY <1>8 DEF SetupTracing, TypeOK, Places, Errors
<1>9. CASE RunNode
  BY <1>9 DEF RunNode, TypeOK, Places
<1>10. CASE \/ NodeIsReady \/ NodeEndedBefore \/ StartCancelled \/ StartupTimeout
            \/ ContextDone \/ NodeDone \/ Waited
  BY <1>10 DEF NodeIsReady, NodeEndedBefore, StartCancelled, StartupTimeout,
               ContextDone, NodeDone, Waited, TypeOK, Places, Errors
<1>11. CASE Signal
  BY <1>11 DEF Signal, TypeOK
<1>12. CASE NodeStarts \/ NodeFails \/ NodeStops \/ NodePanics
  BY <1>12 DEF NodeStarts, NodeFails, NodeStops, NodePanics, TypeOK, Places, Errors
<1>13. CASE UNCHANGED vars
  BY <1>13 DEF vars, TypeOK
<1>14. QED
  BY <1>1, <1>2, <1>3, <1>4, <1>5, <1>6, <1>7, <1>8, <1>9, <1>10, <1>11, <1>12,
     <1>13 DEF Next, Command, Over

(* Every variable keeps its type: the port and the number of workers stay     *)
(* numbers through defaults and flags, and no field of the options or of the *)
(* node is lost.                                                             *)
THEOREM TypeCorrect == Spec => []TypeOK
BY TypeInit, TypeNext, PTL DEF Spec

-----------------------------------------------------------------------------
(* The invariant *)

(* Where the command is says how far the node has come. *)
NodeFollowsCommand ==
  /\ pc \in {"parse", "check", "options", "provider"} => node = "none"
  /\ pc \in {"tracing", "run"} => node = "created"
  /\ pc \in {"ready", "select", "deferred"} => node \in {"starting", "ready", "done"}
  /\ exit = "none" <=> pc # "over"

(* The command comes to its end for a reason it was given. *)
EndHasReason ==
  /\ cancelled /\ pc \notin {"deferred", "over"} => told
  /\ node = "done" /\ nodeErr # "other" /\ pc \in {"ready", "select"} => told
  /\ pc = "deferred" /\ result # "other" => told

(* What was checked on the way to a place still holds there. *)
Past(places) == pc \notin places \cup {"over"} \/ node # "none"

OptionsAreChecked ==
  /\ opts.ListenPort = SetDefaultOpts(zeroOpts, choice.env).ListenPort
  /\ Past({"parse"}) => ~PortIsRefused(choice.env)
  /\ Past({"parse", "check"}) =>
       opts.DisableTaint \/ getTaint(opts, choice.env) # {}

NodeIsPrepared ==
  /\ pc = "provider" => spec.taints = Configured.taints
  /\ node # "none" => /\ spec.taints = Configured.taints
                      /\ spec.port = opts.ListenPort

LEMMA FollowsInvariant == Spec => []NodeFollowsCommand
<1>1. Init => NodeFollowsCommand
  BY DEF Init, NodeFollowsCommand
<1>2. TypeOK /\ NodeFollowsCommand /\ [Next]_vars => NodeFollowsCommand'
  <2> SUFFICES ASSUME TypeOK, NodeFollowsCommand, [Next]_vars
               PROVE  NodeFollowsCommand'
    OBVIOUS
  <2> USE DEF Exits, Returns, Defers, unchangedByCommand, unchangedByNode,
              nodeVars, endVars, TypeOK, NodeFollowsCommand
  <2>1. CASE ParseTag \/ ParseRoot \/ Providers
    BY <2>1 DEF ParseTag, ParseRoot, Providers
  <2>2. CASE Check \/ ApplyOptions \/ NewProvider \/ ProviderFails
    BY <2>2 DEF Check, ApplyOptions, NewProvider, ProviderFails
  <2>3. CASE SetupTracing \/ RunNode
    BY <2>3 DEF SetupTracing, RunNode
  <2>4. CASE \/ NodeIsReady \/ NodeEndedBefore \/ StartCancelled \/ StartupTimeout
             \/ ContextDone \/ NodeDone \/ Waited
    BY <2>4 DEF NodeIsReady, NodeEndedBefore, StartCancelled, StartupTimeout,
                ContextDone, NodeDone, Waited
  <2>5. CASE Signal \/ NodeStarts \/ NodeFails \/ NodeStops \/ NodePanics
    BY <2>5 DEF Signal, NodeRuns, NodeStarts, NodeFails, NodeStops, NodePanics
  <2>6. CASE UNCHANGED vars
    BY <2>6 DEF vars
  <2>7. QED
    BY <2>1, <2>2, <2>3, <2>4, <2>5, <2>6 DEF Next, Command, Over
<1>3. QED
  BY <1>1, <1>2, TypeCorrect, PTL DEF Spec

(* The process does not return from its command while the node is running:   *)
(* whatever the node does, the deferred function waits for it.               *)
THEOREM NodeEnds == Spec => []NodeEndsFirst
<1>1. Init => NodeEndsFirst
  BY DEF Init, NodeEndsFirst
<1>2. NodeFollowsCommand /\ NodeFollowsCommand' /\ NodeEndsFirst /\ [Next]_vars
        => NodeEndsFirst'
  <2> SUFFICES ASSUME NodeFollowsCommand, NodeFollowsCommand', NodeEndsFirst,
                      [Next]_vars
               PROVE  NodeEndsFirst'
    OBVIOUS
  <2> USE DEF Exits, Returns, Defers, unchangedByCommand, unchangedByNode,
              nodeVars, endVars, NodeFollowsCommand, NodeEndsFirst
  <2>1. CASE ParseTag \/ ParseRoot \/ Providers
    BY <2>1 DEF ParseTag, ParseRoot, Providers
  <2>2. CASE Check \/ ApplyOptions \/ NewProvider \/ ProviderFails
    BY <2>2 DEF Check, ApplyOptions, NewProvider, ProviderFails
  <2>3. CASE SetupTracing \/ RunNode
    BY <2>3 DEF SetupTracing, RunNode
  <2>4. CASE \/ NodeIsReady \/ NodeEndedBefore \/ StartCancelled \/ StartupTimeout
             \/ ContextDone \/ NodeDone \/ Waited
    BY <2>4 DEF NodeIsReady, NodeEndedBefore, StartCancelled, StartupTimeout,
                ContextDone, NodeDone, Waited
  <2>5. CASE Signal \/ NodeStarts \/ NodeFails \/ NodeStops \/ NodePanics
    BY <2>5 DEF Signal, NodeRuns, NodeStarts, NodeFails, NodeStops, NodePanics
  <2>6. CASE UNCHANGED vars
    BY <2>6 DEF vars
  <2>7. QED
    BY <2>1, <2>2, <2>3, <2>4, <2>5, <2>6 DEF Next, Command, Over
<1>3. QED
  BY <1>1, <1>2, FollowsInvariant, PTL DEF Spec

(* A process that was not told to stop does not end as if all was well,      *)
(* whichever of the node, the timer and the signal the selects hear first.   *)
THEOREM OnlyWhenTold == Spec => []OnlyToldToStop
<1> DEFINE Inv == EndHasReason /\ OnlyToldToStop
<1>1. Init => Inv
  BY DEF Init, EndHasReason, OnlyToldToStop
<1>2. TypeOK /\ NodeFollowsCommand /\ Inv /\ [Next]_vars => Inv'
  <2> SUFFICES ASSUME TypeOK, NodeFollowsCommand, Inv, [Next]_vars
               PROVE  Inv'
    OBVIOUS
  <2> USE DEF Exits, Returns, Defers, unchangedByCommand, unchangedByNode,
              inputVars, nodeVars, endVars, NodeFollowsCommand, EndHasReason,
              OnlyToldToStop
  <2> cancelled \in BOOLEAN /\ told \in BOOLEAN
    BY DEF TypeOK
  <2>1. CASE ParseTag \/ ParseRoot \/ Providers
    BY <2>1 DEF ParseTag, ParseRoot, Providers
  <2>2. CASE Check \/ ApplyOptions \/ NewProvider \/ ProviderFails
    BY <2>2 DEF Check, ApplyOptions, NewProvider, ProviderFails
  <2>3. CASE SetupTracing \/ RunNode
    BY <2>3 DEF SetupTracing, RunNode
  <2>4. CASE \/ NodeIsReady \/ NodeEndedBefore \/ StartCancelled \/ StartupTimeout
             \/ ContextDone \/ NodeDone \/ Waited
    BY <2>4 DEF NodeIsReady, NodeEndedBefore, StartCancelled, StartupTimeout,
                ContextDone, NodeDone, Waited
  <2>5. CASE Signal \/ NodeStarts \/ NodeFails \/ NodeStops \/ NodePanics
    BY <2>5 DEF Signal, NodeRuns, NodeStarts, NodeFails, NodeStops, NodePanics
  <2>6. CASE UNCHANGED vars
    BY <2>6 DEF vars
  <2>7. QED
    BY <2>1, <2>2, <2>3, <2>4, <2>5, <2>6 DEF Next, Command, Over
<1>3. QED
  BY <1>1, <1>2, TypeCorrect, FollowsInvariant, PTL DEF Spec

-----------------------------------------------------------------------------
(* The steps that prepare the node, and the others *)

LEMMA NothingPrepared ==
  ASSUME TypeOK, NodeFollowsCommand, [Next]_vars,
         ~ParseRoot, ~Check, ~ApplyOptions, ~NewProvider
  PROVE  /\ UNCHANGED <<choice, opts, registered, spec>>
         /\ node' = "none" <=> node = "none"
         /\ pc' = pc \/ pc' = "over" \/ node # "none"
         /\ pc' = "provider" => pc = "provider"
         /\ node' \in {"none", "created"} => node' = node
         /\ \/ exit' = exit
            \/ exit' = "panicked" /\ node' \in {"none", "created"}
                 => choice.tag = "pair"
<1> USE DEF Exits, Returns, Defers, unchangedByCommand, unchangedByNode,
            inputVars, nodeVars, endVars, NodeFollowsCommand
<1>1. CASE ParseTag \/ Providers
  BY <1>1 DEF ParseTag, Providers
<1>2. CASE ProviderFails \/ SetupTracing \/ RunNode
  BY <1>2 DEF ProviderFails, SetupTracing, RunNode
<1>3. CASE \/ NodeIsReady \/ NodeEndedBefore \/ StartCancelled \/ StartupTimeout
           \/ ContextDone \/ NodeDone \/ Waited
  BY <1>3 DEF NodeIsReady, NodeEndedBefore, StartCancelled, StartupTimeout,
              ContextDone, NodeDone, Waited
<1>4. CASE Signal \/ NodeStarts \/ NodeFails \/ NodeStops \/ NodePanics
  BY <1>4 DEF Signal, NodeRuns, NodeStarts, NodeFails, NodeStops, NodePanics
<1>5. CASE UNCHANGED vars
  BY <1>5 DEF vars
<1>6. QED
  BY <1>1, <1>2, <1>3, <1>4, <1>5 DEF Next, Command, Over

LEMMA CheckedInvariant == Spec => []OptionsAreChecked
<1>1. Init => OptionsAreChecked
  BY DEF Init, OptionsAreChecked, Past
<1>2. TypeOK /\ NodeFollowsCommand /\ OptionsAreChecked /\ [Next]_vars
        => OptionsAreChecked'
  <2> SUFFICES ASSUME TypeOK, NodeFollowsCommand, OptionsAreChecked, [Next]_vars
               PROVE  OptionsAreChecked'
    OBVIOUS
  <2> USE DEF OptionsAreChecked, Past, NodeFollowsCommand
  <2>1. CASE ParseRoot
    <3>1. opts'.ListenPort = opts.ListenPort /\ UNCHANGED <<choice, node>>
      BY <2>1, ParsedOpts DEF ParseRoot, nodeVars
    <3>2. \/ pc' = "check" /\ ~PortIsRefused(choice.env)
          \/ pc' = "over"
      BY <2>1 DEF ParseRoot, Exits
    <3>3. node = "none"
      BY <2>1 DEF ParseRoot
    <3>4. QED
      BY <3>1, <3>2, <3>3
  <2>2. CASE Check
    BY <2>2 DEF Check, ChecksPass, Returns, Exits, inputVars, nodeVars,
                unchangedByCommand
  <2>3. CASE ApplyOptions
    BY <2>3 DEF ApplyOptions, Returns, Exits, inputVars, unchangedByCommand
  <2>4. CASE NewProvider
    BY <2>4 DEF NewProvider, Exits, inputVars, unchangedByCommand
  <2>5. CASE ~ParseRoot /\ ~Check /\ ~ApplyOptions /\ ~NewProvider
    BY <2>5, NothingPrepared
  <2>6. QED
    BY <2>1, <2>2, <2>3, <2>4, <2>5
<1>3. QED
  BY <1>1, <1>2, TypeCorrect, FollowsInvariant, PTL DEF Spec

LEMMA PreparedInvariant == Spec => []NodeIsPrepared
<1>1. Init => NodeIsPrepared
  BY DEF Init, NodeIsPrepared
<1>2. TypeOK /\ NodeFollowsCommand /\ NodeIsPrepared /\ [Next]_vars
        => NodeIsPrepared'
  <2> SUFFICES ASSUME TypeOK, NodeFollowsCommand, NodeIsPrepared, [Next]_vars
               PROVE  NodeIsPrepared'
    OBVIOUS
  <2> USE DEF NodeIsPrepared, NodeFollowsCommand
  <2>1. CASE ParseRoot
    BY <2>1 DEF ParseRoot, Exits, nodeVars
  <2>2. CASE Check
    BY <2>2 DEF Check, Returns, Exits, nodeVars
  <2>3. CASE ApplyOptions
    <3>1. spec' = Configured /\ UNCHANGED <<opts, choice>>
      BY <2>3 DEF ApplyOptions, unchangedByCommand, inputVars
    <3>2. spec'.taints = Configured'.taints
      BY <3>1 DEF Configured
    <3>3. node' = "none"
      BY <2>3 DEF ApplyOptions
    <3>4. QED
      BY <3>2, <3>3
  <2>4. CASE NewProvider
    <3>1. UNCHANGED <<opts, choice>> /\ pc = "provider" /\ pc' # "provider"
      BY <2>4 DEF NewProvider, Exits, unchangedByCommand, inputVars
    <3>2. Configured' = Configured
      BY <3>1 DEF Configured
    <3>3. \/ UNCHANGED <<spec, node>>
          \/ \E config : spec' = ConfigureNode(spec, config, opts.OperatingSystem,
                                               opts.ListenPort)
      BY <2>4 DEF NewProvider
    <3>4. \/ UNCHANGED <<spec, node>>
          \/ spec'.taints = spec.taints /\ spec'.port = opts.ListenPort
      BY <3>3, ConfiguredNode DEF TypeOK
    <3>5. QED
      BY <3>1, <3>2, <3>4
  <2>5. CASE ~ParseRoot /\ ~Check /\ ~ApplyOptions /\ ~NewProvider
    <3>1. Configured' = Configured
      BY <2>5, NothingPrepared DEF Configured
    <3>2. QED
      BY <2>5, <3>1, NothingPrepared
  <2>6. QED
    BY <2>1, <2>2, <2>3, <2>4, <2>5
<1>3. QED
  BY <1>1, <1>2, TypeCorrect, FollowsInvariant, PTL DEF Spec

-----------------------------------------------------------------------------
(* What is announced of the node *)

(* For every range of ports and every value of KUBELET_PORT that is a number *)
(* and not a negative one, the port of the node is that number.              *)
THEOREM PortIsTaken == Spec => []PortIsNotWrapped
<1>1. OptionsAreChecked /\ NodeIsPrepared => PortIsNotWrapped
  <2> SUFFICES ASSUME OptionsAreChecked, NodeIsPrepared, node # "none",
                      Getenv(choice.env, "KUBELET_PORT") \in DOMAIN Atoi,
                      Atoi[Getenv(choice.env, "KUBELET_PORT")] >= 0
               PROVE  spec.port = Atoi[Getenv(choice.env, "KUBELET_PORT")]
    BY DEF PortIsNotWrapped
  <2>1. PICK env : env = choice.env
    OBVIOUS
  <2>2. ~PortIsRefused(env) /\ spec.port = SetDefaultOpts(zeroOpts, env).ListenPort
    BY <2>1 DEF OptionsAreChecked, NodeIsPrepared, Past
  <2>3. spec.port = KubeletPort(env)
    BY <2>2, DefaultPort
  <2>4. KubeletPort(env) = Atoi[Getenv(env, "KUBELET_PORT")]
    BY <2>1, <2>2, PortTaken
  <2>5. QED
    BY <2>1, <2>3, <2>4
<1>2. QED
  BY <1>1, CheckedInvariant, PreparedInvariant, PTL

(* A node without a taint was told to have none, for every effect and every  *)
(* key the flags and the environment may name.                               *)
THEOREM TaintedUnlessAsked == Spec => []TaintedUnlessTold
<1>1. OptionsAreChecked /\ NodeIsPrepared => TaintedUnlessTold
  BY ConfiguredType DEF OptionsAreChecked, NodeIsPrepared, Past, TaintedUnlessTold
<1>2. QED
  BY <1>1, CheckedInvariant, PreparedInvariant, PTL

(* Every quantity of a node is that of its entry of the file, or the default *)
(* where the entry has none.                                                 *)
THEOREM NodeHasItsEntry == Spec => []NodeIsConfigured
<1>1. Init => NodeIsConfigured
  BY DEF Init, NodeIsConfigured
<1>2. TypeOK /\ NodeFollowsCommand /\ NodeIsConfigured /\ [Next]_vars
        => NodeIsConfigured'
  <2> SUFFICES ASSUME TypeOK, NodeFollowsCommand, NodeIsConfigured, [Next]_vars
               PROVE  NodeIsConfigured'
    OBVIOUS
  <2>1. CASE ParseRoot \/ Check \/ ApplyOptions
    <3>1. node' = "none"
      BY <2>1 DEF ParseRoot, Check, ApplyOptions, nodeVars, NodeFollowsCommand
    <3>2. QED
      BY <3>1 DEF NodeIsConfigured
  <2>2. CASE NewProvider
    <3>1. PICK config \in ProviderConfig :
            \/ UNCHANGED node
            \/ spec' = ConfigureNode(spec, withDefaults(config),
                                     opts.OperatingSystem, opts.ListenPort)
      BY <2>2 DEF NewProvider
    <3>2. node = "none" /\ UNCHANGED <<choice, opts>>
      BY <2>2 DEF NewProvider, NodeFollowsCommand, unchangedByCommand, inputVars
    <3>3. CASE UNCHANGED node
      BY <3>2, <3>3 DEF NodeIsConfigured
    <3>4. CASE spec' = ConfigureNode(spec, withDefaults(config),
                                     opts.OperatingSystem, opts.ListenPort)
      <4>1. spec'.capacity = withDefaults(config)
        BY <3>4, ConfiguredNode DEF TypeOK
      <4>2. /\ opts.NodeName \in DOMAIN choice.file.nodes
            /\ DOMAIN choice.file.nodes[opts.NodeName] = DOMAIN zeroConfig
            /\ withDefaults(config) = withDefaults(choice.file.nodes[opts.NodeName])
        BY LoadedConfig DEF ProviderConfig
      <4>3. PICK entry : entry = choice.file.nodes[opts.NodeName]
        OBVIOUS
      <4>4. spec'.capacity = withDefaults(entry)
        BY <4>1, <4>2, <4>3
      <4>5. \A field \in DOMAIN entry :
              spec'.capacity[field] = IF field # "Others" /\ entry[field] = ""
                                        THEN defaultCapacity[field] ELSE entry[field]
        BY <4>2, <4>3, <4>4, FieldsWithDefaults, Zenon
      <4>6. choice' = choice /\ opts' = opts
        BY <3>2
      <4>7. QED
        BY <4>2, <4>3, <4>5, <4>6, Zenon DEF NodeIsConfigured
    <3>5. QED
      BY <3>1, <3>3, <3>4
  <2>3. CASE ~ParseRoot /\ ~Check /\ ~ApplyOptions /\ ~NewProvider
    BY <2>3, NothingPrepared DEF NodeIsConfigured
  <2>4. QED
    BY <2>1, <2>2, <2>3
<1>3. QED
  BY <1>1, <1>2, TypeCorrect, FollowsInvariant, PTL DEF Spec

(* For every configuration file, however its quantities are written, and all *)
(* options: a process that ends with a panic before it runs the node of the  *)
(* library was given a --trace-tag.                                          *)
THEOREM NoPanicBeforeTheNode == Spec => []ConfigurationDoesNotPanic
<1>1. Init => ConfigurationDoesNotPanic
  BY DEF Init, ConfigurationDoesNotPanic
<1>2. TypeOK /\ NodeFollowsCommand /\ ConfigurationDoesNotPanic /\ [Next]_vars
        => ConfigurationDoesNotPanic'
  <2> SUFFICES ASSUME TypeOK, NodeFollowsCommand, ConfigurationDoesNotPanic, [Next]_vars
               PROVE  ConfigurationDoesNotPanic'
    OBVIOUS
  <2>1. CASE ParseRoot \/ Check \/ ApplyOptions
    <3>1. exit' # "panicked"
      BY <2>1 DEF ParseRoot, Check, ApplyOptions, Returns, Exits, endVars,
                  NodeFollowsCommand
    <3>2. QED
      BY <3>1 DEF ConfigurationDoesNotPanic
  <2>2. CASE NewProvider
    <3>1. \A config \in ProviderConfig : ~capacityPanics(withDefaults(config))
      BY LoadedConfig DEF ProviderConfig, capacityPanics
    <3>2. exit' # "panicked"
      BY <2>2, <3>1 DEF NewProvider, endVars, NodeFollowsCommand
    <3>3. QED
      BY <3>2 DEF ConfigurationDoesNotPanic
  <2>3. CASE ~ParseRoot /\ ~Check /\ ~ApplyOptions /\ ~NewProvider
    BY <2>3, NothingPrepared DEF ConfigurationDoesNotPanic
  <2>4. QED
    BY <2>1, <2>2, <2>3
<1>3. QED
  BY <1>1, <1>2, TypeCorrect, FollowsInvariant, PTL DEF Spec

=============================================================================
