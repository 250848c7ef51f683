--------------------------- MODULE NodeConfiguration ---------------------------
(***************************************************************************)
(* What the provider makes of its configuration file (cloudrun.go): the    *)
(* entry of the node it runs, and the node object ConfigureNode fills in.  *)
(*                                                                         *)
(* A file is unreadable (missing, or no JSON of that form), or a function  *)
(* from the names of the nodes it has entries for.  An entry has the       *)
(* quantities as strings, "" for one left out; of the others only the set  *)
(* of values.                                                              *)
(***************************************************************************)
CONSTANT Quantities   \* the strings resource.ParseQuantity accepts

ASSUME QuantitiesAssumption == "" \notin Quantities

defaultCapacity == [CPU |-> "20", Memory |-> "100Gi", Pods |-> "20"]

withDefaults(config) ==
  [field \in DOMAIN config |->
     IF field \in DOMAIN defaultCapacity /\ config[field] = ""
       THEN defaultCapacity[field] ELSE config[field]]

zeroConfig == [CPU |-> "", Memory |-> "", Pods |-> "", Others |-> {}]

Values(config) == {config.CPU, config.Memory, config.Pods} \cup config.Others

(* Mutant: the other quantities are not tried. *)
loadConfigTryingThree(file, nodeName) ==
  {config \in {IF nodeName \in DOMAIN file.nodes
                 THEN withDefaults(file.nodes[nodeName]) ELSE zeroConfig} :
     file.readable /\ {config.CPU, config.Memory, config.Pods} \subseteq Quantities}

(* Mutant: the defaults are for a node without an entry, too. *)
loadConfigForAnyNode(file, nodeName) ==
  {config \in {withDefaults(IF nodeName \in DOMAIN file.nodes
                              THEN file.nodes[nodeName] ELSE zeroConfig)} :
     file.readable /\ Values(config) \subseteq Quantities}

(* The configuration, as a set that is empty when there is an error.  The    *)
(* defaults are for a node with an entry: without one, nothing is no CPU     *)
(* quantity. *)
loadConfig(file, nodeName) ==
  {config \in {IF nodeName \in DOMAIN file.nodes
                 THEN withDefaults(file.nodes[nodeName]) ELSE zeroConfig} :
     file.readable /\ Values(config) \subseteq Quantities}

(* MustParse panics, in capacity. *)
capacityPanics(config) == ~(Values(config) \subseteq Quantities)

(* ConfigureNode writes over what the options of the node set, and leaves    *)
(* the taints. *)
ConfigureNode(node, config, os, daemonPort) ==
  [node EXCEPT !.capacity = config,
               !.port     = daemonPort,
               !.os       = IF os = "" THEN "linux" ELSE os,
               !.arch     = "amd64"]
=============================================================================
