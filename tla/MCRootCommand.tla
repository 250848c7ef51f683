---------------------------- MODULE MCRootCommand ----------------------------
(* Instances of RootCommand: every check of the options passes and fails,    *)
(* with everything else in order and together with a failure elsewhere.      *)
EXTENDS RootCommand, TLC

Numerals == "50" :> 50 @@ "150" :> 150 @@ "20001" :> 20001
              @@ "-29745" :> (0 - 29745)

Parsable == {"20", "100Gi", "1", "2Gi"}

Entry(cpu, others) ==
  [CPU |-> cpu, Memory |-> "", Pods |-> "1", Others |-> others]

File(nodes) == [readable |-> TRUE, nodes |-> nodes]

(* The file of the repository has entries for two nodes. *)
OwnFile == File("mock-0" :> Entry("1", {}) @@ "cloudrun-0" :> Entry("", {"2Gi"}))

None == [x \in {} |-> ""]

OwnFlags ==
  [NodeName |-> "cloudrun-0", Provider |-> "cloudrun", StartupTimeout |-> TRUE]

(* The process as the chart starts it. *)
Usual ==
  [command |-> "root", args |-> <<>>, level |-> TRUE, tag |-> "none",
   flags |-> OwnFlags, env |-> None, kubeconfigs |-> {""}, file |-> OwnFile,
   certificates |-> TRUE]

(* The options checked before the node is made. *)
CheckedOptions ==
  {[Usual EXCEPT !.flags = flags @@ OwnFlags, !.env = env, !.kubeconfigs = configs] :
     flags \in {None, "OperatingSystem" :> "plan9", "OperatingSystem" :> "",
                "PodSyncWorkers" :> -1, "PodSyncWorkers" :> 0,
                "DisableTaint" :> TRUE, "TaintKey" :> ""},
     env \in {None, "KUBELET_PORT" :> "", "KUBELET_PORT" :> "50",
              "KUBELET_PORT" :> "20001", "KUBELET_PORT" :> "-29745",
              "KUBELET_PORT" :> "often", "KUBECONFIG" :> "mine",
              "HOME" :> "root", "VKUBELET_TAINT_EFFECT" :> "",
              "VKUBELET_TAINT_EFFECT" :> "Sometimes",
              "VKUBELET_TAINT_EFFECT" :> "NoExecute",
              "VKUBELET_TAINT_KEY" :> ""},
     configs \in {{""}, {"", "mine", "home"}}}

(* The node, its provider and its entry. *)
NodeOptions ==
  {[Usual EXCEPT !.flags = flags @@ OwnFlags, !.env = env, !.file = file,
                 !.certificates = certificates] :
     flags \in {None, "Provider" :> "", "NodeName" :> "other-0",
                "NodeName" :> "virtual-kubelet"},
     env \in {None, "DEFAULT_NODE_NAME" :> "mock-0"},
     file \in {OwnFile, [OwnFile EXCEPT !.readable = FALSE],
               File("cloudrun-0" :> Entry("many", {})),
               File("cloudrun-0" :> Entry("1", {"1", "many"}))},
     certificates \in BOOLEAN}

(* A node named by the environment. *)
NamedByEnvironment ==
  {[Usual EXCEPT !.flags = ("Provider" :> "cloudrun"), !.env = env] :
     env \in {None, "DEFAULT_NODE_NAME" :> "", "DEFAULT_NODE_NAME" :> "mock-0"}}

TracingOptions ==
  {[Usual EXCEPT !.flags = "TraceExporters" :> exporters
                             @@ "TraceSampleRate" :> rate @@ OwnFlags,
                 !.env = env] :
     exporters \in {{}, {"zpages"}, {"jaeger"}, {"ocagent", "zpages"}, {"other"}},
     rate \in {"", "always", "50", "150", "often"},
     env \in {None, "JAEGER_AGENT_ENDPOINT" :> "a", "OCAGENT_ENDPOINT" :> "a",
              "OCAGENT_ENDPOINT" :> "a" @@ "OCAGENT_INSECURE" :> "maybe"}}

OtherOptions ==
  {[Usual EXCEPT !.tag = "pair"], [Usual EXCEPT !.tag = "malformed"],
   [Usual EXCEPT !.level = FALSE]}
    \cup {[Usual EXCEPT !.command = "providers", !.args = args, !.level = level] :
            args \in {<<>>, <<"cloudrun">>, <<"cloudrun", "mock">>,
                      <<"cloudrun", "mock", "other">>},
            level \in BOOLEAN}

AllChoices ==
  CheckedOptions \cup NodeOptions \cup NamedByEnvironment \cup TracingOptions
    \cup OtherOptions
=============================================================================
