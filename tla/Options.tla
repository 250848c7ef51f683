-------------------------------- MODULE Options --------------------------------
(***************************************************************************)
(* The options of the root command: the defaults that main fills in from   *)
(* the environment (opts.go), the flags that override them (flag.go), and  *)
(* what is made of them before the node: the taint (node.go) and the trace *)
(* exporters (tracing*.go).                                                *)
(*                                                                         *)
(* The environment is a function of the variables that are set, the        *)
(* command line one of the flags that are given, under the names of the    *)
(* fields of Opts they set.                                                *)
(***************************************************************************)
EXTENDS Integers

CONSTANTS
  Atoi,      \* strconv.Atoi, on the strings that are numerals
  maxInt32   \* the largest number of a port: see int32

ASSUME OptionsAssumption ==
  /\ maxInt32 \in Nat
  /\ "" \notin DOMAIN Atoi
  /\ \A numeral \in DOMAIN Atoi : Atoi[numeral] \in Int

(* A variable set to nothing counts as set here, *)
getEnv(env, key, default) == IF key \in DOMAIN env THEN env[key] ELSE default

(* and not here (os.Getenv). *)
Getenv(env, key) == getEnv(env, key, "")

-----------------------------------------------------------------------------
(* SetDefaultOpts and installFlags *)

zeroOpts ==
  [OperatingSystem |-> "", NodeName |-> "", PodSyncWorkers |-> 0,
   ListenPort |-> 0, TaintKey |-> "", TaintEffect |-> "",
   DisableTaint |-> FALSE, Provider |-> "", KubeConfigPath |-> "",
   TraceExporters |-> {}, TraceSampleRate |-> "", StartupTimeout |-> FALSE]

(* The conversion wraps around: the integers of the model are narrower than  *)
(* those of the program, and do so at a bound of their own. *)
int32(p) == ((p + maxInt32 + 1) % (2 * (maxInt32 + 1))) - (maxInt32 + 1)

DefaultListenPort == 10250

(* Mutant: the number is converted before it is compared. *)
PortUncheckedIsRefused(env) ==
  LET port == Getenv(env, "KUBELET_PORT") IN
  port # "" /\ (port \notin DOMAIN Atoi \/ int32(Atoi[port]) > maxInt32)

(* SetDefaultOpts returns an error. *)
PortIsRefused(env) ==
  LET port == Getenv(env, "KUBELET_PORT") IN
  port # "" /\ (port \notin DOMAIN Atoi \/ Atoi[port] > maxInt32)

KubeletPort(env) ==
  LET port == Getenv(env, "KUBELET_PORT") IN
  IF port = "" THEN DefaultListenPort
  ELSE IF port \in DOMAIN Atoi THEN int32(Atoi[port]) ELSE 0

(* HOME stands for what go-homedir finds. *)
KubeConfig(env) ==
  LET path == Getenv(env, "KUBECONFIG") IN
  IF path = "" /\ Getenv(env, "HOME") # "" THEN "home" ELSE path

Defaults(env) ==
  [OperatingSystem |-> "linux",
   NodeName        |-> getEnv(env, "DEFAULT_NODE_NAME", "virtual-kubelet"),
   PodSyncWorkers  |-> 10,
   ListenPort      |-> KubeletPort(env),
   TaintKey        |-> "virtual-kubelet.io/provider",
   TaintEffect     |-> "NoSchedule",
   KubeConfigPath  |-> KubeConfig(env)]

(* What is set already is left alone, as is what comes after a port that is  *)
(* refused. *)
SetDefaultOpts(c, env) ==
  LET before == {"OperatingSystem", "NodeName", "PodSyncWorkers"}
      filled == IF PortIsRefused(env) THEN before ELSE DOMAIN Defaults(env)
  IN [field \in DOMAIN c |->
        IF field \in filled /\ c[field] = zeroOpts[field]
          THEN Defaults(env)[field] ELSE c[field]]

(* There is no flag for the port and for the effect of the taint. *)
Flags == DOMAIN zeroOpts \ {"ListenPort", "TaintEffect"}

(* Flags come after the defaults: what they set to nothing stays nothing. *)
ParseFlags(c, flags) ==
  [field \in DOMAIN c |->
     IF field \in DOMAIN flags THEN flags[field] ELSE c[field]]

-----------------------------------------------------------------------------
(* getTaint *)

TaintEffects == {"NoSchedule", "NoExecute", "PreferNoSchedule"}

(* A flag that clears the key brings the default back; a variable of the     *)
(* environment that is set to nothing does not.  The taint, as a set that is *)
(* empty when there is an error. *)
getTaint(c, env) ==
  LET orDefault(field) ==
        IF c[field] = "" THEN Defaults(env)[field] ELSE c[field]
  IN {taint \in {[Key    |-> getEnv(env, "VKUBELET_TAINT_KEY", orDefault("TaintKey")),
                  Value  |-> getEnv(env, "VKUBELET_TAINT_VALUE", c.Provider),
                  Effect |-> getEnv(env, "VKUBELET_TAINT_EFFECT",
                                    orDefault("TaintEffect"))]} :
        taint.Effect \in TaintEffects}

-----------------------------------------------------------------------------
(* setupTracing *)

JaegerIsConfigured(env) ==
  \E end \in {"JAEGER_COLLECTOR_ENDPOINT", "JAEGER_AGENT_ENDPOINT"} :
    Getenv(env, end) # ""

OcagentIsConfigured(env) ==
  /\ Getenv(env, "OCAGENT_ENDPOINT") # ""
  /\ Getenv(env, "OCAGENT_INSECURE")
       \in {"", "0", "no", "n", "off", "1", "yes", "y", "on"}

(* The registered exporters, and zpages, which reports nothing but a log     *)
(* line when its port is missing. *)
ExporterIsConfigured(exporter, env) ==
  \/ exporter = "zpages"
  \/ exporter = "jaeger" /\ JaegerIsConfigured(env)
  \/ exporter = "ocagent" /\ OcagentIsConfigured(env)

(* The sample rate is looked at only if there is an exporter.  A number out  *)
(* of range is not used, but the error made for it wraps nil and is nil. *)
TracingFails(c, env) ==
  /\ c.TraceExporters # {}
  /\ \/ \E exporter \in c.TraceExporters : ~ExporterIsConfigured(exporter, env)
     \/ c.TraceSampleRate \notin {"", "always", "never"} \cup DOMAIN Atoi
=============================================================================
