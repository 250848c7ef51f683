---------------------------- MODULE ServiceTemplate ----------------------------
(***************************************************************************)
(* What a pod becomes on its way through Cloud Run: the template that      *)
(* CreateService makes of its containers (cloudRunClient.go), and the      *)
(* container statuses that GetPodStatus makes of the template of the       *)
(* service it finds (cloudrun.go).  CloudRunKubelet says when the two      *)
(* happen; this module says what they carry.                               *)
(*                                                                         *)
(* A CPU limit is in thousandths of a core, a memory limit in bytes; 0 is  *)
(* a limit that is not set.                                                *)
(***************************************************************************)
EXTENDS Integers, Sequences

CONSTANTS
  Containers,     \* the containers considered
  MaxContainers   \* bound: containers of a pod

ASSUME ServiceTemplateAssumption ==
  /\ \A c \in Containers : c.cpu \in Nat /\ c.memory \in Nat
  /\ MaxContainers \in Nat

VARIABLES
  spec,        \* the containers of the pod
  pc,          \* "translate", "deployed", "reported"
  containers,  \* serviceContainers
  statuses     \* the container statuses GetPodStatus returned last

vars == <<spec, pc, containers, statuses>>

Specs == UNION {[1..n -> Containers] : n \in 1..MaxContainers}

Init ==
  /\ spec \in Specs
  /\ pc = "translate"
  /\ containers = <<>>
  /\ statuses = <<>>

-----------------------------------------------------------------------------
(* CreateService *)

Mi == 1048576

(* Mutant: parts of a core are cut off. *)
wholeCores(milli) == milli \div 1000

(* Quantity.Value rounds up. *)
Cores(milli) == (milli + 999) \div 1000

(* Mutant: parts of a Mi count as one. *)
startedMi(bytes) == (bytes + Mi - 1) \div Mi

(* The division of the code rounds down. *)
MiOf(bytes) == bytes \div Mi

(* The name of the container, its command and its volumes are not passed     *)
(* on, and of a variable only a value that is written out. *)
containerOf(c) ==
  [Name   |-> "",
   Image  |-> c.Image,
   Ports  |-> c.Ports,
   Env    |-> [i \in DOMAIN c.Env |-> [Name  |-> c.Env[i].Name,
                                       Value |-> c.Env[i].Value]],
   cpu    |-> Cores(c.cpu),
   memory |-> MiOf(c.memory)]

(* One iteration of the loop. *)
Translate ==
  /\ pc = "translate"
  /\ Len(containers) < Len(spec)
  /\ containers' = Append(containers, containerOf(spec[Len(containers) + 1]))
  /\ UNCHANGED <<spec, pc, statuses>>

Deploy ==
  /\ pc = "translate"
  /\ Len(containers) = Len(spec)
  /\ pc' = "deployed"
  /\ UNCHANGED <<spec, containers, statuses>>

-----------------------------------------------------------------------------
(* GetPodStatus, as often as the tracker polls *)

statusOf(container) ==
  [Name |-> container.Name, Image |-> container.Image, Ready |-> TRUE]

(* Mutant: the list is made with its length and appended to. *)
ReportBehind ==
  /\ pc \in {"deployed", "reported"}
  /\ statuses' = [i \in 1..2 * Len(containers) |->
                    IF i <= Len(containers)
                      THEN [Name |-> "", Image |-> "", Ready |-> FALSE]
                      ELSE statusOf(containers[i - Len(containers)])]
  /\ pc' = "reported"
  /\ UNCHANGED <<spec, containers>>

Report ==
  /\ pc \in {"deployed", "reported"}
  /\ statuses' = [i \in DOMAIN containers |-> statusOf(containers[i])]
  /\ pc' = "reported"
  /\ UNCHANGED <<spec, containers>>

Next == Translate \/ Deploy \/ Report

Spec == Init /\ [][Next]_vars

-----------------------------------------------------------------------------
(* Properties *)

(* A container gets the cores it was limited to, and less than one more: a   *)
(* part of a core counts as a whole one, and no limit that is set is lost.   *)
CpuIsCovered ==
  \A i \in DOMAIN containers :
    LET granted == 1000 * containers[i].cpu
    IN spec[i].cpu <= granted /\ granted < spec[i].cpu + 1000

(* It never gets more memory than its limit, and less than a Mi below it;    *)
(* so a limit below 1Mi becomes none.                                        *)
MemoryIsWithinLimit ==
  \A i \in DOMAIN containers :
    LET granted == Mi * containers[i].memory
    IN granted <= spec[i].memory /\ spec[i].memory < granted + Mi

(* The statuses of a pod are those of its containers, one each and in their  *)
(* order: without the names, the order is all there is to tell them apart.   *)
StatusesFitContainers ==
  pc = "reported" =>
    /\ Len(statuses) = Len(spec)
    /\ \A i \in DOMAIN spec : statuses[i].Image = spec[i].Image
=============================================================================
