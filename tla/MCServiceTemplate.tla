--------------------------- MODULE MCServiceTemplate ---------------------------
(* Instances of ServiceTemplate: limits that are missing, whole, and just    *)
(* above and below a core or a Mi.                                           *)
EXTENDS ServiceTemplate

Sample(image, cpu, memory) ==
  [Name |-> "main", Image |-> image, Ports |-> <<[Port |-> 8080, Name |-> ""]>>,
   Env |-> <<[Name |-> "hello", Value |-> "world"]>>, cpu |-> cpu, memory |-> memory]

SampleContainers ==
  {Sample("hello", cpu, 512 * Mi) : cpu \in {0, 1, 500, 1000, 1001}}
    \cup {Sample("nginx", 2000, memory) :
            memory \in {0, Mi - 1, Mi, Mi + 1, 512 * Mi + 1}}
=============================================================================
