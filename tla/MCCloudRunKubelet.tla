-------------------------- MODULE MCCloudRunKubelet --------------------------
(* Small instances of CloudRunKubelet: one pod name in one namespace, and     *)
(* one value of the random suffix. *)
EXTENDS CloudRunKubelet

OwnPrefix == [key \in Keys |-> key]
=============================================================================
