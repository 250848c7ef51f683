---------------------------- MODULE MCPodsTracker ----------------------------
(* Small instances of PodsTracker: one pod name in one namespace, a provider  *)
(* that reports a pod as running.                                            *)
EXTENDS PodsTracker

Report(phase, containers) ==
  [phase |-> phase, reason |-> "", conditions |-> {}, containers |-> containers]

RunningOnly == {Report("Running", {"running"})}
=============================================================================
