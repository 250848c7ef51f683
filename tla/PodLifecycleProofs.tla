-------------------------- MODULE PodLifecycleProofs --------------------------
(***************************************************************************)
(* What follows from PodLifecycle alone, for every set of pods, and so     *)
(* holds of whatever implements it.                                        *)
(***************************************************************************)
EXTENDS PodLifecycle, TLAPS

(* One call at a time: a pod is not given up while it is being created, and  *)
(* no creation begins afterwards.                                            *)
THEOREM GivenUpStaysUncreated == Spec => []GivenUpIsNotCreated
<1>1. Init => GivenUpIsNotCreated
  BY DEF Init, GivenUpIsNotCreated
<1>2. GivenUpIsNotCreated /\ [Next]_vars => GivenUpIsNotCreated'
  <2> SUFFICES ASSUME GivenUpIsNotCreated, [Next]_vars
               PROVE  GivenUpIsNotCreated'
    OBVIOUS
  <2> USE DEF GivenUpIsNotCreated
  <2>1. ASSUME NEW pod \in Uids,
               \/ Bind(pod) \/ RequestDelete(pod) \/ Vanish(pod) \/ Serve(pod)
               \/ EndCreate(pod) \/ EndDelete(pod) \/ ServeLate(pod)
               \/ Refuse(pod)
        PROVE  GivenUpIsNotCreated'
    BY <2>1 DEF Bind, RequestDelete, Vanish, Serve, EndCreate, EndDelete,
       ServeLate, Refuse, workVars
  <2>2. ASSUME NEW pod \in Uids, BeginCreate(pod)
        PROVE  GivenUpIsNotCreated'
    BY <2>2 DEF BeginCreate
  <2>3. ASSUME NEW pod \in Uids, GiveUp(pod)
        PROVE  GivenUpIsNotCreated'
    BY <2>3 DEF GiveUp, Idle
  <2>4. CASE Exit \/ Undeploy \/ UNCHANGED vars
    BY <2>4 DEF Exit, Undeploy, workVars, vars
  <2>5. QED
    BY <2>1, <2>2, <2>3, <2>4 DEF Next
<1>3. QED
  BY <1>1, <1>2, PTL DEF Spec

(* A service that is gone when its pod is given up does not come back, but   *)
(* for what a process that is gone has asked for.                            *)
THEOREM ServedNoMore == Spec => NotServedAgain
<1>1. GivenUpIsNotCreated /\ [Next]_vars =>
        [\A pod \in givenUp : pod \in served' => pod \in served \cup adrift]_vars
  <2> SUFFICES ASSUME GivenUpIsNotCreated, Next,
                      NEW pod \in givenUp, pod \in served'
               PROVE  pod \in served \cup adrift
    OBVIOUS
  <2>1. CASE \E other \in Uids : Serve(other)
    BY <2>1 DEF Serve, GivenUpIsNotCreated
  <2>2. CASE \E other \in Uids : ServeLate(other)
    BY <2>2 DEF ServeLate
  <2>3. CASE ~\E other \in Uids : Serve(other) \/ ServeLate(other)
    BY <2>3 DEF Next, Bind, RequestDelete, Vanish, BeginCreate, EndCreate,
         GiveUp, EndDelete, Refuse, Exit, Undeploy
  <2>4. QED
    BY <2>1, <2>2, <2>3
<1>2. QED
  BY <1>1, GivenUpStaysUncreated, PTL DEF Spec, NotServedAgain
=============================================================================
