------------------------ MODULE ServiceTemplateProofs ------------------------
(***************************************************************************)
(* What ServiceTemplate says of the containers of a pod, for every set of  *)
(* containers and every length of a pod.                                   *)
(***************************************************************************)
EXTENDS ServiceTemplate, SequenceTheorems, TLAPS

(* The rounding of the two limits: up to a whole core, down to a whole Mi.   *)

LEMMA CoresRoundUp ==
  ASSUME NEW milli \in Nat
  PROVE  /\ Cores(milli) \in Nat
         /\ milli <= 1000 * Cores(milli)
         /\ 1000 * Cores(milli) < milli + 1000
BY DEF Cores

LEMMA MiOfRoundsDown ==
  ASSUME NEW bytes \in Nat
  PROVE  /\ MiOf(bytes) \in Nat
         /\ Mi * MiOf(bytes) <= bytes
         /\ bytes < Mi * MiOf(bytes) + Mi
BY DEF MiOf, Mi

LEMMA FieldsOfContainer ==
  ASSUME NEW c
  PROVE  /\ containerOf(c).Image = c.Image
         /\ containerOf(c).cpu = Cores(c.cpu)
         /\ containerOf(c).memory = MiOf(c.memory)
BY DEF containerOf

-----------------------------------------------------------------------------
(* The inductive invariant: the containers translated so far are those of    *)
(* the pod's first ones, all of them once it is deployed, and what was       *)
(* reported last is made of them.                                            *)

Translated ==
  /\ pc \in {"translate", "deployed", "reported"}
  /\ spec \in Seq(Containers)
  /\ containers \in Seq({containerOf(c) : c \in Containers})
  /\ Len(containers) <= Len(spec)
  /\ \A i \in 1..Len(containers) : containers[i] = containerOf(spec[i])
  /\ pc # "translate" => Len(containers) = Len(spec)
  /\ pc = "reported" =>
       statuses = [i \in 1..Len(containers) |-> statusOf(containers[i])]

LEMMA InitTranslated == Init => Translated
<1> SUFFICES ASSUME Init PROVE Translated
  OBVIOUS
<1>1. PICK n \in 1..MaxContainers : spec \in [1..n -> Containers]
  BY DEF Init, Specs
<1>2. n \in Nat
  BY ServiceTemplateAssumption
<1>3. spec \in Seq(Containers) /\ Len(spec) = n
  BY <1>1, <1>2
<1>4. QED
  BY <1>3, EmptySeq DEF Init, Translated

LEMMA TranslateTranslated == Translated /\ Translate => Translated'
<1> SUFFICES ASSUME Translated, Translate PROVE Translated'
  OBVIOUS
<1> DEFINE n == Len(containers)
           next == containerOf(spec[n + 1])
           S == {containerOf(c) : c \in Containers}
<1>1. /\ containers \in Seq(S) /\ spec \in Seq(Containers)
      /\ n \in Nat /\ Len(spec) \in Nat /\ n < Len(spec)
  BY LenProperties DEF Translated, Translate
<1>2. spec[n + 1] \in Containers
  BY <1>1, ElementOfSeq
<1>3. next \in S
  BY <1>2
<1>4. /\ containers' = Append(containers, next)
      /\ pc = "translate"
      /\ UNCHANGED <<spec, pc>>
  BY DEF Translate
<1> HIDE DEF next, S
<1>5. /\ containers' \in Seq(S)
      /\ Len(containers') = n + 1
      /\ \A i \in 1..n : containers'[i] = containers[i]
      /\ containers'[n + 1] = next
  BY <1>1, <1>3, <1>4, AppendProperties
<1>6. \A i \in 1..Len(containers') : containers'[i] = containerOf(spec[i])
  BY <1>1, <1>5 DEF Translated, next
<1>7. QED
  BY <1>1, <1>4, <1>5, <1>6 DEF Translated, S

LEMMA StepTranslated == Translated /\ [Next]_vars => Translated'
<1> SUFFICES ASSUME Translated, [Next]_vars PROVE Translated'
  OBVIOUS
<1>1. CASE Translate
  BY <1>1, TranslateTranslated
<1>2. CASE Deploy
  BY <1>2 DEF Deploy, Translated
<1>3. CASE Report
  <2>1. DOMAIN containers = 1..Len(containers)
    BY LenProperties DEF Translated
  <2>2. QED
    BY <1>3, <2>1 DEF Report, Translated
<1>4. CASE UNCHANGED vars
  BY <1>4 DEF vars, Translated
<1>5. QED
  BY <1>1, <1>2, <1>3, <1>4 DEF Next

LEMMA TranslatedInvariant == Spec => []Translated
<1>1. QED
  BY InitTranslated, StepTranslated, PTL DEF Spec

LEMMA TranslatedContainer ==
  ASSUME Translated, NEW i \in DOMAIN containers
  PROVE  spec[i] \in Containers /\ containers[i] = containerOf(spec[i])
<1>1. i \in 1..Len(containers)
  BY LenProperties DEF Translated
<1>2. i \in 1..Len(spec)
  BY <1>1, LenProperties DEF Translated
<1>3. QED
  BY <1>1, <1>2, ElementOfSeq DEF Translated

-----------------------------------------------------------------------------
(* No limit of a core is lost or exceeded by a whole one, however many       *)
(* containers a pod has and whatever their limits are.                       *)
THEOREM CpuCovered == Spec => []CpuIsCovered
<1>1. Translated => CpuIsCovered
  <2> SUFFICES ASSUME Translated, NEW i \in DOMAIN containers
               PROVE  /\ spec[i].cpu <= 1000 * containers[i].cpu
                      /\ 1000 * containers[i].cpu < spec[i].cpu + 1000
    BY DEF CpuIsCovered
  <2>1. spec[i].cpu \in Nat /\ containers[i].cpu = Cores(spec[i].cpu)
    <3>1. spec[i] \in Containers /\ containers[i] = containerOf(spec[i])
      BY TranslatedContainer
    <3>2. QED
      BY <3>1, FieldsOfContainer, ServiceTemplateAssumption
  <2>2. QED
    BY <2>1, CoresRoundUp
<1>2. QED
  BY <1>1, TranslatedInvariant, PTL

(* No container gets more memory than its limit, or a Mi less.               *)
THEOREM MemoryWithinLimit == Spec => []MemoryIsWithinLimit
<1>1. Translated => MemoryIsWithinLimit
  <2> SUFFICES ASSUME Translated, NEW i \in DOMAIN containers
               PROVE  /\ Mi * containers[i].memory <= spec[i].memory
                      /\ spec[i].memory < Mi * containers[i].memory + Mi
    BY DEF MemoryIsWithinLimit
  <2>1. spec[i].memory \in Nat /\ containers[i].memory = MiOf(spec[i].memory)
    <3>1. spec[i] \in Containers /\ containers[i] = containerOf(spec[i])
      BY TranslatedContainer
    <3>2. QED
      BY <3>1, FieldsOfContainer, ServiceTemplateAssumption
  <2>2. QED
    BY <2>1, MiOfRoundsDown
<1>2. QED
  BY <1>1, TranslatedInvariant, PTL

(* As often as the status is asked for, it has one entry for each container  *)
(* of the pod, in the pod's order.                                           *)
THEOREM StatusesFit == Spec => []StatusesFitContainers
<1>1. Translated => StatusesFitContainers
  <2> SUFFICES ASSUME Translated, pc = "reported"
               PROVE  /\ Len(statuses) = Len(spec)
                      /\ \A i \in DOMAIN spec : statuses[i].Image = spec[i].Image
    BY DEF StatusesFitContainers
  <2>1. /\ Len(spec) \in Nat /\ Len(containers) = Len(spec)
        /\ DOMAIN spec = 1..Len(spec) /\ DOMAIN containers = 1..Len(spec)
    BY LenProperties DEF Translated
  <2>2. statuses = [i \in 1..Len(spec) |-> statusOf(containers[i])]
    BY <2>1 DEF Translated
  <2>3. Len(statuses) = Len(spec)
    BY <2>1, <2>2
  <2>4. ASSUME NEW i \in DOMAIN spec PROVE statuses[i].Image = spec[i].Image
    <3>1. containers[i] = containerOf(spec[i])
      BY <2>1, TranslatedContainer
    <3>2. QED
      BY <2>1, <2>2, <3>1, FieldsOfContainer DEF statusOf
  <2>5. QED
    BY <2>3, <2>4
<1>2. QED
  BY <1>1, TranslatedInvariant, PTL
=============================================================================
