----------------------------- MODULE Drain_proofs -----------------------------
(***************************************************************************)
(* Theorems about Drain, for any pods, any number of replacements, retries *)
(* and rounds: type correctness, and the three safety properties.          *)
(***************************************************************************)
EXTENDS Drain, TLAPS

-----------------------------------------------------------------------------
(* Types.                                                                  *)

Drains == [step : {"idle", "cordon", "list", "evict", "wait", "verify"},
           todo : SUBSET Pods, attempt : 0..MaxEvictionRetries,
           evicted : SUBSET (Pods \X (0..Replacements))]

Terminations == [step : {"idle", "cordon", "list", "evict", "wait", "delete", "done"},
                 todo : SUBSET Pods, listed : SUBSET (Pods \X (0..Replacements)),
                 excused : BOOLEAN]

NodeType == /\ node \in {"schedulable", "cordoned", "absent"}
            /\ copy \in [unschedulable : BOOLEAN, latest : BOOLEAN]

PodType == /\ pod \in [Pods -> States] /\ seen \in [Pods -> States]
           /\ uid \in [Pods -> 0..Replacements]

DrainType == drain \in Drains /\ result \in {"none", "success", "error"}

LEMMA TypeParts ==
  TypeOK <=> /\ NodeType /\ PodType /\ DrainType
             /\ termination \in Terminations /\ rounds \in 0..Rounds
BY DEF TypeOK, NodeType, PodType, DrainType, Drains, Terminations

LEMMA TypePartsNext ==
  TypeOK' <=> /\ NodeType' /\ PodType' /\ DrainType'
              /\ termination' \in Terminations /\ rounds' \in 0..Rounds
BY DEF TypeOK, NodeType, PodType, DrainType, Drains, Terminations

LEMMA RestingType == Resting \in Drains /\ NotDeleted \in Terminations
BY ConstantsAssumption DEF Resting, NotDeleted, Drains, Terminations

LEMMA InitType == Init => TypeOK
<1> SUFFICES ASSUME Init PROVE TypeOK
  OBVIOUS
<1>1. NodeType /\ DrainType /\ termination \in Terminations
  BY RestingType DEF Init, NodeType, DrainType
<1>2. PodType
  BY ConstantsAssumption DEF Init, PodType, States, OnNode
<1>3. rounds \in 0..Rounds
  BY ConstantsAssumption DEF Init
<1> QED
  BY <1>1, <1>2, <1>3, TypeParts

LEMMA WriteNodeType ==
  ASSUME NodeType, NEW state \in {"schedulable", "cordoned", "absent"}, WriteNode(state)
  PROVE  NodeType'
BY DEF NodeType, WriteNode

LEMMA UpdateNodeType ==
  ASSUME NodeType, NEW state \in {"schedulable", "cordoned", "absent"},
         UpdateNode(state) \/ uncordonNode
  PROVE  NodeType'
BY WriteNodeType DEF NodeType, UpdateNode, uncordonNode

LEMMA UncordonType == ASSUME NodeType, Uncordon PROVE NodeType'
BY WriteNodeType DEF NodeType, Uncordon

LEMMA EvictedType == ASSUME PodType, NEW p \in Pods PROVE Evicted(p) \in [Pods -> States]
BY DEF Evicted, PodType, States, OnNode

LEMMA ReturnType ==
  ASSUME DrainType, NEW value \in {"success", "error"}, Return(value)
  PROVE  DrainType'
BY RestingType DEF Return, Rest, DrainType, Drains

LEMMA GiveUpType ==
  ASSUME termination \in Terminations, GiveUp PROVE termination' \in Terminations
BY DEF GiveUp, Terminations

LEMMA SurroundingsType ==
  ASSUME TypeOK,
         Heartbeat \/ InformPods \/ \E p \in Pods : Bind(p) \/ Exit(p) \/ Replace(p)
  PROVE  TypeOK'
<1>1. CASE Heartbeat
  BY <1>1, TypeParts, TypePartsNext DEF Heartbeat, NodeType, PodType, DrainType, cluster
<1>2. CASE InformPods
  BY <1>2, TypeParts, TypePartsNext DEF InformPods, NodeType, PodType, DrainType, manager
<1>3. ASSUME NEW p \in Pods, Bind(p) \/ Exit(p)
      PROVE  TypeOK'
  <2>1. PodType'
    BY <1>3, TypeParts, TypePartsNext DEF Bind, Exit, PodType, States, OnNode
  <2> QED
    BY <1>3, <2>1, TypeParts, TypePartsNext DEF Bind, Exit, NodeType, DrainType, manager
<1>4. ASSUME NEW p \in Pods, Replace(p)
      PROVE  TypeOK'
  <2>1. uid[p] + 1 \in 0..Replacements
    BY <1>4, TypeParts, ConstantsAssumption DEF Replace, PodType
  <2>2. PodType'
    BY <1>4, <2>1, TypeParts, TypePartsNext DEF Replace, PodType, States, OnNode
  <2> QED
    BY <1>4, <2>2, TypeParts, TypePartsNext DEF Replace, NodeType, DrainType, manager
<1> QED
  BY <1>1, <1>2, <1>3, <1>4

LEMMA EvictPodType ==
  ASSUME TypeOK, NEW p \in Pods, evictPodWithRetry(p) PROVE TypeOK'
<1>1. PodType'
  BY EvictedType, TypeParts, TypePartsNext DEF evictPodWithRetry, PodType
<1>2. NodeType'
  BY UpdateNodeType, TypeParts, TypePartsNext DEF evictPodWithRetry, NodeType
<1>3. DrainType'
  <2>1. CASE drain' = [drain EXCEPT !.todo = @ \ {p}, !.attempt = 0,
                         !.step = IF drain.todo = {p} THEN "wait" ELSE @]
             /\ UNCHANGED result
    <3>1. 0 \in 0..MaxEvictionRetries
      BY ConstantsAssumption
    <3> QED
      BY <2>1, <3>1, TypeParts DEF DrainType, Drains
  <2>2. CASE RetriesLeft /\ drain' = [drain EXCEPT !.attempt = @ + 1] /\ UNCHANGED result
    <3>1. drain.attempt + 1 \in 0..MaxEvictionRetries
      BY <2>2, TypeParts, ConstantsAssumption DEF RetriesLeft, DrainType, Drains
    <3> QED
      BY <2>2, <3>1, TypeParts, TypePartsNext DEF DrainType, Drains
  <2>3. CASE Return("error")
    BY <2>3, ReturnType, TypeParts
  <2> QED
    BY <2>1, <2>2, <2>3 DEF evictPodWithRetry
<1> QED
  BY <1>1, <1>2, <1>3, TypeParts, TypePartsNext DEF evictPodWithRetry

LEMMA ManagerType ==
  ASSUME TypeOK,
         BeginDrain \/ cordonNode \/ ListPods \/ DrainDeadline \/ waitForPodTermination
           \/ VerifyMigration \/ Restart
  PROVE  TypeOK'
<1> USE TypeParts, TypePartsNext
<1>1. CASE BeginDrain
  <2>1. rounds' \in 0..Rounds
    BY <1>1, ConstantsAssumption DEF BeginDrain
  <2>2. DrainType' /\ NodeType'
    BY <1>1 DEF BeginDrain, DrainType, Drains, NodeType, cluster
  <2> QED
    BY <1>1, <2>1, <2>2 DEF BeginDrain, PodType, cluster
<1>2. CASE cordonNode
  <2>1. NodeType'
    BY <1>2, WriteNodeType, UpdateNodeType DEF cordonNode, NodeType
  <2>2. DrainType'
    BY <1>2, ReturnType DEF cordonNode, DrainType, Drains
  <2> QED
    BY <1>2, <2>1, <2>2 DEF cordonNode, PodType
<1>3. CASE ListPods
  <2> DEFINE podsToEvict == filterPodsForEviction({p \in Pods : pod[p] \in OnNode})
  <2>1. podsToEvict \subseteq Pods
        /\ {<<p, uid[p]>> : p \in podsToEvict} \subseteq Pods \X (0..Replacements)
    BY DEF filterPodsForEviction, PodType
  <2>2. node \in {"schedulable", "cordoned", "absent"}
    BY DEF NodeType
  <2>3. NodeType'
    BY <1>3, <2>2, UpdateNodeType DEF ListPods, NodeType
  <2>4. DrainType'
    <3>1. CASE drain' = [drain EXCEPT !.step = "evict", !.todo = podsToEvict,
                           !.evicted = {<<p, uid[p]>> : p \in podsToEvict}]
               /\ UNCHANGED result
      BY <2>1, <3>1 DEF DrainType, Drains
    <3>2. CASE Return("error") \/ Return("success")
      BY <3>2, ReturnType
    <3> QED
      BY <1>3, <3>1, <3>2 DEF ListPods
  <2> QED
    BY <1>3, <2>3, <2>4 DEF ListPods, PodType
<1>4. CASE DrainDeadline \/ waitForPodTermination \/ VerifyMigration
  <2>1. node \in {"schedulable", "cordoned", "absent"}
    BY DEF NodeType
  <2>2. NodeType'
    BY <1>4, <2>1, UpdateNodeType
       DEF DrainDeadline, waitForPodTermination, VerifyMigration, NodeType
  <2>3. DrainType'
    BY <1>4, ReturnType
       DEF DrainDeadline, waitForPodTermination, VerifyMigration, DrainType, Drains
  <2> QED
    BY <1>4, <2>2, <2>3
       DEF DrainDeadline, waitForPodTermination, VerifyMigration, PodType
<1>5. CASE Restart
  <2>1. rounds' \in 0..Rounds
    BY <1>5, ConstantsAssumption DEF Restart
  <2>2. DrainType'
    BY <1>5, RestingType DEF Restart, Rest, DrainType, Drains
  <2>3. termination' \in Terminations
    BY <1>5, RestingType DEF Restart, Terminations
  <2> QED
    BY <1>5, <2>1, <2>2, <2>3 DEF Restart, NodeType, PodType
<1> QED
  BY <1>1, <1>2, <1>3, <1>4, <1>5

LEMMA TerminatorType ==
  ASSUME TypeOK,
         DeleteVPSieNode \/ Cordon \/ List \/ waitForPodsDeleted \/ DeleteNode
           \/ \E p \in Pods : Evict(p)
  PROVE  TypeOK'
<1> USE TypeParts, TypePartsNext
<1>1. CASE DeleteVPSieNode
  BY <1>1
     DEF DeleteVPSieNode, Terminations, NodeType, PodType, DrainType, cluster, manager
<1>2. CASE Cordon
  <2>1. NodeType'
    BY <1>2, WriteNodeType DEF Cordon, NodeType
  <2>2. termination' \in Terminations
    BY <1>2, GiveUpType DEF Cordon, Terminations
  <2> QED
    BY <1>2, <2>1, <2>2 DEF Cordon, PodType, DrainType
<1>3. CASE List
  <2> DEFINE podsToEvict == filterPodsToEvict({p \in Pods : seen[p] \in OnNode})
  <2>1. podsToEvict \subseteq Pods
        /\ {<<p, uid[p]>> : p \in podsToEvict} \subseteq Pods \X (0..Replacements)
    BY DEF filterPodsToEvict, PodType
  <2>2. NodeType'
    BY <1>3, UncordonType DEF List, NodeType
  <2>3. termination' \in Terminations
    <3>1. CASE termination' = [termination EXCEPT
                 !.step = IF podsToEvict = {} THEN "delete" ELSE "evict",
                 !.todo = podsToEvict, !.listed = {<<p, uid[p]>> : p \in podsToEvict}]
      BY <2>1, <3>1 DEF Terminations
    <3>2. CASE GiveUp
      BY <3>2, GiveUpType
    <3> QED
      BY <1>3, <3>1, <3>2 DEF List
  <2> QED
    BY <1>3, <2>2, <2>3 DEF List, PodType, DrainType
<1>4. CASE waitForPodsDeleted
  <2>1. NodeType'
    BY <1>4, UncordonType DEF waitForPodsDeleted, NodeType
  <2>2. termination' \in Terminations
    BY <1>4, GiveUpType DEF waitForPodsDeleted, Terminations
  <2> QED
    BY <1>4, <2>1, <2>2 DEF waitForPodsDeleted, PodType, DrainType
<1>5. CASE DeleteNode
  <2>1. NodeType'
    BY <1>5, WriteNodeType DEF DeleteNode, NodeType
  <2> QED
    BY <1>5, <2>1 DEF DeleteNode, Terminations, PodType, DrainType
<1>6. ASSUME NEW p \in Pods, Evict(p)
      PROVE  TypeOK'
  <2>1. PodType'
    BY <1>6, EvictedType DEF Evict, PodType
  <2>2. termination' \in Terminations
    BY <1>6 DEF Evict, Terminations
  <2> QED
    BY <1>6, <2>1, <2>2 DEF Evict, NodeType, DrainType, manager
<1> QED
  BY <1>1, <1>2, <1>3, <1>4, <1>5, <1>6

LEMMA NextType == TypeOK /\ [Next]_vars => TypeOK'
<1> SUFFICES ASSUME TypeOK, [Next]_vars PROVE TypeOK'
  OBVIOUS
<1>1. CASE UNCHANGED vars
  BY <1>1 DEF vars, TypeOK
<1> QED
  BY <1>1, SurroundingsType, EvictPodType, ManagerType, TerminatorType DEF Next

\* Whatever the two procedures, the scheduler, the kubelet and failovers do: the pods,
\* the retries of an eviction and the rounds stay within their types.
THEOREM TypeCorrect == Spec => []TypeOK
BY InitType, NextType, PTL DEF Spec

-----------------------------------------------------------------------------
(* The manager's drain, until the VPSieNode is deleted.                    *)

\* Nothing schedules a Node again that the manager has cordoned: its rollback looks at
\* a copy in which the Node is schedulable.
CordonKept ==
  /\ copy.unschedulable = FALSE
  /\ termination.step = "idle" =>
       /\ node # "absent"
       /\ drain.step \in {"list", "evict", "wait", "verify"} => node = "cordoned"
       /\ result = "success" => node = "cordoned"

ManagerInv == TypeOK /\ CordonKept /\ DrainedStaysEmpty

LEMMA InitManagerInv == Init => ManagerInv
BY InitType DEF Init, ManagerInv, CordonKept, DrainedStaysEmpty, Resting, NotDeleted

LEMMA EvictedLeaves ==
  ASSUME TypeOK, NEW p \in Pods, pod' \in {pod, Evicted(p)}
  PROVE  \A q \in Pods : pod'[q] \in OnNode => pod[q] \in OnNode
BY TypeParts DEF Evicted, PodType, OnNode

\* What CordonKept and DrainedStaysEmpty say when an action of the manager leaves the
\* Node as it is.
LEMMA ManagerStep ==
  ASSUME ManagerInv,
         UNCHANGED <<termination, node>>, copy'.unschedulable = FALSE,
         termination.step = "idle" =>
           /\ drain'.step \in {"list", "evict", "wait", "verify"} \/ drain'.evicted # {}
                \/ result' = "success"
              => node = "cordoned"
           /\ result' = "success" => \A p \in Pods \ DaemonPods : pod'[p] \notin OnNode
  PROVE  CordonKept' /\ DrainedStaysEmpty'
BY DEF ManagerInv, CordonKept, DrainedStaysEmpty

LEMMA UpdateKeepsNode ==
  ASSUME ManagerInv, UpdateNode(node) \/ uncordonNode
  PROVE  UNCHANGED node /\ copy'.unschedulable = FALSE
<1>1. copy.unschedulable = FALSE /\ copy \in [unschedulable : BOOLEAN, latest : BOOLEAN]
  BY TypeParts DEF ManagerInv, CordonKept, NodeType
<1> QED
  BY <1>1 DEF UpdateNode, uncordonNode, WriteNode

LEMMA CordonUpdate ==
  ASSUME ManagerInv, UpdateNode("cordoned") \/ WriteNode("cordoned")
  PROVE  node' \in {node, "cordoned"} /\ copy'.unschedulable = FALSE
<1>1. copy.unschedulable = FALSE /\ copy \in [unschedulable : BOOLEAN, latest : BOOLEAN]
  BY TypeParts DEF ManagerInv, CordonKept, NodeType
<1> QED
  BY <1>1 DEF UpdateNode, WriteNode

LEMMA Returned ==
  ASSUME TypeOK, NEW value, Return(value)
  PROVE  drain'.step = "idle" /\ drain'.evicted = drain.evicted /\ result' = value
BY DEF Return, Rest, Resting

LEMMA CordonNodeStep ==
  ASSUME ManagerInv, cordonNode PROVE CordonKept' /\ DrainedStaysEmpty'
<1>1. UNCHANGED <<pod, termination>>
  BY DEF cordonNode
<1>2. CASE /\ WriteNode("cordoned") /\ drain' = [drain EXCEPT !.step = "list"]
           /\ UNCHANGED result
  BY <1>1, <1>2, CordonUpdate DEF ManagerInv, CordonKept, DrainedStaysEmpty, WriteNode
<1>3. CASE UpdateNode("cordoned") /\ Return("error")
  <2>1. drain'.step = "idle" /\ drain'.evicted = drain.evicted /\ result' = "error"
    BY <1>3, Returned DEF ManagerInv
  <2>2. node' \in {node, "cordoned"} /\ copy'.unschedulable = FALSE
    BY <1>3, CordonUpdate
  <2> QED
    BY <1>1, <2>1, <2>2 DEF ManagerInv, CordonKept, DrainedStaysEmpty
<1>4. ~ copy.unschedulable
  BY DEF ManagerInv, CordonKept
<1> QED
  BY <1>2, <1>3, <1>4 DEF cordonNode

LEMMA ListPodsStep ==
  ASSUME ManagerInv, ListPods PROVE CordonKept' /\ DrainedStaysEmpty'
<1> DEFINE podsToEvict == filterPodsForEviction({p \in Pods : pod[p] \in OnNode})
<1>1. UNCHANGED <<pod, termination>> /\ TypeOK
  BY DEF ListPods, ManagerInv
<1>2. termination.step = "idle" => node = "cordoned"
  BY DEF ListPods, ManagerInv, CordonKept
<1>3. UNCHANGED node /\ copy'.unschedulable = FALSE
  BY UpdateKeepsNode DEF ListPods, ManagerInv, CordonKept
<1>4. termination.step = "idle" /\ result' = "success"
        => \A p \in Pods \ DaemonPods : pod'[p] \notin OnNode
  <2>1. CASE Return("error")
    BY <1>1, <2>1, Returned
  <2>2. CASE podsToEvict = {}
    BY <1>1, <2>2 DEF filterPodsForEviction
  <2>3. CASE UNCHANGED result /\ termination.step = "idle"
    BY <1>1, <2>3 DEF ManagerInv, DrainedStaysEmpty
  <2>4. CASE termination.step # "idle"
    BY <2>4
  <2> QED
    BY <2>1, <2>2, <2>3, <2>4 DEF ListPods
<1> QED
  BY <1>1, <1>2, <1>3, <1>4, ManagerStep

LEMMA EvictStep ==
  ASSUME ManagerInv, NEW p \in Pods, evictPodWithRetry(p)
  PROVE  CordonKept' /\ DrainedStaysEmpty'
<1>1. UNCHANGED termination /\ TypeOK /\ pod' \in {pod, Evicted(p)}
  BY DEF evictPodWithRetry, ManagerInv
<1>2. termination.step = "idle" => node = "cordoned"
  BY DEF evictPodWithRetry, ManagerInv, CordonKept
<1>3. UNCHANGED node /\ copy'.unschedulable = FALSE
  BY UpdateKeepsNode DEF evictPodWithRetry, ManagerInv, CordonKept
<1>4. result' \in {result, "error"}
  BY <1>1, Returned DEF evictPodWithRetry
<1>5. termination.step = "idle" /\ result' = "success"
        => \A q \in Pods \ DaemonPods : pod'[q] \notin OnNode
  BY <1>1, <1>4, EvictedLeaves DEF ManagerInv, DrainedStaysEmpty
<1> QED
  BY <1>1, <1>2, <1>3, <1>5, ManagerStep

LEMMA DrainEndsStep ==
  ASSUME ManagerInv, DrainDeadline \/ waitForPodTermination \/ VerifyMigration
  PROVE  CordonKept' /\ DrainedStaysEmpty'
<1>1. UNCHANGED <<pod, termination>> /\ TypeOK
  BY DEF DrainDeadline, waitForPodTermination, VerifyMigration, ManagerInv
<1>2. termination.step = "idle" => node = "cordoned"
  BY DEF DrainDeadline, waitForPodTermination, VerifyMigration, ManagerInv, CordonKept
<1>3. UNCHANGED node /\ copy'.unschedulable = FALSE
  BY UpdateKeepsNode
     DEF DrainDeadline, waitForPodTermination, VerifyMigration, ManagerInv, CordonKept
<1>4. termination.step = "idle" /\ result' = "success"
        => \A q \in Pods \ DaemonPods : pod'[q] \notin OnNode
  <2>1. CASE Return("error")
    BY <1>1, <2>1, Returned
  <2>2. CASE UNCHANGED result
    BY <1>1, <2>2 DEF ManagerInv, DrainedStaysEmpty
  <2>3. CASE filterPodsForEviction({p \in Pods : pod[p] \in OnNode}) = {}
    BY <1>1, <2>3 DEF filterPodsForEviction
  <2> QED
    BY <2>1, <2>2, <2>3 DEF DrainDeadline, waitForPodTermination, VerifyMigration
<1> QED
  BY <1>1, <1>2, <1>3, <1>4, ManagerStep

LEMMA ManagerInvKept == ManagerInv /\ [Next]_vars => ManagerInv'
<1> SUFFICES ASSUME ManagerInv, [Next]_vars PROVE CordonKept' /\ DrainedStaysEmpty'
  BY NextType DEF ManagerInv
<1>1. /\ TypeOK /\ NodeType /\ PodType /\ DrainType /\ termination \in Terminations
  BY TypeParts DEF ManagerInv
<1>2. CASE UNCHANGED vars
  BY <1>2 DEF vars, ManagerInv, CordonKept, DrainedStaysEmpty
<1>3. CASE Heartbeat \/ InformPods
  BY <1>1, <1>3 DEF Heartbeat, InformPods, cluster, manager, NodeType, ManagerInv,
                    CordonKept, DrainedStaysEmpty
<1>4. ASSUME NEW p \in Pods, Bind(p)
      PROVE  CordonKept' /\ DrainedStaysEmpty'
  BY <1>1, <1>4
     DEF Bind, manager, PodType, OnNode, ManagerInv, CordonKept, DrainedStaysEmpty
<1>5. ASSUME NEW p \in Pods, Exit(p) \/ Replace(p)
      PROVE  CordonKept' /\ DrainedStaysEmpty'
  BY <1>1, <1>5 DEF Exit, Replace, manager, PodType, OnNode, ManagerInv, CordonKept,
                    DrainedStaysEmpty
<1>6. CASE BeginDrain
  BY <1>1, <1>6 DEF BeginDrain, cluster, DrainType, Drains, ManagerInv, CordonKept,
                    DrainedStaysEmpty
<1>7. CASE Restart
  BY <1>1, <1>7 DEF Restart, Rest, Resting, NotDeleted, ManagerInv, CordonKept,
                    DrainedStaysEmpty
<1>8. CASE DeleteVPSieNode
  BY <1>1, <1>8 DEF DeleteVPSieNode, manager, Terminations, ManagerInv, CordonKept,
                    DrainedStaysEmpty
<1>9. CASE Cordon \/ List \/ waitForPodsDeleted \/ DeleteNode
  <2>1. termination'.step # "idle"
    BY <1>1, <1>9
       DEF Cordon, List, waitForPodsDeleted, DeleteNode, GiveUp, Terminations
  <2>2. copy'.unschedulable = FALSE
    BY <1>1, <1>9 DEF Cordon, List, waitForPodsDeleted, DeleteNode, Uncordon, WriteNode,
                      NodeType, ManagerInv, CordonKept
  <2> QED
    BY <2>1, <2>2 DEF CordonKept, DrainedStaysEmpty
<1>10. ASSUME NEW p \in Pods, Evict(p)
       PROVE  CordonKept' /\ DrainedStaysEmpty'
  <2>1. termination'.step # "idle" /\ UNCHANGED copy
    BY <1>1, <1>10 DEF Evict, manager, Terminations
  <2> QED
    BY <2>1 DEF ManagerInv, CordonKept, DrainedStaysEmpty
<1> QED
  BY <1>2, <1>3, <1>4, <1>5, <1>6, <1>7, <1>8, <1>9, <1>10, CordonNodeStep,
     ListPodsStep, EvictStep, DrainEndsStep DEF Next

\* For any pods, budgets, retries, replacements and failovers: a Node that DrainNode
\* has drained stays empty until its VPSieNode is deleted.
THEOREM DrainedNodeStaysEmpty == Spec => []DrainedStaysEmpty
<1>1. ManagerInv => DrainedStaysEmpty
  BY DEF ManagerInv
<1> QED
  BY <1>1, InitManagerInv, ManagerInvKept, PTL DEF Spec

-----------------------------------------------------------------------------
(* The drain before a VPSieNode's deletion.                                *)

\* The drain of the VPSieNode works on the informer's copies of the pods: one that it
\* sees gone is gone, and only a pod with another UID comes after it.
ListedInv ==
  /\ \A l \in termination.listed :
       /\ l[2] <= uid[l[1]]
       /\ uid[l[1]] = l[2] /\ seen[l[1]] = "gone" => pod[l[1]] = "gone"
  /\ termination.step = "delete" /\ ~ termination.excused =>
       \A l \in termination.listed : uid[l[1]] = l[2] => pod[l[1]] = "gone"

LEMMA InitListed == Init => ListedInv
BY DEF Init, ListedInv, NotDeleted

\* A pod that is gone stays gone, or its name passes to a later one.
LEMMA PodsGoOn ==
  ASSUME TypeOK, ListedInv, UNCHANGED <<seen, termination>>,
         \A p \in Pods : /\ uid'[p] \in {uid[p], uid[p] + 1}
                         /\ uid'[p] = uid[p] /\ pod[p] = "gone" => pod'[p] = "gone"
  PROVE  ListedInv'
<1>1. \A l \in termination.listed : l[1] \in Pods /\ l[2] \in 0..Replacements
  BY TypeParts DEF Terminations
<1>2. \A p \in Pods : uid[p] \in Nat
  BY TypeParts, ConstantsAssumption DEF PodType
<1>3. \A l \in termination.listed : uid'[l[1]] = l[2] => uid[l[1]] = l[2]
  BY <1>1, <1>2, ConstantsAssumption DEF ListedInv
<1>4. \A l \in termination.listed : l[2] <= uid'[l[1]]
  BY <1>1, <1>2, ConstantsAssumption DEF ListedInv
<1> QED
  BY <1>1, <1>3, <1>4 DEF ListedInv

\* Steps of the VPSieNode's drain that leave pods and list alone.
LEMMA TerminationGoesOn ==
  ASSUME ListedInv, UNCHANGED <<pod, uid, seen>>,
         termination'.listed = termination.listed,
         termination'.step = "delete" /\ ~ termination'.excused
           => \/ termination.step = "delete" /\ ~ termination.excused
              \/ \A l \in termination.listed : seen[l[1]] = "gone"
  PROVE  ListedInv'
BY DEF ListedInv

LEMMA EvictedGoesOn ==
  ASSUME TypeOK, NEW q \in Pods, pod' \in {pod, Evicted(q)}
  PROVE  \A p \in Pods : pod[p] = "gone" => pod'[p] = "gone"
BY TypeParts DEF Evicted, PodType

LEMMA GivesUp ==
  ASSUME TypeOK, GiveUp
  PROVE  termination'.listed = termination.listed /\ termination'.excused
BY TypeParts DEF GiveUp, Terminations

LEMMA ListStep ==
  ASSUME TypeOK, ListedInv, List PROVE ListedInv'
<1> DEFINE podsToEvict == filterPodsToEvict({p \in Pods : seen[p] \in OnNode})
<1>1. CASE GiveUp
  BY <1>1, GivesUp, TerminationGoesOn DEF List
<1>2. CASE termination' = [termination EXCEPT
             !.step = IF podsToEvict = {} THEN "delete" ELSE "evict",
             !.todo = podsToEvict, !.listed = {<<p, uid[p]>> : p \in podsToEvict}]
  <2>1. /\ termination'.listed = {<<p, uid[p]>> : p \in podsToEvict}
        /\ termination'.step = IF podsToEvict = {} THEN "delete" ELSE "evict"
    BY <1>2, TypeParts DEF Terminations
  <2>2. \A p \in podsToEvict : p \in Pods /\ seen[p] # "gone"
    BY DEF filterPodsToEvict, OnNode
  <2>3. \A p \in Pods : uid[p] \in Nat
    BY TypeParts, ConstantsAssumption DEF PodType
  <2>4. UNCHANGED <<pod, uid, seen>>
    BY DEF List
  <2> HIDE DEF podsToEvict
  <2>5. \A l \in termination'.listed :
          /\ l[2] = uid'[l[1]] /\ l[2] \in Nat /\ seen'[l[1]] # "gone"
    BY <2>1, <2>2, <2>3, <2>4
  <2>6. termination'.step = "delete" => termination'.listed = {}
    BY <2>1
  <2> QED
    BY <2>5, <2>6 DEF ListedInv
<1> QED
  BY <1>1, <1>2 DEF List

LEMMA ListedInvKept ==
  ASSUME TypeOK, ListedInv, [Next]_vars PROVE ListedInv'
<1>1. CASE UNCHANGED <<pod, uid, seen, termination>>
  BY <1>1 DEF ListedInv
<1>2. CASE UNCHANGED vars \/ Heartbeat \/ BeginDrain \/ cordonNode \/ ListPods
           \/ DrainDeadline \/ waitForPodTermination \/ VerifyMigration
  BY <1>1, <1>2 DEF vars, Heartbeat, cluster, BeginDrain, cordonNode, ListPods,
                    DrainDeadline, waitForPodTermination, VerifyMigration
<1>3. CASE InformPods
  BY <1>3 DEF InformPods, ListedInv
<1>4. ASSUME NEW p \in Pods, Bind(p) \/ Exit(p)
      PROVE  ListedInv'
  BY <1>4, TypeParts, PodsGoOn DEF Bind, Exit, PodType
<1>5. ASSUME NEW p \in Pods, Replace(p)
      PROVE  ListedInv'
  <2>1. \A q \in Pods : uid[q] \in Nat
    BY TypeParts, ConstantsAssumption DEF PodType
  <2>2. \A q \in Pods : /\ uid'[q] \in {uid[q], uid[q] + 1}
                        /\ uid'[q] = uid[q] /\ pod[q] = "gone" => pod'[q] = "gone"
    BY <1>5, <2>1, TypeParts DEF Replace, PodType
  <2> QED
    BY <1>5, <2>2, PodsGoOn DEF Replace
<1>6. ASSUME NEW p \in Pods, evictPodWithRetry(p)
      PROVE  ListedInv'
  BY <1>6, EvictedGoesOn, PodsGoOn DEF evictPodWithRetry
<1>7. CASE Restart
  <2>1. CASE UNCHANGED termination
    BY <1>7, <2>1 DEF Restart, ListedInv
  <2>2. CASE termination' = [NotDeleted EXCEPT !.step = "cordon"]
    BY <2>2 DEF NotDeleted, ListedInv
  <2> QED
    BY <1>7, <2>1, <2>2 DEF Restart
<1>8. CASE DeleteVPSieNode
  BY <1>8, TypeParts, TerminationGoesOn
     DEF DeleteVPSieNode, cluster, Terminations
<1>9. CASE Cordon
  <2>1. CASE GiveUp
    BY <1>9, <2>1, GivesUp, TerminationGoesOn DEF Cordon
  <2>2. CASE termination' = [termination EXCEPT !.step = "list"]
    BY <1>9, <2>2, TypeParts, TerminationGoesOn DEF Cordon, Terminations
  <2> QED
    BY <1>9, <2>1, <2>2 DEF Cordon
<1>10. CASE List
  BY <1>10, ListStep
<1>11. ASSUME NEW p \in Pods, Evict(p)
       PROVE  ListedInv'
  <2>1. /\ termination'.listed = termination.listed
        /\ termination'.step # "delete"
    BY <1>11, TypeParts DEF Evict, Terminations
  <2>2. \A q \in Pods : pod[q] = "gone" => pod'[q] = "gone"
    BY <1>11, EvictedGoesOn DEF Evict
  <2>3. \A l \in termination.listed : l[1] \in Pods
    BY TypeParts DEF Terminations
  <2> QED
    BY <1>11, <2>1, <2>2, <2>3 DEF Evict, ListedInv
<1>12. CASE waitForPodsDeleted
  <2>1. CASE GiveUp
    BY <1>12, <2>1, GivesUp, TerminationGoesOn DEF waitForPodsDeleted
  <2>2. CASE termination' = [termination EXCEPT !.step = "delete", !.excused = TRUE]
    BY <1>12, <2>2, TypeParts, TerminationGoesOn DEF waitForPodsDeleted, Terminations
  <2>3. CASE /\ \A l \in termination.listed : seen[l[1]] = "gone"
             /\ termination' = [termination EXCEPT !.step = "delete"]
    BY <1>12, <2>3, TypeParts, TerminationGoesOn DEF waitForPodsDeleted, Terminations
  <2> QED
    BY <1>12, <2>1, <2>2, <2>3 DEF waitForPodsDeleted
<1>13. CASE DeleteNode
  BY <1>13, TypeParts, TerminationGoesOn DEF DeleteNode, Terminations
<1> QED
  BY <1>2, <1>3, <1>4, <1>5, <1>6, <1>7, <1>8, <1>9, <1>10, <1>11, <1>12, <1>13
     DEF Next

LEMMA DeletionStep ==
  ASSUME TypeOK, ListedInv, [Next]_vars,
         termination'.step = "done", termination.step # "done", ~ termination.excused
  PROVE  \A l \in termination.listed : ~ (pod[l[1]] \in OnNode /\ uid[l[1]] = l[2])
<1>1. termination.step = "delete"
  <2>1. CASE UNCHANGED termination
    BY <2>1
  <2>2. CASE UNCHANGED vars \/ Heartbeat \/ BeginDrain \/ cordonNode \/ ListPods
             \/ DrainDeadline \/ waitForPodTermination \/ VerifyMigration \/ InformPods
    BY <2>1, <2>2 DEF vars, Heartbeat, BeginDrain, cordonNode, ListPods, DrainDeadline,
                      waitForPodTermination, VerifyMigration, InformPods
  <2>3. ASSUME NEW p \in Pods, Bind(p) \/ Exit(p) \/ Replace(p) \/ evictPodWithRetry(p)
        PROVE  FALSE
    BY <2>3 DEF Bind, Exit, Replace, evictPodWithRetry
  <2>4. CASE Restart
    BY <2>4 DEF Restart, NotDeleted
  <2>5. CASE DeleteVPSieNode \/ Cordon \/ List \/ waitForPodsDeleted
    BY <2>5, TypeParts
       DEF DeleteVPSieNode, Cordon, List, waitForPodsDeleted, GiveUp, Terminations
  <2>6. ASSUME NEW p \in Pods, Evict(p)
        PROVE  FALSE
    BY <2>6, TypeParts DEF Evict, Terminations
  <2>7. CASE DeleteNode
    BY <2>7 DEF DeleteNode
  <2> QED
    BY <2>2, <2>3, <2>4, <2>5, <2>6, <2>7 DEF Next
<1> QED
  BY <1>1 DEF ListedInv, OnNode

\* For any pods and replacements, and an informer that is behind by any number of
\* writes: the deletion of a VPSieNode leaves none of the pods it found on the Node,
\* unless its drain failed, timed out or could not see them.
THEOREM ListedPodsLeave == Spec => ListedPodsGone
<1>1. TypeOK /\ ListedInv /\ [Next]_vars => ListedInv'
  BY ListedInvKept
<1>2. TypeOK /\ ListedInv /\ [Next]_vars
        => [termination'.step = "done" /\ termination.step # "done"
              /\ ~ termination.excused =>
              \A l \in termination.listed :
                ~ (pod[l[1]] \in OnNode /\ uid[l[1]] = l[2])]_vars
  BY DeletionStep
<1> QED
  BY <1>1, <1>2, InitType, InitListed, NextType, PTL DEF Spec, ListedPodsGone

=============================================================================
