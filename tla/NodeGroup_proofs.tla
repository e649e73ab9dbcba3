--------------------------- MODULE NodeGroup_proofs ---------------------------
(***************************************************************************)
(* Theorems about NodeGroup: type correctness; that no desired count above *)
(* the maximum is ever written; and, with caches that are up to date, that *)
(* the group keeps its maximum and its minimum and gives up VPSieNodes     *)
(* that are not ready first.                                               *)
(***************************************************************************)
EXTENDS NodeGroup, FiniteSetTheorems, TLAPS

-----------------------------------------------------------------------------
(* Counting.                                                               *)

LEMMA SubsetCount ==
  ASSUME NEW S \in SUBSET VPSieNodes
  PROVE  /\ IsFiniteSet(S) /\ Cardinality(S) \in Nat
         /\ \A T \in SUBSET S : IsFiniteSet(T) /\ Cardinality(T) \in Nat
                                /\ Cardinality(T) <= Cardinality(S)
<1>1. IsFiniteSet(S)
  BY ConstantsAssumption, FS_Subset
<1> QED
  BY <1>1, FS_Subset, FS_CardinalityType

LEMMA FoundCount == Cardinality(Found) \in Nat
BY SubsetCount DEF Found

LEMMA WithinCount ==
  ASSUME NEW phases PROVE Cardinality(Within(phases)) \in Nat
BY SubsetCount DEF Found, Within

-----------------------------------------------------------------------------
(* Types.                                                                  *)

LEMMA WriteType ==
  ASSUME TypeOK, NEW object \in NodeGroups, Write(object)
  PROVE  nodeGroup' \in NodeGroups /\ cached' \in NodeGroups /\ current' \in BOOLEAN
BY DEF Write, TypeOK

LEMMA UpdateType ==
  ASSUME TypeOK, NEW object \in NodeGroups, Update(object)
  PROVE  nodeGroup' \in NodeGroups /\ cached' \in NodeGroups /\ current' \in BOOLEAN
BY WriteType DEF Update, kubernetes, TypeOK

LEMMA WritePhaseType ==
  ASSUME TypeOK, NEW phases \in [VPSieNodes -> PhasesOf], WritePhase(phases)
  PROVE  phase' \in [VPSieNodes -> PhasesOf] /\ listed' \in [VPSieNodes -> PhasesOf]
BY DEF WritePhase, TypeOK

LEMMA DeletedType ==
  ASSUME TypeOK, NEW names PROVE Deleted(names) \in [VPSieNodes -> PhasesOf]
BY DEF Deleted, TypeOK, PhasesOf

LEMMA DesiredType ==
  ASSUME TypeOK
  PROVE  /\ StartedDesired \in Counts /\ CalculatedDesired \in Counts
         /\ Valid(cached) => CalculatedDesired <= cached.max
<1>1. cached.min \in Counts /\ cached.max \in Counts /\ cached.desired \in Counts
  BY DEF TypeOK, NodeGroups
<1> QED
  BY <1>1, ConstantsAssumption
     DEF StartedDesired, CalculatedDesired, Clamp, Valid, Counts

LEMMA ContinueType ==
  ASSUME TypeOK, NEW step \in {"idle", "drain", "patch"}, NEW desired \in Counts
  PROVE  Continue(step, desired) \in Reconciles
<1>1. cached.desired \in Counts /\ cached.ready \in Nat
  BY DEF TypeOK, NodeGroups
<1> QED
  BY <1>1, WithinCount DEF Continue, Reconciles

LEMMA PickCandidateType ==
  ASSUME TypeOK, NEW desired \in Counts, PickCandidate(desired)
  PROVE  reconcile' \in Reconciles
<1>1. CASE reconcile' = Continue("patch", desired)
  BY <1>1, ContinueType
<1>2. CASE \E c \in Underutilizable :
             reconcile' = [Continue("drain", desired)
                             EXCEPT !.candidate = {c}, !.found = Found \cap {c}]
  <2>1. Continue("drain", desired) \in Reconciles
    BY ContinueType
  <2>2. PICK c \in VPSieNodes :
          reconcile' = [Continue("drain", desired)
                          EXCEPT !.candidate = {c}, !.found = Found \cap {c}]
    BY <1>2 DEF Underutilizable
  <2> QED
    BY <2>1, <2>2 DEF Reconciles
<1> QED
  BY <1>1, <1>2 DEF PickCandidate

LEMMA InitType == Init => TypeOK
<1> SUFFICES ASSUME Init PROVE TypeOK
  OBVIOUS
<1>1. nodeGroup \in NodeGroups
  BY ConstantsAssumption DEF Init, NewNodeGroup, NodeGroups, Counts
<1>2. reconcile \in Reconciles
  BY ConstantsAssumption DEF Init, Idle, Reconciles, Counts
<1>3. /\ phase \in [VPSieNodes -> PhasesOf] /\ listed \in [VPSieNodes -> PhasesOf]
      /\ node \in [VPSieNodes -> {"none", "schedulable", "cordoned"}]
  BY DEF Init, PhasesOf
<1>4. /\ decision \in [Watchers -> Counts \cup {None}]
      /\ cooldown \in [Watchers -> BOOLEAN] /\ cooling \in BOOLEAN
  BY DEF Init
<1>5. changes \in 0..Changes /\ demand \in 0..Demand
  BY ConstantsAssumption DEF Init
<1> QED
  BY <1>1, <1>2, <1>3, <1>4, <1>5 DEF Init, TypeOK

LEMMA ScalingUpType == TypeOK /\ ScalingUp => TypeOK'
<1> SUFFICES ASSUME TypeOK, ScalingUp PROVE TypeOK'
  OBVIOUS
<1>1. Continue("patch", CalculatedDesired) \in Reconciles
  BY DesiredType, ContinueType
<1>2. CASE CapacityLimitReached
  <2>1. phase' \in [VPSieNodes -> PhasesOf] /\ listed' \in [VPSieNodes -> PhasesOf]
    BY <1>2, DeletedType, WritePhaseType DEF CapacityLimitReached
  <2> QED
    BY <1>1, <1>2, <2>1
       DEF CapacityLimitReached, Reconciling, TypeOK, kubernetes, watchers
<1>3. CASE WaitForTransition
  BY <1>1, <1>3
     DEF WaitForTransition, Reconciling, TypeOK, kubernetes, objects, watchers
<1>4. ASSUME NEW n \in VPSieNodes, CreateVPSieNode(n)
      PROVE  TypeOK'
  <2>1. [phase EXCEPT ![n] = "new"] \in [VPSieNodes -> PhasesOf]
    BY DEF TypeOK, PhasesOf
  <2>2. phase' \in [VPSieNodes -> PhasesOf] /\ listed' \in [VPSieNodes -> PhasesOf]
    BY <1>4, <2>1, WritePhaseType DEF CreateVPSieNode
  <2> QED
    BY <1>1, <1>4, <2>2
       DEF CreateVPSieNode, MayCreate, Reconciling, TypeOK, kubernetes, watchers
<1>5. CASE CreateFails
  BY <1>1, <1>5
     DEF CreateFails, MayCreate, Reconciling, TypeOK, kubernetes, objects, watchers
<1> QED
  BY <1>2, <1>3, <1>4, <1>5 DEF ScalingUp

LEMMA ScalingDownType == TypeOK /\ ScalingDown => TypeOK'
<1> SUFFICES ASSUME TypeOK, ScalingDown PROVE TypeOK'
  OBVIOUS
<1>1. CASE IntelligentScaleDown
  <2>1. reconcile' \in Reconciles
    BY <1>1, DesiredType, PickCandidateType DEF IntelligentScaleDown
  <2> QED
    BY <1>1, <2>1
       DEF IntelligentScaleDown, Reconciling, TypeOK, kubernetes, objects, watchers
<1>2. CASE UtilizationScaleDown
  <2>1. cached.min \in Nat /\ CalculatedDesired \in 0..Limit
    BY ConstantsAssumption, DesiredType DEF TypeOK, NodeGroups, Counts
  <2>2. Cardinality(Found) - 1 \in Counts
    BY <1>2, <2>1, FoundCount, ConstantsAssumption
       DEF UtilizationScaleDown, NeedsScaleDown, Counts
  <2>3. reconcile' \in Reconciles
    BY <1>2, <2>2, PickCandidateType DEF UtilizationScaleDown
  <2> QED
    BY <1>2, <2>3
       DEF UtilizationScaleDown, Reconciling, TypeOK, kubernetes, objects, watchers
<1>3. CASE SimpleScaleDown
  <2>1. PICK selected \in SUBSET Found :
          /\ WritePhase(Deleted(selected))
          /\ reconcile' = Continue("patch", CalculatedDesired)
    BY <1>3 DEF SimpleScaleDown
  <2>2. phase' \in [VPSieNodes -> PhasesOf] /\ listed' \in [VPSieNodes -> PhasesOf]
    BY <2>1, DeletedType, WritePhaseType
  <2>3. reconcile' \in Reconciles
    BY <2>1, DesiredType, ContinueType
  <2> QED
    BY <1>3, <2>2, <2>3
       DEF SimpleScaleDown, Reconciling, TypeOK, kubernetes, watchers
<1>4. ASSUME NEW c \in VPSieNodes, DrainCandidate(c)
      PROVE  TypeOK'
  <2>1. phase' \in [VPSieNodes -> PhasesOf] /\ listed' \in [VPSieNodes -> PhasesOf]
    BY <1>4, DeletedType, WritePhaseType DEF DrainCandidate, TypeOK, objects
  <2>2. reconcile' \in Reconciles
    BY <1>4 DEF DrainCandidate, TypeOK, Reconciles
  <2> QED
    BY <1>4, <2>1, <2>2 DEF DrainCandidate, TypeOK, kubernetes, watchers
<1>5. ASSUME NEW c \in VPSieNodes, DrainFails(c)
      PROVE  TypeOK'
  <2>1. reconcile' \in Reconciles
    BY <1>5 DEF DrainFails, TypeOK, Reconciles
  <2> QED
    BY <1>5, <2>1 DEF DrainFails, TypeOK, kubernetes, objects, watchers
<1> QED
  BY <1>1, <1>2, <1>3, <1>4, <1>5 DEF ScalingDown

LEMMA ReconcileType == TypeOK /\ Reconcile => TypeOK'
<1> SUFFICES ASSUME TypeOK, Reconcile PROVE TypeOK'
  OBVIOUS
<1>1. CASE AddFinalizer
  <2>1. [nodeGroup EXCEPT !.finalizer = TRUE] \in NodeGroups
    BY DEF TypeOK, NodeGroups
  <2> QED
    BY <1>1, <2>1, UpdateType DEF AddFinalizer, TypeOK, objects, watchers
<1>2. CASE EnsureVPSieNodeGroup
  <2>1. [nodeGroup EXCEPT !.group = TRUE] \in NodeGroups
    BY DEF TypeOK, NodeGroups
  <2>2. /\ nodeGroup' \in NodeGroups /\ cached' \in NodeGroups
        /\ current' \in BOOLEAN
    BY <1>2, <2>1, WriteType DEF EnsureVPSieNodeGroup, TypeOK, kubernetes
  <2> QED
    BY <1>2, <2>2 DEF EnsureVPSieNodeGroup, TypeOK, objects, watchers
<1>3. CASE NoScaling
  BY <1>3, DesiredType, ContinueType
     DEF NoScaling, Reconciling, TypeOK, kubernetes, objects, watchers
<1>4. CASE PatchStatus
  <2> DEFINE object == [nodeGroup EXCEPT
              !.desired = IF reconcile.desired # reconcile.readDesired
                          THEN reconcile.desired ELSE @,
              !.ready = IF reconcile.ready # reconcile.readReady
                        THEN reconcile.ready ELSE @,
              !.recent = @ \/ reconcile.scaled]
  <2>1. object \in NodeGroups
    BY DEF TypeOK, NodeGroups, Reconciles
  <2>2. Idle \in Reconciles
    BY ConstantsAssumption DEF Idle, Reconciles, Counts
  <2>3. /\ nodeGroup' \in NodeGroups /\ cached' \in NodeGroups
        /\ current' \in BOOLEAN
    BY <1>4, <2>1, WriteType DEF PatchStatus
  <2> QED
    BY <1>4, <2>2, <2>3 DEF PatchStatus, TypeOK, objects, watchers
<1>5. CASE PatchFails
  <2>1. Idle \in Reconciles
    BY ConstantsAssumption DEF Idle, Reconciles, Counts
  <2> QED
    BY <1>5, <2>1 DEF PatchFails, TypeOK, kubernetes, objects, watchers
<1>6. CASE DeleteVPSieNodes
  <2>1. phase' \in [VPSieNodes -> PhasesOf] /\ listed' \in [VPSieNodes -> PhasesOf]
    BY <1>6, DeletedType, WritePhaseType DEF DeleteVPSieNodes
  <2> QED
    BY <1>6, <2>1 DEF DeleteVPSieNodes, TypeOK, kubernetes, watchers
<1>7. CASE RemoveFinalizer
  <2>1. [nodeGroup EXCEPT !.finalizer = FALSE, !.life = "gone"] \in NodeGroups
    BY DEF TypeOK, NodeGroups
  <2> QED
    BY <1>7, <2>1, UpdateType DEF RemoveFinalizer, TypeOK, objects, watchers
<1> QED
  BY <1>1, <1>2, <1>3, <1>4, <1>5, <1>6, <1>7, ScalingUpType, ScalingDownType
     DEF Reconcile

LEMMA DeliverType ==
  TypeOK /\ (DeliverNodeGroup \/ DeliverVPSieNodes) => TypeOK'
BY DEF DeliverNodeGroup, DeliverVPSieNodes, TypeOK, kubernetes, objects, watchers

LEMMA SurroundingsType ==
  TypeOK /\ (Expire \/ Restart \/ ChangeSpec \/ DeleteNodeGroup) => TypeOK'
<1> SUFFICES ASSUME TypeOK, Expire \/ Restart \/ ChangeSpec \/ DeleteNodeGroup
             PROVE  TypeOK'
  OBVIOUS
<1>1. CASE Expire
  <2>1. nodeGroup' \in NodeGroups /\ cached' \in NodeGroups
    BY <1>1 DEF Expire, TypeOK, NodeGroups
  <2>2. cooling' \in BOOLEAN /\ cooldown' \in [Watchers -> BOOLEAN]
    BY <1>1 DEF Expire, TypeOK
  <2> QED
    BY <1>1, <2>1, <2>2 DEF Expire, TypeOK, objects
<1>2. CASE Restart
  <2>1. Idle \in Reconciles
    BY ConstantsAssumption DEF Idle, Reconciles, Counts
  <2>2. PICK lost \in SUBSET Watchers :
          /\ decision' = [w \in Watchers |-> IF w \in lost THEN None ELSE decision[w]]
          /\ cooldown' = [w \in Watchers |-> cooldown[w] /\ w \notin lost]
    BY <1>2 DEF Restart
  <2>3. decision' \in [Watchers -> Counts \cup {None}]
    BY <2>2 DEF TypeOK
  <2>4. cooldown' \in [Watchers -> BOOLEAN]
    BY <2>2 DEF TypeOK
  <2> QED
    BY <1>2, <2>1, <2>3, <2>4 DEF Restart, TypeOK, kubernetes, objects
<1>3. CASE ChangeSpec
  <2>1. PICK min \in Counts, max \in Counts :
          Write([nodeGroup EXCEPT !.min = min, !.max = max])
    BY <1>3 DEF ChangeSpec
  <2>2. [nodeGroup EXCEPT !.min = min, !.max = max] \in NodeGroups
    BY DEF TypeOK, NodeGroups
  <2>3. changes < Changes /\ changes' = changes + 1
    BY <1>3 DEF ChangeSpec
  <2>4. changes' \in 0..Changes
    BY <2>3, ConstantsAssumption DEF TypeOK
  <2> QED
    BY <1>3, <2>1, <2>2, <2>4, WriteType DEF ChangeSpec, TypeOK, objects, watchers
<1>4. CASE DeleteNodeGroup
  <2> DEFINE object == [nodeGroup EXCEPT
              !.life = IF nodeGroup.finalizer THEN "deleting" ELSE "gone"]
  <2>1. object \in NodeGroups
    BY DEF TypeOK, NodeGroups
  <2>2. nodeGroup' \in NodeGroups /\ cached' \in NodeGroups /\ current' \in BOOLEAN
    BY <1>4, <2>1, WriteType DEF DeleteNodeGroup
  <2>3. changes' \in 0..Changes
    BY <1>4, ConstantsAssumption DEF DeleteNodeGroup, TypeOK
  <2> QED
    BY <1>4, <2>2, <2>3 DEF DeleteNodeGroup, TypeOK, objects, watchers
<1> QED
  BY <1>1, <1>2, <1>3, <1>4

LEMMA WatcherType ==
  ASSUME TypeOK, NEW w \in Watchers, Decide(w) \/ Execute(w)
  PROVE  TypeOK'
<1>1. cached.desired \in Counts /\ cached.max \in Counts
  BY DEF TypeOK, NodeGroups
<1>2. CASE Decide(w)
  <2>1. cached.desired + 1 \in Counts
    BY <1>1, <1>2, ConstantsAssumption DEF Decide, Counts
  <2>2. decision' \in [Watchers -> Counts \cup {None}]
    BY <1>2, <2>1 DEF Decide, TypeOK
  <2>3. demand' \in 0..Demand
    BY <1>2, ConstantsAssumption DEF Decide, TypeOK
  <2> QED
    BY <1>2, <2>2, <2>3 DEF Decide, TypeOK, kubernetes, objects
<1>3. CASE Execute(w)
  <2>1. decision' \in [Watchers -> Counts \cup {None}]
    BY <1>3 DEF Execute, TypeOK
  <2>2. cooldown' \in [Watchers -> BOOLEAN]
    BY <1>3 DEF Execute, TypeOK
  <2>3. [nodeGroup EXCEPT !.desired = decision[w], !.recent = TRUE] \in NodeGroups
    BY <1>3 DEF Execute, TypeOK, NodeGroups
  <2>4. nodeGroup' \in NodeGroups /\ cached' \in NodeGroups /\ current' \in BOOLEAN
    BY <1>3, <2>3, WriteType DEF Execute, TypeOK, kubernetes
  <2> QED
    BY <1>3, <2>1, <2>2, <2>4 DEF Execute, TypeOK, objects
<1> QED
  BY <1>2, <1>3

LEMMA MovePhaseType ==
  ASSUME TypeOK, NEW n \in VPSieNodes, NEW from, NEW to \in PhasesOf,
         MovePhase(n, from, to)
  PROVE  phase' \in [VPSieNodes -> PhasesOf] /\ listed' \in [VPSieNodes -> PhasesOf]
<1>1. [phase EXCEPT ![n] = to] \in [VPSieNodes -> PhasesOf]
  BY DEF TypeOK
<1> QED
  BY <1>1, WritePhaseType DEF MovePhase

LEMMA LifeCycleType ==
  ASSUME TypeOK, NEW n \in VPSieNodes, LifeCycle(n)
  PROVE  TypeOK'
<1>1. phase' \in [VPSieNodes -> PhasesOf] /\ listed' \in [VPSieNodes -> PhasesOf]
  <2>1. {"none", "transition", "ready", "failed", "full", "deleting"} \subseteq PhasesOf
    BY DEF PhasesOf
  <2>2. CASE \E from, to : to \in PhasesOf /\ MovePhase(n, from, to)
    BY <2>2, MovePhaseType
  <2>3. CASE UNCHANGED objects
    BY <2>3 DEF objects, TypeOK
  <2> QED
    BY <2>1, <2>2, <2>3 DEF LifeCycle
<1>2. node' \in [VPSieNodes -> {"none", "schedulable", "cordoned"}]
  BY DEF LifeCycle, TypeOK
<1> QED
  BY <1>1, <1>2 DEF LifeCycle, TypeOK, kubernetes, watchers

LEMMA NextType == TypeOK /\ [Next]_vars => TypeOK'
<1> SUFFICES ASSUME TypeOK, [Next]_vars PROVE TypeOK'
  OBVIOUS
<1>1. CASE UNCHANGED vars
  BY <1>1 DEF vars, TypeOK
<1> QED
  BY <1>1, DeliverType, SurroundingsType, ReconcileType, WatcherType, LifeCycleType
     DEF Next

\* However the reconciler, the watchers of all replicas, the caches and the
\* VPSieNode controllers interleave, the counts that the code computes (clamped
\* desired counts, scale-up decisions, scale-down targets) stay within 0..Limit
\* and every VPSieNode stays in one of its phases.
THEOREM TypeCorrect == Spec => []TypeOK
<1> QED
  BY InitType, NextType, PTL DEF Spec

-----------------------------------------------------------------------------
(* The maximum, with caches that are up to date.                           *)

Synced == listed = phase /\ cached = nodeGroup /\ current = TRUE

LEMMA InitSynced == Init => Synced
BY DEF Init, Synced

LEMMA SyncedKept ==
  ASSUME ~ Lag, Synced, [Next]_vars PROVE Synced'
<1>1. \A object : Write(object) => cached' = nodeGroup' /\ current' = TRUE
  BY DEF Write
<1>2. \A phases : WritePhase(phases) => listed' = phase'
  BY DEF WritePhase
<1>3. CASE UNCHANGED vars
  BY <1>3 DEF vars, Synced
<1>4. CASE DeliverNodeGroup \/ DeliverVPSieNodes \/ Restart
  BY <1>4 DEF DeliverNodeGroup, DeliverVPSieNodes, Restart, Synced, kubernetes, objects
<1>5. CASE Expire
  BY <1>5 DEF Expire, Synced, objects
<1>6. CASE ChangeSpec \/ DeleteNodeGroup
  BY <1>1, <1>6 DEF ChangeSpec, DeleteNodeGroup, Synced, objects
<1>7. CASE AddFinalizer \/ EnsureVPSieNodeGroup \/ PatchStatus \/ PatchFails
           \/ RemoveFinalizer
  BY <1>1, <1>7 DEF AddFinalizer, EnsureVPSieNodeGroup, PatchStatus, PatchFails,
                    RemoveFinalizer, Update, Synced, kubernetes, objects
<1>8. CASE ScalingUp
  BY <1>2, <1>8 DEF ScalingUp, CapacityLimitReached, WaitForTransition, MayCreate,
                    CreateVPSieNode, CreateFails, Reconciling, Synced, kubernetes,
                    objects
<1>9. CASE ScalingDown
  BY <1>2, <1>9 DEF ScalingDown, IntelligentScaleDown, UtilizationScaleDown,
                    SimpleScaleDown, DrainCandidate, DrainFails, Reconciling, Synced,
                    kubernetes, objects
<1>10. CASE NoScaling \/ DeleteVPSieNodes
  BY <1>2, <1>10 DEF NoScaling, DeleteVPSieNodes, Reconciling, Synced, kubernetes,
                     objects
<1>11. ASSUME NEW w \in Watchers, Decide(w) \/ Execute(w)
       PROVE  Synced'
  BY <1>1, <1>11 DEF Decide, Execute, Synced, kubernetes, objects
<1>12. ASSUME NEW n \in VPSieNodes, LifeCycle(n)
       PROVE  Synced'
  BY <1>2, <1>12 DEF LifeCycle, MovePhase, Synced, kubernetes, objects
<1> QED
  BY <1>3, <1>4, <1>5, <1>6, <1>7, <1>8, <1>9, <1>10, <1>11, <1>12
     DEF Next, Reconcile

LEMMA DeletionsShrink ==
  ASSUME TypeOK, NEW names, phase' = Deleted(names) PROVE Active' \subseteq Active
BY DEF Deleted, Active, Live

LEMMA LifeCycleShrinks ==
  ASSUME TypeOK, NEW n \in VPSieNodes, LifeCycle(n) PROVE Active' \subseteq Active
<1>1. ASSUME NEW from, NEW to, MovePhase(n, from, to), to \in Live => from \in Live
      PROVE  Active' \subseteq Active
  BY <1>1 DEF MovePhase, WritePhase, Active, TypeOK
<1>2. CASE UNCHANGED objects
  BY <1>2 DEF Active, objects
<1> QED
  BY <1>1, <1>2 DEF LifeCycle, Live

\* Only CreateVPSieNode adds a VPSieNode.
LEMMA OthersShrink ==
  ASSUME TypeOK, [Next]_vars, \A n \in VPSieNodes : ~ CreateVPSieNode(n)
  PROVE  Active' \subseteq Active
<1>1. CASE UNCHANGED phase
  BY <1>1 DEF Active
<1>2. ASSUME NEW names, WritePhase(Deleted(names))
      PROVE  Active' \subseteq Active
  BY <1>2, DeletionsShrink DEF WritePhase
<1>3. CASE UNCHANGED vars \/ DeliverNodeGroup \/ DeliverVPSieNodes \/ Expire
           \/ Restart \/ ChangeSpec \/ DeleteNodeGroup
  BY <1>1, <1>3 DEF vars, DeliverNodeGroup, DeliverVPSieNodes, Expire, Restart,
                    ChangeSpec, DeleteNodeGroup, objects
<1>4. CASE AddFinalizer \/ EnsureVPSieNodeGroup \/ NoScaling \/ PatchStatus
           \/ PatchFails \/ RemoveFinalizer
  BY <1>1, <1>4 DEF AddFinalizer, EnsureVPSieNodeGroup, NoScaling, PatchStatus,
                    PatchFails, RemoveFinalizer, objects
<1>5. CASE ScalingUp
  BY <1>1, <1>2, <1>5
     DEF ScalingUp, CapacityLimitReached, WaitForTransition, CreateFails, objects
<1>6. CASE ScalingDown
  BY <1>1, <1>2, <1>6 DEF ScalingDown, IntelligentScaleDown, UtilizationScaleDown,
                          SimpleScaleDown, DrainCandidate, DrainFails, objects
<1>7. CASE DeleteVPSieNodes
  BY <1>2, <1>7 DEF DeleteVPSieNodes
<1>8. ASSUME NEW w \in Watchers, Decide(w) \/ Execute(w)
      PROVE  Active' \subseteq Active
  BY <1>1, <1>8 DEF Decide, Execute, objects
<1> QED
  BY <1>3, <1>4, <1>5, <1>6, <1>7, <1>8, LifeCycleShrinks DEF Next, Reconcile

LEMMA CreationBelowMaximum ==
  ASSUME TypeOK, Synced, NEW n \in VPSieNodes, CreateVPSieNode(n)
  PROVE  Cardinality(Active') <= nodeGroup.max
<1>1. Found = Active
  BY DEF Found, Active, Synced
<1>2. Cardinality(Active) < nodeGroup.max
  BY <1>1 DEF CreateVPSieNode, MayCreate, NeedsScaleUp, Synced
<1>3. Active' = Active \cup {n}
  BY DEF CreateVPSieNode, WritePhase, Active, Live, TypeOK
<1>4. n \notin Active
  BY DEF CreateVPSieNode, Active, Live
<1>5. Cardinality(Active) \in Nat /\ IsFiniteSet(Active)
  BY SubsetCount DEF Active
<1>6. Cardinality(Active') = Cardinality(Active) + 1
  BY <1>3, <1>4, <1>5, FS_AddElement
<1>7. nodeGroup.max \in Nat
  BY ConstantsAssumption DEF TypeOK, NodeGroups, Counts
<1> QED
  BY <1>2, <1>5, <1>6, <1>7

LEMMA MaximumStep ==
  ASSUME ~ Lag, TypeOK, Synced, [Next]_vars,
         Cardinality(Active') > Cardinality(Active)
  PROVE  Cardinality(Active') <= nodeGroup.max
<1>1. CASE \E n \in VPSieNodes : CreateVPSieNode(n)
  BY <1>1, CreationBelowMaximum
<1>2. CASE \A n \in VPSieNodes : ~ CreateVPSieNode(n)
  <2>1. Active' \subseteq Active
    BY <1>2, OthersShrink
  <2>2. /\ Cardinality(Active) \in Nat /\ Cardinality(Active') \in Nat
        /\ Cardinality(Active') <= Cardinality(Active)
    BY <2>1, SubsetCount DEF Active
  <2> QED
    BY <2>2
<1> QED
  BY <1>1, <1>2

\* With informer caches that are up to date, for any number of VPSieNodes and
\* replicas and any sequence of failures, deletions and changes of the spec, a
\* step that adds a VPSieNode leaves the group within the maximum it then has:
\* the list that reconcileScaleUp counts is the list it adds to.
THEOREM MaximumKept == ~ Lag => (Spec => MaxKept)
<1> SUFFICES ASSUME ~ Lag PROVE Spec => MaxKept
  OBVIOUS
<1>1. TypeOK /\ Synced /\ [Next]_vars => Synced'
  BY SyncedKept
<1>2. TypeOK /\ Synced /\ [Next]_vars
        => [Cardinality(Active') > Cardinality(Active)
              => Cardinality(Active') <= nodeGroup.max]_vars
  BY MaximumStep
<1> QED
  BY <1>1, <1>2, InitType, InitSynced, NextType, PTL DEF Spec, MaxKept

-----------------------------------------------------------------------------
(* The desired count, while nobody changes the maximum.                    *)

MaxStays == nodeGroup'.max = nodeGroup.max

\* Strengthens DesiredInRange by what the reconciler and the watchers are about to
\* write.
DesiredBounded ==
  /\ cached.max = nodeGroup.max /\ nodeGroup.desired <= nodeGroup.max
  /\ reconcile.desired <= nodeGroup.max
  /\ \A w \in Watchers : decision[w] <= nodeGroup.max

LEMMA InitDesired == Init => DesiredBounded
BY ConstantsAssumption
   DEF Init, DesiredBounded, NewNodeGroup, Idle, None, Counts

LEMMA BoundedWrite ==
  ASSUME TypeOK, DesiredBounded, NEW object, Write(object),
         object.max = nodeGroup.max, object.desired <= nodeGroup.max
  PROVE  cached'.max = nodeGroup'.max /\ nodeGroup'.desired <= nodeGroup'.max
BY DEF Write, DesiredBounded

\* What is in the API server.
LEMMA ObjectBounded ==
  ASSUME TypeOK, DesiredBounded, [Next]_vars, MaxStays
  PROVE  cached'.max = nodeGroup'.max /\ nodeGroup'.desired <= nodeGroup'.max
<1>1. CASE UNCHANGED <<nodeGroup, cached>>
  BY <1>1 DEF DesiredBounded
<1>2. CASE UNCHANGED vars \/ DeliverVPSieNodes \/ Restart \/ ScalingUp \/ ScalingDown
           \/ NoScaling \/ PatchFails \/ DeleteVPSieNodes
  BY <1>1, <1>2
     DEF vars, kubernetes, DeliverVPSieNodes, Restart, ScalingUp, ScalingDown,
         CapacityLimitReached, WaitForTransition, MayCreate, CreateVPSieNode, CreateFails,
         IntelligentScaleDown, UtilizationScaleDown, SimpleScaleDown, DrainCandidate,
         DrainFails, NoScaling, PatchFails, DeleteVPSieNodes, Reconciling
<1>3. CASE DeliverNodeGroup
  BY <1>3 DEF DeliverNodeGroup, DesiredBounded
<1>4. CASE Expire
  BY <1>4 DEF Expire, DesiredBounded, TypeOK, NodeGroups
<1>5. CASE AddFinalizer \/ EnsureVPSieNodeGroup \/ RemoveFinalizer \/ DeleteNodeGroup
  BY <1>1, <1>5, BoundedWrite
     DEF AddFinalizer, EnsureVPSieNodeGroup, RemoveFinalizer, DeleteNodeGroup, Update,
         kubernetes, DesiredBounded, TypeOK, NodeGroups
<1>6. CASE ChangeSpec
  <2>1. PICK min \in Counts, max \in Counts \ {0} :
          Write([nodeGroup EXCEPT !.min = min, !.max = max])
    BY <1>6 DEF ChangeSpec
  <2>2. nodeGroup' = [nodeGroup EXCEPT !.min = min, !.max = max]
    BY <2>1 DEF Write
  <2>3. [nodeGroup EXCEPT !.min = min, !.max = max].max = max
    BY DEF TypeOK, NodeGroups
  <2>4. max = nodeGroup.max
    BY <2>2, <2>3 DEF MaxStays
  <2> QED
    BY <2>1, <2>3, <2>4, BoundedWrite DEF DesiredBounded, TypeOK, NodeGroups
<1>7. CASE PatchStatus
  BY <1>7, BoundedWrite DEF PatchStatus, DesiredBounded, TypeOK, NodeGroups
<1>8. ASSUME NEW w \in Watchers, Decide(w) \/ Execute(w)
      PROVE  cached'.max = nodeGroup'.max /\ nodeGroup'.desired <= nodeGroup'.max
  BY <1>1, <1>8, BoundedWrite
     DEF Decide, Execute, kubernetes, DesiredBounded, TypeOK, NodeGroups
<1>9. ASSUME NEW n \in VPSieNodes, LifeCycle(n)
      PROVE  cached'.max = nodeGroup'.max /\ nodeGroup'.desired <= nodeGroup'.max
  BY <1>1, <1>9 DEF LifeCycle, kubernetes
<1> QED
  BY <1>2, <1>3, <1>4, <1>5, <1>6, <1>7, <1>8, <1>9 DEF Next, Reconcile

\* The count a reconcile goes on with is CalculatedDesired, or fewer than are found.
LEMMA UtilizationDesired ==
  ASSUME TypeOK, UtilizationScaleDown
  PROVE  Cardinality(Found) - 1 \in Counts /\ Cardinality(Found) - 1 <= cached.max
<1>1. cached.min \in Nat /\ CalculatedDesired \in 0..Limit
  BY ConstantsAssumption, DesiredType DEF TypeOK, NodeGroups, Counts
<1>2. CalculatedDesired <= cached.max /\ cached.max \in Nat
  BY ConstantsAssumption, DesiredType
     DEF UtilizationScaleDown, Reconciling, TypeOK, NodeGroups, Counts
<1> QED
  BY <1>1, <1>2, FoundCount, ConstantsAssumption
     DEF UtilizationScaleDown, NeedsScaleDown, Counts

LEMMA Picked ==
  ASSUME TypeOK, NEW desired, PickCandidate(desired)
  PROVE  /\ reconcile'.desired = desired
         /\ reconcile'.found \subseteq Found
         /\ \A c, d \in reconcile'.found : c = d
<1>1. CASE reconcile' = Continue("patch", desired)
  BY <1>1 DEF Continue
<1>2. CASE \E c \in Underutilizable :
             reconcile' = [Continue("drain", desired)
                             EXCEPT !.candidate = {c}, !.found = Found \cap {c}]
  <2>1. PICK c \in Underutilizable :
          reconcile' = [Continue("drain", desired)
                          EXCEPT !.candidate = {c}, !.found = Found \cap {c}]
    BY <1>2
  <2>2. reconcile'.desired = desired /\ reconcile'.found = Found \cap {c}
    BY <2>1 DEF Continue
  <2> QED
    BY <2>2
<1> QED
  BY <1>1, <1>2 DEF PickCandidate

\* What is about to be written.
LEMMA PlansBounded ==
  ASSUME TypeOK, DesiredBounded, [Next]_vars
  PROVE  /\ reconcile'.desired <= nodeGroup.max
         /\ \A w \in Watchers : decision'[w] <= nodeGroup.max
<1>0. nodeGroup.max \in Nat
  BY ConstantsAssumption DEF TypeOK, NodeGroups, Counts
<1>1. CASE UNCHANGED <<reconcile, decision>>
  BY <1>1 DEF DesiredBounded
<1>2. CASE reconcile' = Idle /\ UNCHANGED decision
  BY <1>0, <1>2 DEF DesiredBounded, Idle
<1>3. ASSUME NEW desired, reconcile'.desired = desired, desired <= cached.max,
             UNCHANGED decision
      PROVE  /\ reconcile'.desired <= nodeGroup.max
             /\ \A w \in Watchers : decision'[w] <= nodeGroup.max
  BY <1>3 DEF DesiredBounded
<1>4. CASE UNCHANGED vars \/ DeliverNodeGroup \/ DeliverVPSieNodes \/ Expire
           \/ ChangeSpec \/ DeleteNodeGroup \/ AddFinalizer \/ EnsureVPSieNodeGroup
           \/ DeleteVPSieNodes \/ RemoveFinalizer
  <2>1. CASE UNCHANGED vars \/ DeliverNodeGroup \/ DeliverVPSieNodes \/ Expire
    BY <1>1, <2>1
       DEF vars, watchers, DeliverNodeGroup, DeliverVPSieNodes, Expire
  <2>2. CASE ChangeSpec
    BY <1>1, <2>2 DEF watchers, ChangeSpec
  <2>3. CASE DeleteNodeGroup \/ AddFinalizer \/ EnsureVPSieNodeGroup
    BY <1>1, <2>3 DEF watchers, DeleteNodeGroup, AddFinalizer, EnsureVPSieNodeGroup
  <2>4. CASE DeleteVPSieNodes \/ RemoveFinalizer
    BY <1>1, <2>4 DEF watchers, DeleteVPSieNodes, RemoveFinalizer
  <2> QED
    BY <1>4, <2>1, <2>2, <2>3, <2>4
<1>5. CASE Restart
  BY <1>0, <1>5 DEF Restart, DesiredBounded, Idle, None
<1>6. CASE PatchStatus \/ PatchFails
  BY <1>2, <1>6 DEF PatchStatus, PatchFails, watchers
<1>7. CASE ScalingUp \/ SimpleScaleDown \/ NoScaling
  <2>1. reconcile' = Continue("patch", CalculatedDesired)
    BY <1>7 DEF ScalingUp, CapacityLimitReached, WaitForTransition, CreateVPSieNode,
                CreateFails, SimpleScaleDown, NoScaling
  <2>2. Reconciling
    BY <1>7 DEF ScalingUp, CapacityLimitReached, WaitForTransition, MayCreate,
                CreateVPSieNode, CreateFails, SimpleScaleDown, NoScaling
  <2>3. reconcile'.desired = CalculatedDesired
    BY <2>1 DEF Continue
  <2> QED
    BY <1>3, <2>2, <2>3, DesiredType DEF Reconciling, watchers
<1>8. CASE IntelligentScaleDown
  <2>1. PickCandidate(CalculatedDesired) /\ UNCHANGED decision /\ Valid(cached)
    BY <1>8 DEF IntelligentScaleDown, Reconciling, watchers
  <2> QED
    BY <1>3, <2>1, Picked, DesiredType
<1>9. CASE UtilizationScaleDown
  <2>1. PickCandidate(Cardinality(Found) - 1) /\ UNCHANGED decision
    BY <1>9 DEF UtilizationScaleDown, Reconciling, watchers
  <2> QED
    BY <1>3, <1>9, <2>1, Picked, UtilizationDesired
<1>10. ASSUME NEW c \in VPSieNodes, DrainCandidate(c) \/ DrainFails(c)
       PROVE  reconcile'.desired = reconcile.desired /\ UNCHANGED decision
  BY <1>10 DEF DrainCandidate, DrainFails, watchers, TypeOK, Reconciles
<1>11. ASSUME NEW w \in Watchers, Decide(w)
       PROVE  /\ reconcile'.desired <= nodeGroup.max
              /\ \A v \in Watchers : decision'[v] <= nodeGroup.max
  <2>1. cached.desired + 1 <= nodeGroup.max
    BY <1>11, ConstantsAssumption DEF Decide, DesiredBounded, TypeOK, NodeGroups, Counts
  <2> QED
    BY <1>11, <2>1 DEF Decide, DesiredBounded, TypeOK
<1>12. ASSUME NEW w \in Watchers, Execute(w)
       PROVE  /\ reconcile'.desired <= nodeGroup.max
              /\ \A v \in Watchers : decision'[v] <= nodeGroup.max
  BY <1>0, <1>12 DEF Execute, DesiredBounded, TypeOK, None
<1>13. ASSUME NEW n \in VPSieNodes, LifeCycle(n)
       PROVE  UNCHANGED <<reconcile, decision>>
  BY <1>13 DEF LifeCycle, watchers
<1>14. (\E c \in VPSieNodes : DrainCandidate(c) \/ DrainFails(c))
         => reconcile'.desired <= nodeGroup.max
            /\ \A w \in Watchers : decision'[w] <= nodeGroup.max
  BY <1>10 DEF DesiredBounded
<1> QED
  BY <1>1, <1>4, <1>5, <1>6, <1>7, <1>8, <1>9, <1>11, <1>12, <1>13, <1>14
     DEF Next, Reconcile, ScalingDown

\* However stale what the reconciler and the watchers of all replicas read, and
\* whatever is lost: while nobody changes the maximum, no desired count above it is
\* ever written.
THEOREM DesiredWithinMaximum == Spec /\ [][MaxStays]_vars => []DesiredInRange
<1>1. TypeOK /\ DesiredBounded /\ [Next]_vars /\ [MaxStays]_vars => DesiredBounded'
  <2> SUFFICES ASSUME TypeOK, DesiredBounded, [Next]_vars, [MaxStays]_vars
               PROVE  DesiredBounded'
    OBVIOUS
  <2>1. MaxStays
    BY DEF MaxStays, vars
  <2> QED
    BY <2>1, ObjectBounded, PlansBounded DEF DesiredBounded, MaxStays
<1>2. DesiredBounded => DesiredInRange
  BY DEF DesiredBounded, DesiredInRange
<1> QED
  BY <1>1, <1>2, InitType, NextType, InitDesired, PTL DEF Spec

-----------------------------------------------------------------------------
(* The minimum, with caches that are up to date, while nobody changes it.  *)

MinStays == nodeGroup'.min = nodeGroup.min

\* VPSieNodes that can not fail do not.
NoFailures == \A n \in VPSieNodes : phase[n] \notin {"failed", "full"}

\* A drain under way has a decision behind it that left the minimum in place.
DrainAboveMin ==
  reconcile.step = "drain" /\ reconcile.found # {} /\ nodeGroup.life = "live"
    => Cardinality(Active) > nodeGroup.min

\* At most one VPSieNode is about to be deleted.
OneDrained == \A c, d \in reconcile.found : c = d

LEMMA InitMinimum == Init => NoFailures /\ OneDrained /\ DrainAboveMin
BY DEF Init, NoFailures, OneDrained, DrainAboveMin, Idle

LEMMA DeletionsDoNotFail ==
  ASSUME NoFailures, NEW names, WritePhase(Deleted(names))
  PROVE  NoFailures'
BY DEF NoFailures, WritePhase, Deleted

LEMMA MovesDoNotFail ==
  ASSUME TypeOK, NoFailures, NEW n \in VPSieNodes, NEW from, NEW to,
         MovePhase(n, from, to), to \notin {"failed", "full"}
  PROVE  NoFailures'
BY DEF NoFailures, MovePhase, WritePhase, TypeOK

LEMMA FailuresStayOut ==
  ASSUME Failing = {}, TypeOK, NoFailures, [Next]_vars
  PROVE  NoFailures'
<1>1. CASE UNCHANGED phase
  BY <1>1 DEF NoFailures
<1>2. CASE UNCHANGED vars \/ DeliverNodeGroup \/ DeliverVPSieNodes \/ Expire
           \/ Restart \/ ChangeSpec \/ DeleteNodeGroup
  BY <1>1, <1>2 DEF vars, DeliverNodeGroup, DeliverVPSieNodes, Expire, Restart,
                    ChangeSpec, DeleteNodeGroup, objects
<1>3. CASE AddFinalizer \/ EnsureVPSieNodeGroup \/ NoScaling \/ PatchStatus
           \/ PatchFails \/ RemoveFinalizer
  BY <1>1, <1>3 DEF AddFinalizer, EnsureVPSieNodeGroup, NoScaling, PatchStatus,
                    PatchFails, RemoveFinalizer, objects
<1>4. CASE CapacityLimitReached \/ WaitForTransition \/ CreateFails
  BY <1>1, <1>4, DeletionsDoNotFail
     DEF CapacityLimitReached, WaitForTransition, CreateFails, objects
<1>5. ASSUME NEW n \in VPSieNodes, CreateVPSieNode(n)
      PROVE  NoFailures'
  BY <1>5 DEF CreateVPSieNode, WritePhase, NoFailures, TypeOK
<1>6. CASE ScalingDown
  BY <1>1, <1>6, DeletionsDoNotFail
     DEF ScalingDown, IntelligentScaleDown, UtilizationScaleDown, SimpleScaleDown,
         DrainCandidate, DrainFails, objects
<1>7. CASE DeleteVPSieNodes
  BY <1>7, DeletionsDoNotFail DEF DeleteVPSieNodes
<1>8. ASSUME NEW w \in Watchers, Decide(w) \/ Execute(w)
      PROVE  NoFailures'
  BY <1>1, <1>8 DEF Decide, Execute, objects
<1>9. ASSUME NEW n \in VPSieNodes, LifeCycle(n)
      PROVE  NoFailures'
  BY <1>1, <1>9, MovesDoNotFail DEF LifeCycle, objects
<1> QED
  BY <1>2, <1>3, <1>4, <1>5, <1>6, <1>7, <1>8, <1>9 DEF Next, Reconcile, ScalingUp

\* In a live group whose VPSieNodes do not fail, only the reconciler takes one away.
LEMMA LifeCycleKeeps ==
  ASSUME Failing = {}, TypeOK, NoFailures, nodeGroup.life = "live",
         NEW n \in VPSieNodes, LifeCycle(n)
  PROVE  Active \subseteq Active'
<1>1. ASSUME NEW from, NEW to, MovePhase(n, from, to), to \in Live
      PROVE  Active \subseteq Active'
  BY <1>1 DEF MovePhase, WritePhase, Active, TypeOK
<1>2. CASE UNCHANGED objects
  BY <1>2 DEF Active, objects
<1>3. CASE MovePhase(n, "failed", "deleting") \/ MovePhase(n, "full", "deleting")
  BY <1>3 DEF MovePhase, NoFailures
<1>4. CASE MovePhase(n, "deleting", "none")
  BY <1>4 DEF MovePhase, WritePhase, Active, Live, TypeOK
<1> QED
  BY <1>1, <1>2, <1>3, <1>4 DEF LifeCycle, Live

LEMMA ActiveKept ==
  ASSUME Failing = {}, TypeOK, Synced, NoFailures, nodeGroup.life = "live", [Next]_vars,
         ~ SimpleScaleDown, \A c \in VPSieNodes : ~ DrainCandidate(c)
  PROVE  Active \subseteq Active'
<1>1. CASE UNCHANGED phase
  BY <1>1 DEF Active
<1>2. CASE UNCHANGED vars \/ DeliverNodeGroup \/ DeliverVPSieNodes \/ Expire
           \/ Restart \/ ChangeSpec \/ DeleteNodeGroup
  BY <1>1, <1>2 DEF vars, DeliverNodeGroup, DeliverVPSieNodes, Expire, Restart,
                    ChangeSpec, DeleteNodeGroup, objects
<1>3. CASE AddFinalizer \/ EnsureVPSieNodeGroup \/ NoScaling \/ PatchStatus
           \/ PatchFails \/ RemoveFinalizer
  BY <1>1, <1>3 DEF AddFinalizer, EnsureVPSieNodeGroup, NoScaling, PatchStatus,
                    PatchFails, RemoveFinalizer, objects
<1>4. CASE CapacityLimitReached
  BY <1>4 DEF CapacityLimitReached, Within, Found, NoFailures, Synced
<1>5. CASE WaitForTransition \/ CreateFails
  BY <1>1, <1>5 DEF WaitForTransition, CreateFails, objects
<1>6. ASSUME NEW n \in VPSieNodes, CreateVPSieNode(n)
      PROVE  Active \subseteq Active'
  BY <1>6 DEF CreateVPSieNode, WritePhase, Active, Live, TypeOK
<1>7. CASE ScalingDown
  BY <1>1, <1>7
     DEF ScalingDown, IntelligentScaleDown, UtilizationScaleDown, DrainFails, objects
<1>8. CASE DeleteVPSieNodes
  BY <1>8 DEF DeleteVPSieNodes, Deleting, Synced
<1>9. ASSUME NEW w \in Watchers, Decide(w) \/ Execute(w)
      PROVE  Active \subseteq Active'
  BY <1>1, <1>9 DEF Decide, Execute, objects
<1> QED
  BY <1>2, <1>3, <1>4, <1>5, <1>6, <1>7, <1>8, <1>9, LifeCycleKeeps
     DEF Next, Reconcile, ScalingUp

\* A reconcile gets to a drain by one of two actions.
LEMMA DrainBegins ==
  ASSUME TypeOK, [Next]_vars, reconcile'.step = "drain"
  PROVE  UNCHANGED reconcile \/ IntelligentScaleDown \/ UtilizationScaleDown
<1>1. ASSUME NEW desired, reconcile' = Continue("patch", desired)
      PROVE  FALSE
  BY <1>1 DEF Continue
<1>2. reconcile' # Idle
  BY DEF Idle
<1>3. CASE UNCHANGED vars \/ DeliverNodeGroup \/ DeliverVPSieNodes \/ Expire
           \/ Restart
  BY <1>2, <1>3 DEF vars, DeliverNodeGroup, DeliverVPSieNodes, Expire, Restart
<1>4. CASE ChangeSpec \/ DeleteNodeGroup \/ AddFinalizer \/ EnsureVPSieNodeGroup
           \/ DeleteVPSieNodes \/ RemoveFinalizer
  BY <1>4 DEF ChangeSpec, DeleteNodeGroup, AddFinalizer, EnsureVPSieNodeGroup,
              DeleteVPSieNodes, RemoveFinalizer
<1>5. CASE NoScaling \/ ScalingUp \/ SimpleScaleDown
  BY <1>1, <1>5 DEF NoScaling, ScalingUp, CapacityLimitReached, WaitForTransition,
                    CreateVPSieNode, CreateFails, SimpleScaleDown
<1>6. CASE PatchStatus \/ PatchFails
  BY <1>2, <1>6 DEF PatchStatus, PatchFails
<1>7. ASSUME NEW c \in VPSieNodes, DrainCandidate(c) \/ DrainFails(c)
      PROVE  FALSE
  BY <1>7 DEF DrainCandidate, DrainFails, TypeOK, Reconciles
<1>8. ASSUME NEW w \in Watchers, Decide(w) \/ Execute(w)
      PROVE  UNCHANGED reconcile
  BY <1>8 DEF Decide, Execute
<1>9. ASSUME NEW n \in VPSieNodes, LifeCycle(n)
      PROVE  UNCHANGED reconcile
  BY <1>9 DEF LifeCycle
<1> QED
  BY <1>3, <1>4, <1>5, <1>6, <1>7, <1>8, <1>9 DEF Next, Reconcile, ScalingDown

LEMMA LifeEnds ==
  ASSUME TypeOK, [Next]_vars, nodeGroup'.life = "live" PROVE nodeGroup.life = "live"
<1>1. CASE nodeGroup'.life = nodeGroup.life
  BY <1>1
<1>2. CASE UNCHANGED vars \/ DeliverNodeGroup \/ DeliverVPSieNodes \/ Restart
           \/ NoScaling \/ PatchFails \/ DeleteVPSieNodes
  BY <1>2 DEF vars, DeliverNodeGroup, DeliverVPSieNodes, Restart, NoScaling, PatchFails,
              DeleteVPSieNodes, Reconciling, kubernetes
<1>3. CASE ScalingUp \/ ScalingDown
  BY <1>3 DEF ScalingUp, ScalingDown, CapacityLimitReached, WaitForTransition, MayCreate,
              CreateVPSieNode, CreateFails, IntelligentScaleDown, UtilizationScaleDown,
              SimpleScaleDown, DrainCandidate, DrainFails, Reconciling, kubernetes
<1>4. CASE Expire
  BY <1>4 DEF Expire, TypeOK, NodeGroups
<1>5. CASE ChangeSpec \/ DeleteNodeGroup
  BY <1>5 DEF ChangeSpec, DeleteNodeGroup
<1>6. CASE AddFinalizer \/ EnsureVPSieNodeGroup
  BY <1>6 DEF AddFinalizer, EnsureVPSieNodeGroup, Update, Write, kubernetes, TypeOK,
              NodeGroups
<1>7. CASE PatchStatus \/ RemoveFinalizer
  BY <1>7 DEF PatchStatus, RemoveFinalizer, Update, Write, kubernetes, TypeOK, NodeGroups
<1>8. ASSUME NEW w \in Watchers, Decide(w) \/ Execute(w)
      PROVE  nodeGroup.life = "live"
  BY <1>8 DEF Decide, Execute, Write, kubernetes, TypeOK, NodeGroups
<1>9. ASSUME NEW n \in VPSieNodes, LifeCycle(n)
      PROVE  nodeGroup.life = "live"
  BY <1>9 DEF LifeCycle, kubernetes
<1> QED
  BY <1>2, <1>3, <1>4, <1>5, <1>6, <1>7, <1>8, <1>9 DEF Next, Reconcile

LEMMA DrainStaysAboveMin ==
  ASSUME Failing = {}, TypeOK, Synced, NoFailures, DrainAboveMin, [Next]_vars, MinStays
  PROVE  DrainAboveMin'
<1> SUFFICES ASSUME reconcile'.step = "drain", reconcile'.found # {},
                    nodeGroup'.life = "live"
             PROVE  Cardinality(Active') > nodeGroup'.min
  BY DEF DrainAboveMin
<1>1. nodeGroup.life = "live" /\ nodeGroup.min \in Nat
  BY LifeEnds, ConstantsAssumption DEF TypeOK, NodeGroups, Counts
<1>2. Cardinality(Active) \in Nat
  BY SubsetCount DEF Active
<1>3. CASE UNCHANGED reconcile
  <2>1. Cardinality(Active) > nodeGroup.min
    BY <1>1, <1>3 DEF DrainAboveMin
  <2>2. ~ SimpleScaleDown
    BY <1>3 DEF SimpleScaleDown, Reconciling, Starts
  <2>3. ASSUME NEW c \in VPSieNodes PROVE ~ DrainCandidate(c)
    BY DEF DrainCandidate, TypeOK, Reconciles
  <2>4. Active \subseteq Active'
    BY <1>1, <2>2, <2>3, ActiveKept
  <2>5. Cardinality(Active') \in Nat /\ Cardinality(Active) <= Cardinality(Active')
    BY <2>4, SubsetCount DEF Active
  <2> QED
    BY <1>1, <1>2, <2>1, <2>5 DEF MinStays
<1>4. CASE IntelligentScaleDown \/ UtilizationScaleDown
  <2>1. Cardinality(Found) > cached.min /\ UNCHANGED phase
    BY <1>4 DEF IntelligentScaleDown, UtilizationScaleDown, NeedsScaleDown, objects
  <2>2. Found = Active /\ Active' = Active
    BY <2>1 DEF Synced, Found, Active
  <2> QED
    BY <2>1, <2>2 DEF Synced, MinStays
<1> QED
  BY <1>3, <1>4, DrainBegins

LEMMA DeletionLeaves ==
  ASSUME TypeOK, NEW names, WritePhase(Deleted(names)) PROVE Active' = Active \ names
BY DEF WritePhase, Deleted, Active, Live, TypeOK

LEMMA DrainLeavesMinimum ==
  ASSUME TypeOK, Synced, OneDrained, DrainAboveMin, nodeGroup.life = "live",
         NEW c \in VPSieNodes, DrainCandidate(c),
         Cardinality(Active') < Cardinality(Active)
  PROVE  Cardinality(Active') >= nodeGroup.min
<1>1. nodeGroup.min \in Nat /\ Cardinality(Active) \in Nat /\ IsFiniteSet(Active)
  BY SubsetCount, ConstantsAssumption DEF Active, TypeOK, NodeGroups, Counts
<1>2. WritePhase(Deleted(reconcile.found))
  <2>1. CASE UNCHANGED objects
    <3>1. Active' = Active
      BY <2>1 DEF Active, objects
    <3> QED
      BY <1>1, <3>1
  <2> QED
    BY <2>1 DEF DrainCandidate
<1>3. Active' = Active \ reconcile.found
  BY <1>2, DeletionLeaves
<1>4. reconcile.found # {}
  <2>1. CASE reconcile.found = {}
    <3>1. Active' = Active
      BY <1>3, <2>1
    <3> QED
      BY <1>1, <3>1
  <2> QED
    BY <2>1
<1>5. PICK d \in reconcile.found : reconcile.found = {d}
  BY <1>4 DEF OneDrained
<1>6. Cardinality(Active') >= Cardinality(Active) - 1
  <2>1. Active' = Active \ {d}
    BY <1>3, <1>5
  <2>2. Cardinality(Active \ {d}) = IF d \in Active THEN Cardinality(Active) - 1
                                    ELSE Cardinality(Active)
    BY <1>1, FS_RemoveElement
  <2> QED
    BY <1>1, <2>1, <2>2
<1>7. Cardinality(Active) > nodeGroup.min
  BY <1>4 DEF DrainAboveMin, DrainCandidate
<1>8. Cardinality(Active') \in Nat
  BY SubsetCount DEF Active
<1> QED
  BY <1>1, <1>6, <1>7, <1>8

LEMMA SimpleLeavesMinimum ==
  ASSUME TypeOK, Synced, SimpleScaleDown
  PROVE  Cardinality(Active') >= nodeGroup.min
<1>1. PICK selected \in SUBSET Found :
        /\ Cardinality(selected) <= Cardinality(Found) - CalculatedDesired
        /\ WritePhase(Deleted(selected))
  BY DEF SimpleScaleDown
<1>2. Found = Active /\ Valid(cached) /\ cached.min = nodeGroup.min
  BY DEF Found, Active, Synced, SimpleScaleDown, Reconciling
<1>3. CalculatedDesired >= nodeGroup.min /\ CalculatedDesired \in Nat
      /\ nodeGroup.min \in Nat
  <2>1. cached.min \in Nat /\ cached.max \in Nat /\ cached.desired \in Nat
    BY ConstantsAssumption DEF TypeOK, NodeGroups, Counts
  <2>2. StartedDesired \in Nat
    BY <2>1 DEF StartedDesired
  <2> QED
    BY <1>2, <2>1, <2>2 DEF CalculatedDesired, Clamp, Valid
<1>4. Active' = Active \ selected
  BY <1>1, DeletionLeaves
<1>5. /\ Cardinality(Active) \in Nat /\ Cardinality(selected) \in Nat
      /\ IsFiniteSet(Active) /\ IsFiniteSet(selected)
  BY <1>2, SubsetCount DEF Active
<1>6. Cardinality(Active') = Cardinality(Active) - Cardinality(selected)
  <2>1. Active \cap selected = selected
    BY <1>2
  <2>2. Cardinality(Active \ selected)
          = Cardinality(Active) - Cardinality(Active \cap selected)
    BY <1>5, FS_Difference
  <2> QED
    BY <1>4, <2>1, <2>2
<1> QED
  BY <1>1, <1>2, <1>3, <1>5, <1>6

LEMMA MinimumStep ==
  ASSUME Failing = {}, TypeOK, Synced, NoFailures,
         reconcile.step = "drain" => OneDrained, DrainAboveMin,
         [Next]_vars, nodeGroup.life = "live", Cardinality(Active') < Cardinality(Active)
  PROVE  Cardinality(Active') >= nodeGroup.min
<1>1. CASE SimpleScaleDown
  BY <1>1, SimpleLeavesMinimum
<1>2. ASSUME NEW c \in VPSieNodes, DrainCandidate(c)
      PROVE  Cardinality(Active') >= nodeGroup.min
  <2>1. OneDrained
    BY <1>2 DEF DrainCandidate
  <2> QED
    BY <1>2, <2>1, DrainLeavesMinimum
<1>3. CASE ~ SimpleScaleDown /\ \A c \in VPSieNodes : ~ DrainCandidate(c)
  <2>1. Active \subseteq Active'
    BY <1>3, ActiveKept
  <2>2. /\ Cardinality(Active) \in Nat /\ Cardinality(Active') \in Nat
        /\ Cardinality(Active) <= Cardinality(Active')
    BY <2>1, SubsetCount DEF Active
  <2> QED
    BY <2>2
<1> QED
  BY <1>1, <1>2, <1>3

MinimumInv ==
  /\ TypeOK /\ Synced /\ NoFailures /\ DrainAboveMin
  /\ reconcile.step = "drain" => OneDrained

LEMMA MinimumInvInit == Init => MinimumInv
BY InitType, InitSynced, InitMinimum DEF MinimumInv

LEMMA MinimumInvKept ==
  ASSUME ~ Lag, Failing = {}, MinimumInv, [Next]_vars, [MinStays]_vars
  PROVE  MinimumInv'
<1>1. MinStays
  BY DEF MinStays, vars
<1>2. TypeOK' /\ Synced' /\ NoFailures'
  BY NextType, SyncedKept, FailuresStayOut DEF MinimumInv
<1>3. DrainAboveMin'
  BY <1>1, DrainStaysAboveMin DEF MinimumInv
<1>4. reconcile'.step = "drain" => OneDrained'
  <2> SUFFICES ASSUME reconcile'.step = "drain" PROVE OneDrained'
    OBVIOUS
  <2>1. CASE UNCHANGED reconcile
    BY <2>1 DEF MinimumInv, OneDrained
  <2>2. CASE IntelligentScaleDown \/ UtilizationScaleDown
    BY <2>2, Picked
       DEF IntelligentScaleDown, UtilizationScaleDown, OneDrained, MinimumInv
  <2> QED
    BY <2>1, <2>2, DrainBegins DEF MinimumInv
<1> QED
  BY <1>2, <1>3, <1>4 DEF MinimumInv

\* With informer caches that are up to date and VPSieNodes that do not fail, as long
\* as nobody changes the minimum: no step takes a live group below it, also when the
\* drain and the deletion come long after the decision, in a group that has been
\* raised, or after a failover.
THEOREM MinimumKept ==
  ~ Lag /\ Failing = {} => (Spec /\ [][MinStays]_vars => MinKept)
<1> SUFFICES ASSUME ~ Lag, Failing = {}
             PROVE  Spec /\ [][MinStays]_vars => MinKept
  OBVIOUS
<1>1. MinimumInv /\ [Next]_vars /\ [MinStays]_vars => MinimumInv'
  BY MinimumInvKept
<1>2. MinimumInv /\ [Next]_vars
        => [nodeGroup.life = "live" /\ Cardinality(Active') < Cardinality(Active)
              => Cardinality(Active') >= nodeGroup.min]_vars
  BY MinimumStep DEF MinimumInv
<1> QED
  BY <1>1, <1>2, MinimumInvInit, PTL DEF Spec, MinKept

-----------------------------------------------------------------------------
(* Which VPSieNodes a simple scale-down takes.                             *)

NeverDrains == reconcile.step # "drain"

LEMMA InitNeverDrains == Init => NeverDrains
BY DEF Init, Idle, NeverDrains

LEMMA NeverDrainsKept ==
  ASSUME ~ Intelligent, TypeOK, NeverDrains, [Next]_vars PROVE NeverDrains'
BY DrainBegins DEF NeverDrains, IntelligentScaleDown, UtilizationScaleDown

LEMMA DeletedOnes ==
  ASSUME TypeOK, NEW names, WritePhase(Deleted(names)), NEW n \in VPSieNodes,
         phase[n] = "ready", phase'[n] = "deleting"
  PROVE  n \in names
BY DEF WritePhase, Deleted, TypeOK

\* Only a simple scale-down takes a ready VPSieNode from a live group.
LEMMA OthersSpareReady ==
  ASSUME TypeOK, Synced, NeverDrains, [Next]_vars, nodeGroup.life = "live",
         NEW n \in VPSieNodes, phase[n] = "ready", phase'[n] = "deleting"
  PROVE  SimpleScaleDown
<1>1. ~ UNCHANGED phase
  OBVIOUS
<1>2. CASE UNCHANGED vars \/ DeliverNodeGroup \/ DeliverVPSieNodes \/ Expire
           \/ Restart \/ ChangeSpec \/ DeleteNodeGroup
  BY <1>1, <1>2 DEF vars, DeliverNodeGroup, DeliverVPSieNodes, Expire, Restart,
                    ChangeSpec, DeleteNodeGroup, objects
<1>3. CASE AddFinalizer \/ EnsureVPSieNodeGroup \/ NoScaling \/ PatchStatus
           \/ PatchFails \/ RemoveFinalizer
  BY <1>1, <1>3 DEF AddFinalizer, EnsureVPSieNodeGroup, NoScaling, PatchStatus,
                    PatchFails, RemoveFinalizer, objects
<1>4. CASE CapacityLimitReached
  <2>1. PICK deleted \in SUBSET Within({"full"}) : WritePhase(Deleted(deleted))
    BY <1>4 DEF CapacityLimitReached
  <2>2. n \in Within({"full"})
    BY <2>1, DeletedOnes
  <2> QED
    BY <2>2 DEF Within, Synced
<1>5. CASE WaitForTransition \/ CreateFails
  BY <1>1, <1>5 DEF WaitForTransition, CreateFails, objects
<1>6. ASSUME NEW m \in VPSieNodes, CreateVPSieNode(m)
      PROVE  SimpleScaleDown
  BY <1>6 DEF CreateVPSieNode, WritePhase, TypeOK
<1>7. CASE ScalingDown
  BY <1>1, <1>7 DEF ScalingDown, IntelligentScaleDown, UtilizationScaleDown,
                    DrainCandidate, DrainFails, NeverDrains, objects
<1>8. CASE DeleteVPSieNodes
  BY <1>8 DEF DeleteVPSieNodes, Deleting, Synced
<1>9. ASSUME NEW w \in Watchers, Decide(w) \/ Execute(w)
      PROVE  SimpleScaleDown
  BY <1>1, <1>9 DEF Decide, Execute, objects
<1>10. ASSUME NEW m \in VPSieNodes, LifeCycle(m)
       PROVE  SimpleScaleDown
  <2>1. ASSUME NEW from, NEW to, MovePhase(m, from, to),
               from # "ready" \/ to # "deleting"
        PROVE  FALSE
    BY <2>1 DEF MovePhase, WritePhase, TypeOK
  <2> QED
    BY <1>1, <1>10, <2>1 DEF LifeCycle, objects
<1> QED
  BY <1>2, <1>3, <1>4, <1>5, <1>6, <1>7, <1>8, <1>9, <1>10 DEF Next, Reconcile, ScalingUp

\* A group that wants a VPSieNode keeps one of those it lists.
LEMMA NotAllGo ==
  ASSUME TypeOK, Synced, Valid(cached), nodeGroup.desired > 0 \/ nodeGroup.min > 0
  PROVE  ~ (Cardinality(Found) - CalculatedDesired >= Cardinality(Found))
<1>1. /\ cached.min \in Nat /\ cached.max \in Nat /\ cached.desired \in Nat
      /\ cached.max >= 1 /\ cached.min <= cached.max
      /\ cached.desired > 0 \/ cached.min > 0
  BY DEF TypeOK, NodeGroups, Counts, Valid, Synced
<1>2. CalculatedDesired \in Nat \ {0}
  BY <1>1 DEF CalculatedDesired, StartedDesired, Clamp
<1> QED
  BY <1>2, FoundCount

LEMMA UnreadyStep ==
  ASSUME TypeOK, Synced, NeverDrains, [Next]_vars, nodeGroup.life = "live",
         nodeGroup.desired > 0 \/ nodeGroup.min > 0,
         \E n \in VPSieNodes : phase[n] = "ready" /\ phase'[n] = "deleting"
  PROVE  \A n \in Active' : phase[n] = "ready"
<1>1. PICK n \in VPSieNodes : phase[n] = "ready" /\ phase'[n] = "deleting"
  OBVIOUS
<1>2. SimpleScaleDown
  BY <1>1, OthersSpareReady
<1>3. PICK selected \in SUBSET Found :
        /\ SelectedFor(selected, Cardinality(Found) - CalculatedDesired)
        /\ WritePhase(Deleted(selected))
  BY <1>2 DEF SimpleScaleDown
<1>4. n \in selected \cap Within({"ready"})
  BY <1>1, <1>3, DeletedOnes DEF Within, Found, Synced, Live
<1>5. Found \ Within({"ready"}) \subseteq selected
  BY <1>2, <1>3, <1>4, NotAllGo DEF SelectedFor, SimpleScaleDown, Reconciling
<1>6. Active' = Found \ selected
  BY <1>3, DeletionLeaves DEF Found, Active, Synced
<1> QED
  BY <1>5, <1>6 DEF Within, Synced

\* With informer caches that are up to date and without a ScaleDownManager, however
\* VPSieNodes fail, deletions fail half-way and the spec changes: a scale-down takes a
\* ready VPSieNode of a live group only when it leaves none that is not ready, unless
\* the group is to shrink to nothing.
THEOREM UnreadyGoFirst == ~ Lag /\ ~ Intelligent => (Spec => UnreadyFirst)
<1> SUFFICES ASSUME ~ Lag, ~ Intelligent PROVE Spec => UnreadyFirst
  OBVIOUS
<1>1. TypeOK /\ Synced /\ [Next]_vars => Synced'
  BY SyncedKept
<1>2. TypeOK /\ NeverDrains /\ [Next]_vars => NeverDrains'
  BY NeverDrainsKept
<1>3. TypeOK /\ Synced /\ NeverDrains /\ [Next]_vars
        => [(\E n \in VPSieNodes : phase[n] = "ready" /\ phase'[n] = "deleting")
              /\ nodeGroup.life = "live"
              /\ (nodeGroup.desired > 0 \/ nodeGroup.min > 0)
              => \A n \in Active' : phase[n] = "ready"]_vars
  BY UnreadyStep
<1> QED
  BY <1>1, <1>2, <1>3, InitType, InitSynced, InitNeverDrains, NextType, PTL
     DEF Spec, UnreadyFirst

=============================================================================
