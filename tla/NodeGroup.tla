------------------------------- MODULE NodeGroup -------------------------------
(***************************************************************************)
(* One NodeGroup, the reconciler that scales it                            *)
(* (src/pkg/controller/nodegroup), and the scale-up controllers that raise *)
(* its desired node count (src/pkg/events/scaleup.go, watcher.go).         *)
(*                                                                         *)
(* There is one reconcile at a time (MaxConcurrentReconciles is 1, leader  *)
(* only).  It reads the NodeGroup and its VPSieNodes from the informer     *)
(* caches, creates, drains or deletes, and at last patches the status.     *)
(* Every replica runs a scale-up controller of its own, leader or not.     *)
(* The life of a VPSieNode is that of module VPSieNode, seen from outside. *)
(***************************************************************************)
EXTENDS Integers, FiniteSets

CONSTANTS
  VPSieNodes,     \* names of VPSieNodes; a forgotten one stands for a fresh one
  Watchers,       \* replicas, each with an event watcher
  Limit,          \* the largest node count somebody asks for
  Lag,            \* may the informer caches be behind?
  Intelligent,    \* is there a ScaleDownManager?
  Failing,        \* VPSieNodes that may fail
  Changes,        \* bound: how often the spec is changed
  Demand          \* bound: how often pending pods ask for a node

ASSUME ConstantsAssumption ==
  /\ IsFiniteSet(VPSieNodes) /\ Failing \subseteq VPSieNodes
  /\ Limit \in Nat \ {0} /\ Changes \in Nat /\ Demand \in Nat
  /\ Lag \in BOOLEAN /\ Intelligent \in BOOLEAN

VARIABLES
  nodeGroup,      \* the NodeGroup in the API server
  cached,         \* the NodeGroup in the informer cache
  current,        \* does the cache hold the latest version?
  phase,          \* of each VPSieNode, with its existence
  listed,         \* phase in the informer cache
  node,           \* the Kubernetes Node of each VPSieNode
  reconcile,      \* the reconcile under way
  cooling,        \* ScaleDownManager: is the last scale-down recent?
  decision,       \* of each watcher: the desired count it will set, or None
  cooldown,       \* of each watcher: is its last scale event recent?
  changes, demand

kubernetes == <<nodeGroup, cached, current>>
objects == <<phase, listed>>
watchers == <<decision, cooldown>>
vars == <<nodeGroup, cached, current, phase, listed, node, reconcile, cooling,
          decision, cooldown, changes, demand>>

None == -1

\* "new" is a VPSieNode without a phase, "transition" Pending to Joining,
\* "full" a failure for reaching the capacity limit of the cluster, "deleting"
\* any phase with a deletion timestamp.
PhasesOf == {"none", "new", "transition", "ready", "failed", "full", "deleting"}
Live == {"new", "transition", "ready", "failed", "full"}

Counts == 0..Limit

NodeGroups == [min : Counts, max : Counts, desired : Counts, ready : Nat,
               group : BOOLEAN,      \* is VPSieGroupID set?
               recent : BOOLEAN,     \* is LastScaleTime recent?
               finalizer : BOOLEAN,
               life : {"live", "deleting", "gone"}]

\* What a reconcile has read, and what it wants the status to be.
Reconciles == [step : {"idle", "drain", "patch"}, found : SUBSET VPSieNodes,
               readDesired : Counts, readReady : Nat,
               desired : Counts, ready : Nat,
               scaled : BOOLEAN,     \* sets LastScaleTime
               candidate : SUBSET VPSieNodes]

Active == {n \in VPSieNodes : phase[n] \in Live}

TypeOK ==
  /\ nodeGroup \in NodeGroups /\ cached \in NodeGroups /\ current \in BOOLEAN
  /\ phase \in [VPSieNodes -> PhasesOf] /\ listed \in [VPSieNodes -> PhasesOf]
  /\ node \in [VPSieNodes -> {"none", "schedulable", "cordoned"}]
  /\ reconcile \in Reconciles
  /\ cooling \in BOOLEAN
  /\ decision \in [Watchers -> Counts \cup {None}]
  /\ cooldown \in [Watchers -> BOOLEAN]
  /\ changes \in 0..Changes /\ demand \in 0..Demand

NewNodeGroup(min, max) ==
  [min |-> min, max |-> max, desired |-> 0, ready |-> 0, group |-> FALSE,
   recent |-> FALSE, finalizer |-> FALSE, life |-> "live"]

Idle == [step |-> "idle", found |-> {}, readDesired |-> 0, readReady |-> 0,
         desired |-> 0, ready |-> 0, scaled |-> FALSE, candidate |-> {}]

Init ==
  /\ \E min \in Counts, max \in Counts \ {0} :
       min <= max /\ nodeGroup = NewNodeGroup(min, max)
  /\ cached = nodeGroup /\ current = TRUE
  /\ phase = [n \in VPSieNodes |-> "none"] /\ listed = phase
  /\ node = [n \in VPSieNodes |-> "none"]
  /\ reconcile = Idle /\ cooling = FALSE
  /\ decision = [w \in Watchers |-> None]
  /\ cooldown = [w \in Watchers |-> FALSE]
  /\ changes = 0 /\ demand = 0

-----------------------------------------------------------------------------
(* The API server and the informer caches.                                 *)

Write(object) ==
  /\ nodeGroup' = object
  /\ \/ cached' = object /\ current' = TRUE
     \/ Lag /\ cached' = cached /\ current' = FALSE

WritePhase(phases) ==
  /\ phase' = phases
  /\ \/ listed' = phases
     \/ Lag /\ listed' = listed

\* An Update of the object as it was read conflicts if it has changed since.
Update(object) ==
  \/ current /\ Write(object)
  \/ UNCHANGED kubernetes

DeliverNodeGroup ==
  /\ ~ current /\ cached' = nodeGroup /\ current' = TRUE
  /\ UNCHANGED <<nodeGroup, objects, node, reconcile, cooling, watchers, changes,
                 demand>>

DeliverVPSieNodes ==
  /\ listed # phase /\ listed' = phase
  /\ UNCHANGED <<kubernetes, phase, node, reconcile, cooling, watchers, changes,
                 demand>>

-----------------------------------------------------------------------------
(* The reconciler: reading.                                                *)

Starts == reconcile.step = "idle" /\ cached.life = "live"

\* Reconcile adds the finalizer first.
AddFinalizer ==
  /\ Starts /\ ~ cached.finalizer
  /\ Update([nodeGroup EXCEPT !.finalizer = TRUE])
  /\ UNCHANGED <<objects, node, reconcile, cooling, watchers, changes, demand>>

\* ValidateNodeGroupSpec: a NodeGroup it rejects only gets conditions.
Valid(spec) == spec.min <= spec.max /\ spec.max >= 1

\* ensureVPSieNodeGroup finds the VPSie group by its name, or creates it, and
\* patches its number into the status.
EnsureVPSieNodeGroup ==
  /\ Starts /\ cached.finalizer /\ Valid(cached) /\ ~ cached.group
  /\ \/ Write([nodeGroup EXCEPT !.group = TRUE])
     \/ UNCHANGED kubernetes
  /\ UNCHANGED <<objects, node, reconcile, cooling, watchers, changes, demand>>

\* Mutant of Found: VPSieNodes that are being deleted count.
FoundDeletingMutant == {n \in VPSieNodes : listed[n] # "none"}

\* Mutant of Found: only VPSieNodes with a phase count.
FoundPhasedMutant == {n \in VPSieNodes : listed[n] \in Live \ {"new"}}

\* listVPSieNodesForNodeGroup: those without a deletion timestamp.
Found == {n \in VPSieNodes : listed[n] \in Live}

Within(phases) == {n \in Found : listed[n] \in phases}

Clamp(count, low, high) ==
  IF count < low THEN low ELSE IF count > high THEN high ELSE count

\* UpdateNodeGroupStatus: a count that is not set (0) starts at the minimum.
StartedDesired == IF cached.desired = 0 THEN cached.min ELSE cached.desired

CalculatedDesired == Clamp(StartedDesired, cached.min, cached.max)

\* The reconcile as it goes on to its next step.  SetDesiredNodes sets
\* LastScaleTime with every change it makes.
Continue(step, desired) ==
  [step |-> step, found |-> {},
   readDesired |-> cached.desired, readReady |-> cached.ready,
   desired |-> desired, ready |-> Cardinality(Within({"ready"})),
   scaled |-> desired # StartedDesired, candidate |-> {}]

Reconciling ==
  /\ Starts /\ cached.finalizer /\ Valid(cached) /\ cached.group
  /\ UNCHANGED <<kubernetes, cooling, watchers, changes, demand>>

\* Deletions that the API server accepts: of VPSieNodes it still has.
Deleted(names) ==
  [n \in VPSieNodes |->
     IF n \in names /\ phase[n] \in Live THEN "deleting" ELSE phase[n]]

-----------------------------------------------------------------------------
(* The reconciler: scaling up, one VPSieNode at a time.                    *)

\* Mutant of NeedsScaleUp: the maximum is never reached.
NeedsScaleUpMutant ==
  /\ Cardinality(Found) < CalculatedDesired
  /\ Cardinality(Found) + 1 < cached.max

NeedsScaleUp ==
  /\ Cardinality(Found) < CalculatedDesired
  /\ Cardinality(Found) < cached.max

\* Failures for the capacity limit are cleaned up, those that can be, and
\* nothing is created.  No error is returned.
CapacityLimitReached ==
  /\ Reconciling /\ NeedsScaleUp
  /\ \E deleted \in SUBSET Within({"full"}) : WritePhase(Deleted(deleted))
  /\ Within({"full"}) # {}
  /\ reconcile' = Continue("patch", CalculatedDesired)
  /\ UNCHANGED node

WaitForTransition ==
  /\ Reconciling /\ NeedsScaleUp
  /\ Within({"full"}) = {} /\ Within({"transition"}) # {}
  /\ reconcile' = Continue("patch", CalculatedDesired)
  /\ UNCHANGED <<objects, node>>

MayCreate ==
  /\ Reconciling /\ NeedsScaleUp
  /\ Within({"full", "transition"}) = {}

\* A random suffix makes the name a fresh one.
CreateVPSieNode(n) ==
  /\ MayCreate /\ phase[n] = "none" /\ listed[n] = "none"
  /\ WritePhase([phase EXCEPT ![n] = "new"])
  /\ reconcile' = Continue("patch", CalculatedDesired)
  /\ UNCHANGED node

CreateFails ==
  /\ MayCreate
  /\ reconcile' = Continue("patch", CalculatedDesired)
  /\ UNCHANGED <<objects, node>>

-----------------------------------------------------------------------------
(* The reconciler: scaling down.                                           *)

NeedsScaleDown ==
  /\ Cardinality(Found) > CalculatedDesired
  /\ Cardinality(Found) > cached.min

\* The Nodes that IdentifyUnderutilizedNodes looks at, which it reads from the
\* API server: a cordoned one is left out.
Underutilizable == {n \in VPSieNodes : node[n] = "schedulable"}

\* reconcileIntelligentScaleDown: MaxNodesPerScaleDown is 1, so at most one
\* candidate is left, which may be a Node whose VPSieNode has not been read.
PickCandidate(desired) ==
  \/ \E c \in Underutilizable :
       reconcile' = [Continue("drain", desired)
                       EXCEPT !.candidate = {c}, !.found = Found \cap {c}]
  \/ reconcile' = Continue("patch", desired)

IntelligentScaleDown ==
  /\ Reconciling /\ Intelligent
  /\ NeedsScaleDown
  /\ PickCandidate(CalculatedDesired)
  /\ UNCHANGED <<objects, node>>

\* Mutant of UtilizationScaleDown: the minimum is not checked.
UtilizationScaleDownMutant ==
  /\ Reconciling /\ Intelligent
  /\ ~ NeedsScaleUp /\ ~ NeedsScaleDown
  /\ ~ cached.recent /\ CalculatedDesired = StartedDesired
  /\ Underutilizable # {}
  /\ PickCandidate(Cardinality(Found) - 1)
  /\ UNCHANGED <<objects, node>>

\* No scaling is called for, but a Node is underutilized and no scaling is
\* recent (evaluateUtilizationBasedScaleDown).
UtilizationScaleDown ==
  /\ Reconciling /\ Intelligent
  /\ ~ NeedsScaleUp /\ ~ NeedsScaleDown
  /\ Cardinality(Found) > cached.min
  /\ ~ cached.recent /\ CalculatedDesired = StartedDesired
  /\ Underutilizable # {}
  /\ PickCandidate(Cardinality(Found) - 1)
  /\ UNCHANGED <<objects, node>>

NoScaling ==
  /\ Reconciling
  /\ ~ NeedsScaleUp /\ ~ NeedsScaleDown
  /\ reconcile' = Continue("patch", CalculatedDesired)
  /\ UNCHANGED <<objects, node>>

\* ScaleDown drains the candidate, or skips it without an error: in the
\* cooldown, or when a safety check or a policy is against it.  In both cases
\* the VPSieNode is deleted if the reconcile has read it, or the deletion fails
\* without consequences.
DrainCandidate(c) ==
  /\ reconcile.step = "drain" /\ c \in reconcile.candidate
  /\ \/ UNCHANGED <<node, cooling>>
     \/ /\ ~ cooling /\ node[c] # "none"
        /\ node' = [node EXCEPT ![c] = "cordoned"] /\ cooling' = TRUE
  /\ WritePhase(Deleted(reconcile.found)) \/ UNCHANGED objects
  /\ reconcile' = [reconcile EXCEPT !.step = "patch", !.candidate = {},
                                    !.found = {}]
  /\ UNCHANGED <<kubernetes, watchers, changes, demand>>

\* A drain that fails leaves the Node cordoned, unless cordoning it failed.
DrainFails(c) ==
  /\ reconcile.step = "drain" /\ c \in reconcile.candidate
  /\ \/ UNCHANGED node
     \/ ~ cooling /\ node[c] # "none" /\ node' = [node EXCEPT ![c] = "cordoned"]
  /\ reconcile' = [reconcile EXCEPT !.step = "patch", !.candidate = {},
                                    !.found = {}]
  /\ UNCHANGED <<kubernetes, objects, cooling, watchers, changes, demand>>

\* Mutant of SelectedFor: ready VPSieNodes first.
SelectedForMutant(selected, count) ==
  selected \ Within({"ready"}) # {} => Within({"ready"}) \subseteq selected

\* A first part of what selectNodesToDelete returns: the ready VPSieNodes come
\* last, unless all are to go, when the list is not sorted.
SelectedFor(selected, count) ==
  \/ count >= Cardinality(Found)
  \/ selected \cap Within({"ready"}) # {} => Found \ Within({"ready"}) \subseteq selected

\* reconcileSimpleScaleDown, without a ScaleDownManager: it stops at the first
\* deletion that fails.
SimpleScaleDown ==
  /\ Reconciling /\ ~ Intelligent
  /\ NeedsScaleDown
  /\ \E selected \in SUBSET Found :
       LET excess == Cardinality(Found) - CalculatedDesired
       IN  /\ Cardinality(selected) <= excess /\ SelectedFor(selected, excess)
           /\ WritePhase(Deleted(selected))
           /\ reconcile' = Continue("patch", CalculatedDesired)
  /\ UNCHANGED node

-----------------------------------------------------------------------------
(* The reconciler: patching the status, and deleting the NodeGroup.        *)

\* The patch holds the fields that differ from what the reconcile has read, and
\* no resource version: it never conflicts.
PatchStatus ==
  /\ reconcile.step = "patch"
  /\ nodeGroup.life # "gone"
  /\ Write([nodeGroup EXCEPT
              !.desired = IF reconcile.desired # reconcile.readDesired
                          THEN reconcile.desired ELSE @,
              !.ready = IF reconcile.ready # reconcile.readReady
                        THEN reconcile.ready ELSE @,
              !.recent = @ \/ reconcile.scaled])
  /\ reconcile' = Idle
  /\ UNCHANGED <<objects, node, cooling, watchers, changes, demand>>

PatchFails ==
  /\ reconcile.step = "patch"
  /\ reconcile' = Idle
  /\ UNCHANGED <<kubernetes, objects, node, cooling, watchers, changes, demand>>

\* Mutant of Deleting: only a NodeGroup with a VPSie group has to be cleaned up.
DeletingMutant ==
  /\ reconcile.step = "idle"
  /\ cached.life = "deleting" /\ cached.finalizer /\ cached.group

Deleting ==
  /\ reconcile.step = "idle"
  /\ cached.life = "deleting" /\ cached.finalizer

\* reconcileDelete deletes the VPSieNodes, up to the first failure.
DeleteVPSieNodes ==
  /\ Deleting /\ Found # {}
  /\ \E deleted \in SUBSET Found \ {{}} : WritePhase(Deleted(deleted))
  /\ UNCHANGED <<kubernetes, node, reconcile, cooling, watchers, changes, demand>>

\* Found leaves out the VPSieNodes that are being deleted, so nobody waits for
\* them.
RemoveFinalizer ==
  /\ Deleting /\ Found = {}
  /\ Update([nodeGroup EXCEPT !.finalizer = FALSE, !.life = "gone"])
  /\ UNCHANGED <<objects, node, reconcile, cooling, watchers, changes, demand>>

-----------------------------------------------------------------------------
(* The scale-up controllers.                                               *)

\* Mutant of Decide: the maximum is off by one.
DecideMutant(w) ==
  /\ demand < Demand /\ decision[w] = None
  /\ cached.life # "gone"
  /\ ~ cooldown[w]
  /\ cached.desired <= cached.max /\ cached.desired < Limit
  /\ cached.desired <= cached.ready
  /\ decision' = [decision EXCEPT ![w] = cached.desired + 1]
  /\ demand' = demand + 1
  /\ UNCHANGED <<kubernetes, objects, node, reconcile, cooling, cooldown, changes>>

\* HandleScaleUp and makeScaleUpDecision: pods are pending that fit the
\* NodeGroup.  One node is asked for, and only when none is on its way.
Decide(w) ==
  /\ demand < Demand /\ decision[w] = None
  /\ cached.life # "gone"
  /\ ~ cooldown[w]
  /\ cached.desired < cached.max
  /\ cached.desired <= cached.ready
  /\ decision' = [decision EXCEPT ![w] = cached.desired + 1]
  /\ demand' = demand + 1
  /\ UNCHANGED <<kubernetes, objects, node, reconcile, cooling, cooldown, changes>>

\* executeScaleUp reads the NodeGroup again.  It gives way to whoever asks for
\* as many nodes already, and to any change it has not seen (a conflict).
Execute(w) ==
  /\ decision[w] # None
  /\ decision' = [decision EXCEPT ![w] = None]
  /\ \/ /\ cached.life # "gone" /\ cached.desired >= decision[w]
        /\ cooldown' = [cooldown EXCEPT ![w] = TRUE]
        /\ UNCHANGED kubernetes
     \/ /\ cached.life # "gone" /\ cached.desired < decision[w] /\ current
        /\ Write([nodeGroup EXCEPT !.desired = decision[w], !.recent = TRUE])
        /\ cooldown' = [cooldown EXCEPT ![w] = TRUE]
     \/ /\ cached.life = "gone" \/ cached.desired < decision[w]
        /\ UNCHANGED <<kubernetes, cooldown>>
  /\ UNCHANGED <<objects, node, reconcile, cooling, changes, demand>>

-----------------------------------------------------------------------------
(* Time, restarts, users, and the VPSieNodes.                              *)

Expire ==
  /\ \/ /\ nodeGroup.recent \/ cached.recent
        /\ nodeGroup' = [nodeGroup EXCEPT !.recent = FALSE]
        /\ cached' = [cached EXCEPT !.recent = FALSE]
        /\ UNCHANGED <<cooling, cooldown>>
     \/ cooling /\ cooling' = FALSE /\ UNCHANGED <<nodeGroup, cached, cooldown>>
     \/ \E w \in Watchers :
          /\ cooldown[w] /\ cooldown' = [cooldown EXCEPT ![w] = FALSE]
          /\ UNCHANGED <<nodeGroup, cached, cooling>>
  /\ UNCHANGED <<current, objects, node, reconcile, decision, changes, demand>>

\* The leader, or it and its watcher, start afresh.  Only memory is lost.
Restart ==
  /\ reconcile' = Idle /\ cooling' = FALSE
  /\ \E lost \in SUBSET Watchers :
       /\ decision' = [w \in Watchers |-> IF w \in lost THEN None ELSE decision[w]]
       /\ cooldown' = [w \in Watchers |-> cooldown[w] /\ w \notin lost]
  /\ UNCHANGED <<kubernetes, objects, node, changes, demand>>

\* A user, or the AutoscalerConfig that is applied to the managed NodeGroups.
ChangeSpec ==
  /\ changes < Changes /\ changes' = changes + 1
  /\ nodeGroup.life = "live"
  /\ \E min \in Counts, max \in Counts \ {0} :
       Write([nodeGroup EXCEPT !.min = min, !.max = max])
  /\ UNCHANGED <<objects, node, reconcile, cooling, watchers, demand>>

DeleteNodeGroup ==
  /\ changes < Changes /\ changes' = changes + 1
  /\ nodeGroup.life = "live"
  /\ Write([nodeGroup EXCEPT
              !.life = IF nodeGroup.finalizer THEN "deleting" ELSE "gone"])
  /\ UNCHANGED <<objects, node, reconcile, cooling, watchers, demand>>

MovePhase(n, from, to) ==
  phase[n] = from /\ WritePhase([phase EXCEPT ![n] = to])

\* What the VPSieNode controller makes of a VPSieNode (module VPSieNode), and
\* the garbage collector of those whose owner is gone.
LifeCycle(n) ==
  /\ \/ MovePhase(n, "new", "transition") /\ UNCHANGED node
     \/ /\ MovePhase(n, "transition", "ready")
        /\ node' = [node EXCEPT ![n] = "schedulable"]
     \/ /\ n \in Failing /\ UNCHANGED node
        /\ \/ MovePhase(n, "transition", "failed")
           \/ MovePhase(n, "transition", "full")
           \/ MovePhase(n, "ready", "failed")
     \/ /\ MovePhase(n, "failed", "deleting") \/ MovePhase(n, "full", "deleting")
        /\ UNCHANGED node
     \/ /\ phase[n] = "deleting" /\ node[n] = "schedulable"
        /\ node' = [node EXCEPT ![n] = "cordoned"] /\ UNCHANGED objects
     \/ /\ MovePhase(n, "deleting", "none")
        /\ node' = [node EXCEPT ![n] = "none"]
     \/ /\ nodeGroup.life = "gone" /\ UNCHANGED node
        /\ \E from \in Live : MovePhase(n, from, "deleting")
  /\ UNCHANGED <<kubernetes, reconcile, cooling, watchers, changes, demand>>

-----------------------------------------------------------------------------

ScalingUp ==
  \/ CapacityLimitReached \/ WaitForTransition \/ CreateFails
  \/ \E n \in VPSieNodes : CreateVPSieNode(n)

ScalingDown ==
  \/ IntelligentScaleDown \/ UtilizationScaleDown \/ SimpleScaleDown
  \/ \E c \in VPSieNodes : DrainCandidate(c) \/ DrainFails(c)

Reconcile ==
  \/ AddFinalizer \/ EnsureVPSieNodeGroup
  \/ ScalingUp \/ ScalingDown \/ NoScaling
  \/ PatchStatus \/ PatchFails
  \/ DeleteVPSieNodes \/ RemoveFinalizer

Next ==
  \/ DeliverNodeGroup \/ DeliverVPSieNodes
  \/ Expire \/ Restart \/ ChangeSpec \/ DeleteNodeGroup
  \/ Reconcile
  \/ \E w \in Watchers : Decide(w) \/ Execute(w)
  \/ \E n \in VPSieNodes : LifeCycle(n)

Spec == Init /\ [][Next]_vars

\* The workqueue of the reconciler and those of the VPSieNode controller run;
\* calls that are retried are accepted at some time.  Nothing is fair about the
\* users, the watchers, failures and restarts.
Fairness ==
  /\ WF_vars(DeliverNodeGroup) /\ WF_vars(DeliverVPSieNodes)
  /\ WF_vars(AddFinalizer) /\ WF_vars(EnsureVPSieNodeGroup)
  /\ SF_vars(\E n \in VPSieNodes : CreateVPSieNode(n))
  /\ WF_vars(\E c \in VPSieNodes : DrainCandidate(c) \/ DrainFails(c))
  /\ WF_vars(PatchStatus \/ PatchFails)
  /\ WF_vars(DeleteVPSieNodes) /\ WF_vars(RemoveFinalizer)
  /\ \A n \in VPSieNodes : WF_vars(LifeCycle(n))

FairSpec == Spec /\ Fairness

-----------------------------------------------------------------------------
(* Properties.                                                             *)

\* The group never grows beyond its maximum, however creations, failures,
\* deletions and changes of the spec alternate (reconcileScaleUp, and the list
\* it counts).  It needs caches that are up to date.
MaxKept ==
  [][Cardinality(Active') > Cardinality(Active)
       => Cardinality(Active') <= nodeGroup.max]_vars

\* No scale-down takes a live group below its minimum, whatever happens between
\* the decision, the drain and the deletion (listVPSieNodesForNodeGroup,
\* evaluateUtilizationBasedScaleDown).
MinKept ==
  [][nodeGroup.life = "live" /\ Cardinality(Active') < Cardinality(Active)
       => Cardinality(Active') >= nodeGroup.min]_vars

\* The reconciler and the scale-up controllers of all replicas write the
\* desired count, each from what it has read: while the spec stays it does not
\* exceed the maximum (CalculateDesiredNodes, makeScaleUpDecision).
DesiredInRange == nodeGroup.desired <= nodeGroup.max

\* A ready VPSieNode is deleted by a scale-down only when none that is not
\* ready is kept, however deletions fail half way (selectNodesToDelete,
\* reconcileSimpleScaleDown).  A group that shrinks to nothing is the exception.
UnreadyFirst ==
  [][(\E n \in VPSieNodes : phase[n] = "ready" /\ phase'[n] = "deleting")
       /\ nodeGroup.life = "live" /\ (nodeGroup.desired > 0 \/ nodeGroup.min > 0)
       => \A n \in Active' : phase[n] = "ready"]_vars

Fails == \E n \in VPSieNodes : phase'[n] \in {"failed", "full"} \ {phase[n]}

\* A live group that lacks VPSieNodes gets them, whatever it has to clean up or
\* to wait for first, unless they go on failing for ever (reconcileScaleUp).
ScaleUpHappens ==
  <>[][~ Fails]_vars =>
    ((Cardinality(Active) < nodeGroup.desired)
       ~> \/ Cardinality(Active) >= nodeGroup.desired
          \/ Cardinality(Active) >= nodeGroup.max
          \/ nodeGroup.life # "live" \/ ~ Valid(nodeGroup))

\* A NodeGroup that is deleted goes, and its VPSieNodes with it
\* (reconcileDelete, and the owner references set by reconcileScaleUp).
DeletionCompletes ==
  (nodeGroup.life = "deleting")
    ~> nodeGroup.life = "gone" /\ \A n \in VPSieNodes : phase[n] = "none"

-----------------------------------------------------------------------------
(* What comments say, and the code does not do.                            *)

\* reconciler.go:385 "After successful drain, delete the corresponding VPSieNode
\* CRs": those whose drain was skipped are deleted too.
DrainedBeforeDeleted ==
  [][\A c \in reconcile.found :
       reconcile.step = "drain" /\ reconcile'.step = "patch"
         /\ phase[c] \in Live /\ phase'[c] = "deleting"
       => node'[c] # "schedulable"]_vars

\* reconciler.go:193 "Apply status changes with optimistic locking": a reconcile
\* takes the desired count down only from the value it has read, so that the
\* raise of a scale-up controller in between is not lost (PatchStatus).
RaiseNotLost ==
  [][nodeGroup'.desired < nodeGroup.desired
       => nodeGroup.desired = reconcile.readDesired]_vars

\* controller.go:435 "Wait for all VPSieNodes to be deleted": the finalizer stays
\* while VPSieNodes exist (reconcileDelete).
FinalizerWaits ==
  [][nodeGroup.finalizer /\ ~ nodeGroup'.finalizer
       => \A n \in VPSieNodes : phase[n] = "none"]_vars

=============================================================================
