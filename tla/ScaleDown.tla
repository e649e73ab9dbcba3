------------------------------- MODULE ScaleDown -------------------------------
(***************************************************************************)
(* The ScaleDownManager (src/pkg/scaler) and the pass of the NodeGroup     *)
(* reconciler that uses it: the collection of utilization samples, the     *)
(* choice of an underutilized Node, the safety checks and policies, the    *)
(* drain, the cooldown, and the deletion of the VPSieNode.                 *)
(*                                                                         *)
(* One NodeGroup is scaled down, next to Nodes that are not its own.  Time *)
(* passes in ticks, one interval of the metrics collection each.  CPU and  *)
(* memory go through the same computations; one resource stands for both.  *)
(* How a drain evicts pods is the subject of module Drain, when the        *)
(* reconciler wants fewer nodes that of module NodeGroup.                  *)
(***************************************************************************)
EXTENDS Naturals, FiniteSets, FiniteSetsExt, Functions, Sequences

CONSTANTS
  Group,        \* the Nodes of the NodeGroup, created because of metrics
  Foreign,      \* the other Nodes of the cluster, of any creation reason
  None,         \* no Node
  Capacity,     \* the allocatable resource of a Node
  MinNodes,     \* spec.minNodes
  Pods,
  Requests,     \* what each pod asks for
  Spread,       \* pods that repel each other (kubernetes.io/hostname)
  LocalStorage, \* pods with data on their Node
  SystemPods,   \* pods of kube-system
  Critical,     \* of these, the ones of the control plane
  Window, MaxStaleness, Cooldown,   \* in ticks
  MaxSamples,
  Threshold,    \* CPUThreshold and MemoryThreshold, in percent
  Low, High,    \* the utilizations a Node can show
  Moody,        \* the Nodes whose utilization changes
  Silent,       \* the Nodes that metrics-server may not report
  Shaky,        \* the Nodes that may become not ready
  Protectable,  \* the Nodes that a user may protect
  PolicyEnabled, \* spec.scaleDownPolicy.enabled
  Day,          \* the ticks of a day
  AllowedHours  \* of each Node: its annotated <<start, end>>; <<0, Day>> when
                \* it has no such annotation, or one that can not be parsed

Nodes == Group \cup Foreign

ASSUME ConstantsAssumption ==
  /\ IsFiniteSet(Nodes) /\ IsFiniteSet(Pods)
  /\ Group \cap Foreign = {} /\ None \notin Nodes
  /\ {MinNodes, Window, MaxStaleness, Cooldown, Threshold, Low, High} \subseteq Nat
  /\ {Capacity, MaxSamples, Day} \subseteq Nat \ {0}
  /\ Requests \in [Pods -> Nat]
  /\ Spread \cup LocalStorage \cup SystemPods \subseteq Pods /\ Critical \subseteq SystemPods
  /\ Low < Threshold /\ Threshold <= High
  /\ Moody \cup Silent \cup Shaky \cup Protectable \subseteq Nodes
  /\ PolicyEnabled \in BOOLEAN
  /\ AllowedHours \in [Nodes -> (0..Day - 1) \X (0..Day)]

VARIABLES
  node,      \* the Nodes in the API server, and their VPSieNodes
  place,     \* where each pod runs; None: it is pending
  load,      \* the utilization that metrics-server would show
  samples,   \* nodeUtilization of the Nodes of the group
  sinceDown, \* ticks since lastScaleDown, Cooldown: long ago or never
  pass,      \* the pass of the reconciler over the NodeGroup
  clock,     \* the time of the day
  busyFor,   \* history: for how many ticks the utilization has been high
  quiet      \* history: since the pods of the candidate were listed, no Node has
             \* become unready or gone, and no pod has been bound

cluster == <<node, place>>
memory == <<samples, sinceDown>>
history == <<busyFor, quiet>>
vars == <<node, place, load, samples, sinceDown, pass, clock, busyFor, quiet>>

-----------------------------------------------------------------------------

\* An age from which on a sample, or a spell of load, makes no difference.
Old == (IF Window >= MaxStaleness THEN Window ELSE MaxStaleness) + 1

\* The ticks for which samples, by their age and their share, hide a busy Node.
Tolerated == IF Window <= MaxStaleness + 3 THEN MaxStaleness ELSE Window - 3

Samples == [age : 0..Old, load : {Low, High}]

\* life: a VPSieNode that is "leaving" is being deleted, its Node still there.
NodeObjects ==
  [life : {"here", "leaving", "gone"}, ready : BOOLEAN, cordoned : BOOLEAN,
   protected : BOOLEAN]

\* The samples of a Node, and their average in tenths of a percent.
Records ==
  [list : UNION {[1..k -> Samples] : k \in 0..MaxSamples}, average : 10 * Low..10 * High]

NoRecord == [list |-> << >>, average |-> 10 * Low]

\* The steps of a pass that follow the listing of the candidate's pods.
Checked == {"rescheduling", "affinity", "capacity", "cordon"}

\* The step of a pass and its candidate (MaxNodesPerScaleDown is 1); the pods that were
\* listed; is the candidate's Node still as it was read?
Passes ==
  [step : {"idle", "chosen", "drain"} \cup Checked, candidate : Group \cup {None},
   pods : SUBSET Pods, fresh : BOOLEAN]

Idle == [step |-> "idle", candidate |-> None, pods |-> {}, fresh |-> TRUE]

TypeOK ==
  /\ node \in [Nodes -> NodeObjects]
  /\ place \in [Pods -> Nodes \cup {None}]
  /\ load \in [Nodes -> {Low, High}]
  /\ samples \in [Group -> Records]
  /\ sinceDown \in 0..Cooldown
  /\ pass \in Passes
  /\ clock \in 0..Day - 1
  /\ busyFor \in [Nodes -> 0..Tolerated + 1]
  /\ quiet \in BOOLEAN

-----------------------------------------------------------------------------
(* Reading the cluster.                                                    *)

Present == {n \in Nodes : node[n].life # "gone"}

\* Nodes that are ready and schedulable; taints are not looked at.
Available == {n \in Present : node[n].ready /\ ~ node[n].cordoned}

PodsOn(n) == {p \in Pods : place[p] = n}

Requested(pods) == SumFunctionOnSet(Requests, pods)

\* The VPSieNodes the reconciler counts, status.Nodes.
Current == {n \in Group : node[n].life = "here"}

Init ==
  /\ node = [n \in Nodes |-> [life |-> "here", ready |-> TRUE, cordoned |-> FALSE,
                              protected |-> FALSE]]
  /\ place \in [Pods -> Nodes]
  /\ \A n \in Nodes : /\ Requested(PodsOn(n)) <= Capacity
                     /\ Cardinality(PodsOn(n) \cap Spread) <= 1
  /\ load = [n \in Nodes |-> Low]
  /\ samples = [n \in Group |-> NoRecord]
  /\ sinceDown = Cooldown
  /\ pass = Idle
  /\ clock = 0
  /\ busyFor = [n \in Nodes |-> 0]
  /\ quiet = TRUE

-----------------------------------------------------------------------------
(* Utilization.                                                            *)

\* The samples that are not before windowStart.
Recent(list) == {i \in DOMAIN list : list[i].age <= Window}

\* calculateRollingAverage, of samples of which the last was just taken.
RollingAverage(list) ==
  LET loads == [i \in DOMAIN list |-> list[i].load]
  IN  (10 * SumFunctionOnSet(loads, Recent(list))) \div Cardinality(Recent(list))

LastSample(n) == samples[n].list[Len(samples[n].list)]

\* Mutant of LastSamples: the list is not cut.
LastSamplesMutant(list) == list

\* The last MaxSamples of the samples.
LastSamples(list) ==
  IF Len(list) > MaxSamples
  THEN SubSeq(list, Len(list) - MaxSamples + 1, Len(list)) ELSE list

\* updateNodeUtilizationMetrics
Sampled(record, percent) ==
  LET list == LastSamples(Append(record.list, [age |-> 0, load |-> percent]))
  IN  [list |-> list, average |-> RollingAverage(list)]

\* UpdateNodeUtilization: metrics-server knows the Nodes in "measured" only;
\* records of Nodes that are gone are dropped.  In a tick without this action
\* the API server or metrics-server did not answer.
UpdateNodeUtilization(measured) ==
  /\ \A n \in Group : samples[n].list # << >> => LastSample(n).age > 0
  /\ samples' = [n \in Group |->
                   IF n \notin Present THEN NoRecord
                   ELSE IF n \in measured THEN Sampled(samples[n], load[n])
                   ELSE samples[n]]
  /\ UNCHANGED <<cluster, load, sinceDown, pass, clock, history>>

\* Mutant of FreshEnough: stale samples are used.
FreshEnoughMutant(list) == list # << >>

\* LastUpdated is the time of the last sample.
FreshEnough(list) == list # << >> /\ list[Len(list)].age <= MaxStaleness

\* hasBeenUnderutilizedForWindow: at least 80 % of the samples in the window.
UnderutilizedForWindow(list) ==
  LET low == {i \in Recent(list) : list[i].load < Threshold}
  IN  /\ FreshEnough(list)
      /\ Recent(list) # {} /\ 10 * Cardinality(low) >= 8 * Cardinality(Recent(list))

-----------------------------------------------------------------------------
(* The checks before a drain.                                              *)

\* What the pods of DaemonSets in system namespaces keep on the Node does not count.
HasPodsWithLocalStorage(n) == PodsOn(n) \cap LocalStorage # {}

HasUniqueSystemPods == pass.pods \cap Critical # {}

\* canPodsBeRescheduled: the free resources of the available Nodes, the candidate's
\* among them, cover what the listed pods request and 20 % more.
CanBeRescheduled ==
  LET free == MapThenSumSet(LAMBDA m : Capacity - Requested(PodsOn(m)), Available)
  IN  Available # {} /\ free >= (12 * Requested(pass.pods)) \div 10

\* Mutant of NodesLeft: the Node to remove is counted.
NodesLeftMutant == Cardinality(Available)

NodesLeft == IF Available = {} THEN 0 ELSE Cardinality(Available) - 1

\* hasAntiAffinityViolations: each of the pods that repel each other needs a
\* Node of its own.
AntiAffinityViolated ==
  pass.pods \cap Spread # {} /\ Cardinality(Spread) > NodesLeft

\* hasInsufficientCapacity and PredictUtilizationAfterRemoval: the pods on
\* Nodes, spread over all Nodes but n, and the excess the fullest may get,
\* against 85 %.  Cordoned Nodes and those not ready count.
CapacityInsufficient(n) ==
  LET all == Cardinality(Present)
      capacity == Capacity * Cardinality(Present \ {n})
      requested == Requested({p \in Pods : place[p] \in Present})
  IN  /\ all > 1 /\ capacity > 0
      /\ 100 * requested * all > 85 * capacity * (all - 1)

\* isWithinAnnotatedHours: a window that ends before it starts is overnight,
\* one that ends where it starts is empty.
IsWithinHours(hours) ==
  IF hours[2] < hours[1] THEN clock >= hours[1] \/ clock < hours[2]
                         ELSE clock >= hours[1] /\ clock < hours[2]

\* The annotation that disables scale-down amounts to an empty window.
IsNodeAllowed(n) == IsWithinHours(AllowedHours[n])

\* In the mode the engine starts in and stays in.
AllowScaleDown(n) == PolicyEnabled /\ IsNodeAllowed(n)

\* What the next step of CanScaleDown looks for.  Each lists the Nodes and pods anew;
\* the candidate was read before it could be protected.
CheckPassed(n) ==
  \/ /\ pass.step = "chosen"
     /\ sinceDown >= Cooldown /\ Cardinality(Current) > MinNodes
     /\ ~ HasPodsWithLocalStorage(n)
  \/ pass.step = "rescheduling" /\ CanBeRescheduled /\ ~ HasUniqueSystemPods
  \/ pass.step = "affinity" /\ ~ AntiAffinityViolated
  \/ pass.step = "capacity" /\ ~ CapacityInsufficient(n) /\ AllowScaleDown(n)

NextCheck ==
  [chosen |-> "rescheduling", rescheduling |-> "affinity", affinity |-> "capacity",
   capacity |-> "cordon"]

-----------------------------------------------------------------------------
(* The pass of the reconciler.                                             *)

\* IdentifyUnderutilizedNodes
Candidates ==
  {n \in Group \cap Present :
     /\ ~ node[n].cordoned /\ ~ node[n].protected
     /\ samples[n].average < 10 * Threshold
     /\ UnderutilizedForWindow(samples[n].list)}

\* calculatePriority
Priority(n) ==
  samples[n].average + 100 * Cardinality(PodsOn(n))
                     + 500 * Cardinality(PodsOn(n) \cap SystemPods)

\* sortCandidatesByPriority is not stable: any of the lowest may be the first.
First(nodes) == {n \in nodes : \A m \in nodes : Priority(n) <= Priority(m)}

\* The reconciler wants fewer nodes and keeps the first candidate.
Choose(n) ==
  /\ pass.step = "idle" /\ Cardinality(Current) > MinNodes
  /\ n \in First(Candidates)
  /\ pass' = [Idle EXCEPT !.step = "chosen", !.candidate = n]
  /\ UNCHANGED <<cluster, load, memory, clock, history>>

\* A step of CanScaleDown; the first one lists the pods that the next two look at.
CanScaleDown(n) ==
  /\ pass.candidate = n /\ CheckPassed(n)
  /\ pass' = [pass EXCEPT !.step = NextCheck[@],
                          !.pods = IF pass.step = "chosen" THEN PodsOn(n) ELSE @]
  /\ UNCHANGED <<cluster, load, memory, clock, history>>

\* The reconciler deletes the VPSieNode, or fails to.
DeleteVPSieNode(n) ==
  \/ UNCHANGED node
  \/ node' = [node EXCEPT ![n].life = IF @ = "here" THEN "leaving" ELSE @]

EndPass == pass' = Idle /\ quiet' = TRUE

\* ScaleDown skips the candidate without an error, and the reconciler goes on
\* to delete its VPSieNode.
SkipCandidate(n) ==
  /\ pass.step \in DOMAIN NextCheck /\ pass.candidate = n /\ ~ CheckPassed(n)
  /\ DeleteVPSieNode(n)
  /\ EndPass
  /\ UNCHANGED <<place, load, memory, clock, busyFor>>

\* The drain starts with an Update of the Node as it was read.
CordonNode(n) ==
  /\ pass.step = "cordon" /\ pass.candidate = n /\ pass.fresh
  /\ node' = [node EXCEPT ![n].cordoned = TRUE]
  /\ pass' = [Idle EXCEPT !.step = "drain", !.candidate = n]
  /\ quiet' = TRUE
  /\ UNCHANGED <<place, load, memory, clock, busyFor>>

\* Pods that are evicted are recreated and wait to be scheduled.
Evicted(pods) == place' = [p \in Pods |-> IF p \in pods THEN None ELSE place[p]]

DrainSucceeds(n) ==
  /\ pass.step = "drain" /\ pass.candidate = n
  /\ Evicted(PodsOn(n))
  /\ sinceDown' = 0
  /\ DeleteVPSieNode(n)
  /\ EndPass
  /\ UNCHANGED <<load, samples, clock, busyFor>>

\* A failed drain has evicted some of the pods and leaves the Node cordoned;
\* when an API call fails, or the Update conflicts, it has not even begun.
DrainFails(n) ==
  /\ pass.candidate = n
  /\ IF pass.step = "drain" THEN \E pods \in SUBSET PodsOn(n) : Evicted(pods)
                            ELSE UNCHANGED place
  /\ EndPass
  /\ UNCHANGED <<node, load, memory, clock, busyFor>>

\* The process stops, or another replica takes over with an empty memory.
Restart ==
  /\ samples' = [n \in Group |-> NoRecord]
  /\ sinceDown' = Cooldown
  /\ EndPass
  /\ UNCHANGED <<cluster, load, clock, busyFor>>

-----------------------------------------------------------------------------
(* Around the manager.                                                     *)

Least(a, b) == IF a < b THEN a ELSE b

Older(list) == [i \in DOMAIN list |-> [list[i] EXCEPT !.age = Least(@ + 1, Old)]]

\* A tick.  Checking a candidate and cordoning it takes less time than that.
Tick ==
  /\ pass.step \in {"idle", "drain"}
  /\ load' \in [Nodes -> {Low, High}]
  /\ \A n \in Nodes \ Moody : load'[n] = Low
  /\ samples' = [n \in Group |-> [samples[n] EXCEPT !.list = Older(@)]]
  /\ sinceDown' = Least(sinceDown + 1, Cooldown)
  /\ clock' = (clock + 1) % Day
  /\ busyFor' = [n \in Nodes |-> IF load'[n] = High THEN Least(busyFor[n] + 1, Tolerated + 1) ELSE 0]
  /\ UNCHANGED <<cluster, pass, quiet>>

Disturb == quiet' = (pass.step \notin Checked)

\* The scheduler binds a pending pod where it fits.
Bind(p, n) ==
  /\ place[p] = None /\ n \in Available
  /\ Requested(PodsOn(n)) + Requests[p] <= Capacity
  /\ p \in Spread => PodsOn(n) \cap Spread = {}
  /\ place' = [place EXCEPT ![p] = n]
  /\ Disturb
  /\ UNCHANGED <<node, load, memory, pass, clock, busyFor>>

\* The Node of the candidate is no longer the one that was read.
Touch(n) ==
  pass' = IF pass.candidate = n /\ pass.step # "drain" THEN [pass EXCEPT !.fresh = FALSE]
                                                      ELSE pass

\* The VPSieNode controller finishes a deletion: it drains the Node itself.
Terminate(n) ==
  /\ node[n].life = "leaving"
  /\ node' = [node EXCEPT ![n].life = "gone"]
  /\ Evicted(PodsOn(n))
  /\ Touch(n) /\ Disturb
  /\ UNCHANGED <<load, memory, clock, busyFor>>

\* The kubelet's reports.
FlipReady(n) ==
  /\ n \in Present \cap Shaky
  /\ node' = [node EXCEPT ![n].ready = ~ @]
  /\ Touch(n)
  /\ IF node[n].ready THEN Disturb ELSE UNCHANGED quiet
  /\ UNCHANGED <<place, load, memory, clock, busyFor>>

\* A user protects a Node or no longer does.
FlipProtected(n) ==
  /\ n \in Present \cap Protectable
  /\ node' = [node EXCEPT ![n].protected = ~ @]
  /\ Touch(n)
  /\ UNCHANGED <<place, load, memory, clock, history>>

Next ==
  \/ \E missing \in SUBSET (Group \cap Silent) : UpdateNodeUtilization(Group \ missing)
  \/ \E n \in Group :
       \/ Choose(n) \/ CanScaleDown(n) \/ SkipCandidate(n) \/ CordonNode(n)
       \/ DrainSucceeds(n) \/ DrainFails(n)
       \/ Terminate(n)
  \/ Restart
  \/ Tick
  \/ \E n \in Nodes : (\E p \in Pods : Bind(p, n)) \/ FlipReady(n) \/ FlipProtected(n)

Spec == Init /\ [][Next]_vars

-----------------------------------------------------------------------------
(* Safety.                                                                 *)

Chosen(n) == pass.step = "idle" /\ pass'.step = "chosen" /\ pass'.candidate = n

\* A Node that has been busy for longer than samples may be stale is not chosen
\* to be removed, whatever samples are missing, however often the leader
\* changes, and though a fifth of the samples may be high (scaler.go
\* hasBeenUnderutilizedForWindow, utilization.go).

BusyNodesStay == [][\A n \in Group : Chosen(n) => busyFor[n] <= Tolerated]_vars

\* The pods of a Node have somewhere to go: a Node of its own for each pod that repels
\* the others, if it has one; and when no other Node is unready or cordoned, enough
\* resources on them for all pods that run.
RoomWithout(n) ==
  LET others == Present \ {n}
      fit == Available \ {n}
  IN  /\ PodsOn(n) \cap Spread # {} => Cardinality(Spread) <= Cardinality(fit)
      /\ fit = others /\ others # {}
           => Requested({p \in Pods : place[p] # None}) <= Capacity * Cardinality(fit)

Cordoned(n) == ~ node[n].cordoned /\ node'[n].cordoned

\* The drain of a Node leaves room for its pods, if nothing takes it away between the
\* first check and the cordon; Nodes may become ready in the meantime.  (safety.go
\* hasAntiAffinityViolations, hasInsufficientCapacity)
DrainLeavesRoom == [][\A n \in Nodes : Cordoned(n) /\ quiet => RoomWithout(n)]_vars

-----------------------------------------------------------------------------
(* What a comment says, and the code does not do.                          *)

\* scaler.go:401 "Double-check safety before draining": it is a check of what was listed
\* one after the other, and the cordon comes later still (scaler.go:418, drain.go:257).
DrainIsSafe == [][\A n \in Nodes : Cordoned(n) => RoomWithout(n)]_vars
=============================================================================
