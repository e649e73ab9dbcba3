# Formal models of the VPSie Kubernetes node autoscaler

This directory holds TLA+ models of the autoscaler, the TLC configurations that
check them on small instances, and TLAPS proofs of the theorems that hold for
every instance. `PROJECT.json` is the index: which definition stands for which
lines of the code, which run checks what, and what was found.

Paths below are relative to `src/`.

    tlc -workers 2 -config VPSieNodeSync.cfg MCVPSieNode     # a run
    tlapm VPSieNode_proofs.tla                               # the proofs

## 1. The system

The autoscaler is one process, deployed in several replicas of which a leader
runs the controllers. It keeps its state in Kubernetes objects and rents machines
(VPSs) from the VPSie API.

    pending pods -> event watcher -> scale-up controller
                                          | desired count
                                          v
       user, AutoscalerConfig ->      NodeGroup  <-- NodeGroup reconciler --> scale-down manager
                                          |              | create, delete        | drain
                                          v              v                        v
                                      (status)       VPSieNode               Kubernetes Node
                                                         |                        ^
                                            VPSieNode controller ------------------
                                                         |  API client, circuit breaker
                                                         v
                                                     VPSie API

| component | state | operations | interacts with | what makes it correct |
|---|---|---|---|---|
| VPSieNode controller (`pkg/controller/vpsienode`) | VPSieNode objects: finalizer, phase, VM ID, identifier, hostname, IP; label on Nodes | phase machine Pending to Ready, creation and discovery of the VPS, join, termination | API server through a cache, VPSie API, Nodes | no machine is built twice, deleted without a reason, or forgotten; every phase has a way out |
| Drainer (`drainer.go`) | cordon, evictions | drain, wait, delete Node | Nodes, Pods | a drain that ended left no pod behind |
| NodeGroup reconciler (`pkg/controller/nodegroup`) | NodeGroup spec and status, finalizer | scale up, three ways to scale down, status patch, deletion, credential rotation | VPSieNodes, scale-down manager, client | the count stays between minimum and maximum and gets to the desired one |
| Scale-down manager (`pkg/scaler`) | last scale-down per group, Node annotations, utilization history | sample, find candidates, safety and policy checks, drain, rollback | Nodes, Pods, metrics API | busy Nodes stay, a drain leaves its pods room, a drained Node stays empty |
| Event watcher, scale-up controller (`pkg/events`) | bounded event buffer, last scale event per group | collect, filter, decide, raise the desired count, create NodeGroups | Pods, NodeGroups | a pending pod is answered, once |
| VPSie client (`pkg/vpsie/client`) | credentials, token, rate limiter, breaker | requests, token refresh, rotation | VPSie API | requests use a valid token; a failed rotation changes nothing |
| Circuit breaker (`circuitbreaker.go`) | state, counters, window | beforeCall, afterCall | every request | it opens and closes when its thresholds say so, and recovers |
| Manager (`pkg/controller/manager.go`) | wiring, configuration | discover the cluster, start, apply AutoscalerConfig, shut down | all | managed groups follow the configuration |
| Rebalancer (`pkg/rebalancer`) | plans, execution state | analyse, plan batches, execute, roll back | NodeGroups, Nodes, cost | each candidate is dealt with once, Nodes are empty when they are deleted, their pods fit elsewhere |
| Cost (`pkg/vpsie/cost`) | price cache | compare offerings | client | the cheaper one is chosen |
| Webhook (`pkg/webhook`) | none | validate | API server | what it admits is what the controllers assume |
| Metrics, tracing, audit, logging, options, command line | output | - | - | - |

Where it is hard:

* *Staleness.* Controllers read informer copies. `Update` carries the version it
  read and conflicts; the `MergeFrom` patches, of the status and of Node labels,
  carry none, although several comments take them for optimistic locking.
* *Partial success.* One reconciliation makes an API request, an `Update` and a
  status patch; any prefix may take effect.
* *Identity.* A machine is known by a VM ID, a K8s identifier, a hostname, an IP
  address and a Node name, learnt at different times.
* *Several writers.* The reconciler, the scale-up controllers of all replicas,
  the AutoscalerConfig and users write the same NodeGroup.
* *Long steps.* A drain takes minutes between a decision and its deletion.
* *Late results.* Requests outlive the breaker state that admitted them.
* *Ends.* Creation, deletion and drain are retried; each has to end.

The hazards, each at its line, are listed in `PROJECT.json`.

## 2. The modules

### VPSieNode

Models `controller.go`, `phases.go`, `provisioner.go`, `discoverer.go`,
`joiner.go` and `terminator.go` of `pkg/controller/vpsienode`.

* State: `server` (the objects), `cache` (the informer's copies, behind by any
  number of writes), `nodes` and `seen` likewise for Kubernetes Nodes, `vps` (the
  machines at the provider), `elapsed` (timers). `requester` and `lost` are
  history.
* One pass of `Reconcile` is one action. What happens between its read and its
  writes is covered by the lag of the cache; a prefix of its writes is chosen by
  `out`: "none" (rejected, or a crash), "first" (the `Update` only) or "all".
  `Commit` is the end of `Reconcile`, `Merge` the JSON merge patch, `Fresh` the
  resourceVersion of an `Update`.
* `AddFinalizer` to `CheckJoinStatus` are the handlers of the phases up to Ready,
  `HandleFailed` the TTL of failed ones, `BeginTermination` to `RemoveFinalizer`
  `reconcileDelete` with `Terminator` and `Provisioner.Delete`.
* `CreateVPS` takes an answer: the set of what the API tells of the machine. A
  VM ID makes it "synchronous"; otherwise the annotation is set and the machine
  is discovered later, by claiming an unlabelled Node (`DiscoverUnclaimed`) or by
  finding a VM (`DiscoverVM`).
* Abstractions: a machine stands for all its names; ages of Nodes are a free
  choice; the drain may fail without consequences, as in the code. A deletion
  that is retried within one pass is one choice among the calls it may make. The
  API never gives the same machine twice, and a machine whose VM ID it returns
  is one that `GetVM` knows.

### NodeLifecycle

What the VPSieNode controller promises the others: each VPSieNode is "starting",
turns out "ready" or "failed", once its deletion is asked for "leaving", and then
"gone"; `Progress` says that it neither starts nor leaves for ever. Module VPSieNode
implements it: `Stage` maps the object in the API server (its phase, its deletion
timestamp, its finalizer) to a stage, `Life` is the instance, `KeepsLifecycle` is
`Life!Spec` and `LifeGoesOn` is `Life!Progress`. A ready VPSieNode may still fail
(`FailLate`): a pass that read it before it became ready notices an expired timer.

### CircuitBreaker

Models `pkg/vpsie/client/circuitbreaker.go`. `beforeCall` and `afterCall` hold the
mutex, so each is an action (`BeforeCall`, `Reject`, `AfterCall`); the request runs
between them. `call` says how a caller was admitted. Counters saturate at their
threshold, above which they decide nothing. Whether the timeout has passed is the
flag `elapsed`. `uncounted` and `run` are history.

### NodeGroup

Models `controller.go`, `reconciler.go` and `status.go` of
`pkg/controller/nodegroup`, with the parts of `pkg/scaler`, `pkg/events` and
`manager.go` that write to the group.

* A reconcile is up to three steps: reading and deciding (with the creation or
  the first deletions), the drain of a candidate, and the status patch. Other
  actors act in between; `reconcile` keeps what was read.
* `CapacityLimitReached`, `WaitForTransition`, `CreateVPSieNode`, `CreateFails` are
  `reconcileScaleUp`; `IntelligentScaleDown` with `DrainCandidate` and `DrainFails`,
  `UtilizationScaleDown` and `SimpleScaleDown` the three scale-downs; `PatchStatus`
  the merge patch; `DeleteVPSieNodes` and `RemoveFinalizer` `reconcileDelete`.
* `SelectedFor` is `selectNodesToDelete`: ready VPSieNodes come last, except that the list
  is returned as it is, unsorted, when as many are to go as there are.
* `Decide` and `Execute` are the scale-up controller of one replica. `Restart` is a
  failover: memory is lost, objects are not.
* `LifeCycle` is what module VPSieNode does to an object, seen by this controller:
  no phase, in transition, ready, failed, failed for capacity, deleting, gone; the
  same life as in NodeLifecycle, with the reasons the reconciler tells apart.
* Abstractions: an informer that catches up does so to the latest version, here
  and in module VPSieNode. Conditions are left out. Which Node is underutilized
  and what the safety checks say are free choices. A forgotten name stands for a
  fresh one.

### Drain

Models `scaler/drain.go` and `vpsienode/drainer.go`: one Node, its pods, and the two
procedures that may drain it at the same time.

* State: `node`, `pod` and `uid` (a StatefulSet replaces a pod under its name),
  `seen` (the informer's pods, which the VPSieNode controller reads), `copy` (the Node
  object that `ScaleDown` was given, and whether it is still the latest version),
  `drain` and `termination` (where each procedure is).
* `cordonNode` to `VerifyMigration` are `DrainNode`: its retries of the `Update`, the
  list, `evictPodWithRetry`, the wait and its deadline. `uncordonNode` returns early
  because its copy is the one from before the cordon; `RolledBack` is what drain.go
  promises instead. `Cordon` to `DeleteNode` are
  `DrainAndDelete`, which reads the Node again and undoes anybody's cordon.
* Abstractions: durations are expiries; a pod either may be evicted or not, as a free
  choice; a poll that fails counts the pod as gone, as in the code.

### Credentials

Models `refreshToken`, `ensureValidToken`, `doRequest`, `UpdateCredentials` and
`UpdateToken` of `vpsie/client/client.go`, and `checkAndRotateCredentials` of
`nodegroup/controller.go`. Each action is one hold of the client's lock, so requests
and rotations interleave where the code lets them. A token is represented by the pair
it was obtained with. `clean` is history: whether anything has disturbed the request.

### ScaleUp

Models `pkg/events`: the buffer of events (`HandleEvent`, `Age`, `ProcessEvents`), the
round over the pending pods (`Handle`, `Decisions`), the NodeGroup made for a pod that
none matches (`NodeGroupSpec`, `KubeSizes`, `CreateNodeGroup`) and the late execution of
decisions (`ExecuteScaleUp`), for the watcher of each replica. `Matches`, `Tolerates` and
`RequiredTaints` translate `analyzer.go` and `creator.go`.

The reconciler is reduced to `EnsureVPSieNodeGroup`, `RaiseToMinimum` and what else it does
to the two counts that decisions read: `NodeReady` and `NodeLost` are `ready`, which
`UpdateNodeGroupStatus` recomputes in each pass, `LowerDesired` is a scale-down or a late
status patch. `Shrinking` names the NodeGroups to which the last two happen. Module
NodeGroup has it all in full. Labels are functions from keys to values, pods ask for one
resource. `peak` is history: the most nodes that were ready at once.

### ScaleDown

Models `scaler.go`, `safety.go`, `policies.go` and `utilization.go` of `pkg/scaler` with
the part of the NodeGroup reconciler that calls them.

* `UpdateNodeUtilization` takes samples, `UnderutilizedForWindow` is the rule of 80 %,
  `Priority` the order of candidates, `IsNodeAllowed` the annotations. `Restart` is a
  failover that forgets samples and cooldown.
* A pass is `Choose`, four times `CanScaleDown`, `CordonNode`, and `DrainSucceeds` or
  `DrainFails`. Each `CanScaleDown` is a check that lists Nodes and pods anew
  (`CheckPassed`): cooldown, minimum and local storage; rescheduling and system pods;
  anti-affinity; capacity and policy. The pods of the candidate are listed by the first
  one and kept. Nodes change, pods are bound and Nodes are protected between the checks
  and before the cordon; `SkipCandidate` is any check that does not pass.
* `CordonNode` is an `Update` of the Node that was read when candidates were chosen, so it
  conflicts once that Node has been written (`Touch`, `fresh`). Other Nodes may change.
* `quiet` is history: since the candidate's pods were listed no Node has become unready or
  gone, and no pod has been bound.
* A tick is one interval of the metrics collection. `busyFor` is history: for how long
  a Node has been busy; `Tolerated` is how long samples may hide it.
* Abstractions: one resource stands for CPU and memory; one candidate per pass, which
  is the default of `MaxNodesPerScaleDown`; one check reads its Nodes and their pods at one
  moment; no tick falls between checks; the eviction of pods one by one is module Drain's
  subject.

### Rebalance

Models `pkg/rebalancer`: `Analyze` is `AnalyzeRebalanceOpportunities` with its five
safety checks as operators, `CreatePlan` the batches and their merging, the rest the
executor: `SkipSame`, `provisionNewNode`, `CordonNode`, `EvictPods`, `WaitForPods`,
`TerminateNode` with the failure and the timeout of each.

What there is in this version is modelled, not what is planned:

* `provisionNewNode` is a stub that always returns an error, and so does the action. There
  is never a new Node to wait for or to give back.
* `determineStrategy` always says "rolling". In a rolling batch a candidate whose
  provisioning has failed is left alone, so a plan that the planner makes cordons nothing.
* `ExecuteRebalance` takes any plan, though, and a surge batch drains its old Nodes after
  provisioning has failed. `GivenPlan` is a caller that brings one; blue-green plans are
  executed as surge plans. Outside tests nothing calls the rebalancer yet.

`mergeBatches` appends in place to slices that `BatchNodes` cut from one array; as batches
that are joined are neighbours there, the append writes what stands there already, and the
model's sequences are the same.

## 3. The runs

The runs end within two and a half minutes on two cores, most in less than one. The
state graphs are finite without constraints; bounds are the numbers of objects and the
constants called a bound in the modules: `Changes` (of a spec, of a secret and what the
provider accepts), `Demand` (scale-up requests), `Rounds` (drains and failovers) and
`Replacements` (of a pod under its name).

Deadlock is checked where the system can not stop: CircuitBreaker, Credentials, ScaleUp,
ScaleDown. The VPSieNode and NodeGroup systems may stop when their objects are gone or
while they wait for a user, Drain when the Node is gone, and Rebalance when a plan has
been executed and its pods run.

Runs that pass:

| run | instance | shows |
|---|---|---|
| `VPSieNodeSync` | 1 VPSieNode, 2 machines of which one may vanish; the VM ID is told | `RecordedOnce`, `DrainedIsDeleted`, `PhaseOrder`, `DeletedForAReason` |
| `VPSieNodeAnyAnswer` | 1, 1; every answer; fairness | `TypeOK`, `IdentifiedVPSDeleted`, `KeepsLifecycle`, `LifeGoesOn` |
| `CircuitBreaker` | 3 callers, window of 3; fairness | `TypeOK`, `HalfOpenAccounting`, `ThresholdsMet`, `BreakerMovesOn` |
| `NodeGroupScaling` | 3 VPSieNodes, 2 replicas, 2 requests | `TypeOK`, `DesiredInRange`, `MinKept`, `MaxKept` |
| `NodeGroupSimple` | 3, 1, no scale-down manager, no requests, all may fail or meet the capacity limit, one change of the spec; fairness | `UnreadyFirst`, `ScaleUpHappens` |
| `NodeGroupStale` | 2, 1, caches behind, one change of the spec; fairness | `ScaleUpHappens`, `DeletionCompletes` |
| `Drain` | 3 pods (a plain one, one of a StatefulSet, one of a DaemonSet), 2 attempts, 1 replacement, 2 rounds; fairness | `TypeOK`, `DrainedStaysEmpty`, `ListedPodsGone`, `DrainsEnd` |
| `Credentials` | 2 pairs, 1 simple token, 1 rotation, 2 requests, 3 changes | `TypeOK`, `RotationsSettle`, `UnauthorizedForAReason` |
| `ScaleUp` | a pod that its NodeGroup matches and one that it does not, 1 watcher, up to 3 NodeGroups of which one may shrink; fairness | `TypeOK`, `OneNodeGroupPerWatcher`, `OneBeyondPeak`, `PendingPodServed` |
| `Rebalance` | 3 dear Nodes and another, 2 pods, rolling and surge plans | `TypeOK`, `CountedOnce`, `EmptyWhenDeleted` |
| `ScaleDown` | 2 Nodes of the group and 1 besides, 3 pods of which 2 repel each other | `TypeOK`, `BusyNodesStay`, `DrainLeavesRoom` |

One run of the index finds violated what a comment says:

| run | line | what the code does |
|---|---|---|
| `NodeGroupUndrained` | `reconciler.go:385`, "After successful drain, delete the corresponding VPSieNode CRs" | `ScaleDown` returns nil for candidates it skips, and their VPSieNodes are deleted too |

The other configurations in this directory are not in the index of runs and are started by
hand, as above. `ScaleUpReplicas` repeats the two safety properties of `ScaleUp` for the
watchers of two replicas that race (up to 2 NodeGroups of up to 3 nodes that may shrink):
they hold, in 3.3 million states. The rest check one property each, which a comment or a
document promises and the code does not keep, and end with a counterexample:

| configuration, property | line | what the code does |
|---|---|---|
| `NodeGroupOverwritten`, `RaiseNotLost` | `reconciler.go:193`, "Apply status changes with optimistic locking" | the patch has no resourceVersion and takes back a raise written since |
| `NodeGroupAbandoned`, `FinalizerWaits` | `nodegroup/controller.go:435`, "Wait for all VPSieNodes to be deleted" | those that are being deleted are not listed, so nobody waits for them |
| `DrainRollback`, `RolledBack` | `drain.go:31`, "On PDB validation failure: Uncordons the node (rollback)" | `uncordonNode` (269) looks at the copy from before the cordon and does nothing |
| `ScaleUpLate`, `OneAtATime` | `scaleup.go:258`, "Sequential scaling: only add ONE node at a time" | a decision executed after a scale-down adds several at once |
| `ScaleUpUnfit`, `CreatedForItsPod` | `creator.go:218`, "creates a new NodeGroup to satisfy the pod's requirements" | a toleration's value is dropped unless its operator is "Equal" (388), also for the empty operator, which means the same |
| `ScaleUpStarved`, `UnmatchedPodServed` | `scaleup.go:97`, "If no suitable NodeGroup exists, try to create one dynamically" | a full NodeGroup that matches another pod prevents it |
| `RebalanceUnprovisioned`, `ProvisionedFirst` | `docs/REBALANCER_ARCHITECTURE.md:193`, "Provision all new nodes first, then drain old ones" | old ones are drained when provisioning has failed |
| `RebalanceUnfit`, `CandidatePodsFit` | `analyzer.go:423`, "verifies that pods on candidate nodes can be rescheduled" | only sums over all Nodes are compared |
| `ScaleDownLate`, `DrainIsSafe` | `scaler.go:401`, "Double-check safety before draining" | a Node lost between the checks, or before the cordon, is not noticed |

Why the bounds suffice:

* VPSieNode: two machines are what a repeated request needs. VPSieNodes share nothing
  but Nodes and machines, and no property kept here is about two of them; what is
  (`MachinesNotShared`) is proved for any number.
* CircuitBreaker: an opener, a counted call and a late one. With a success threshold of
  3 above the half-open limit of 1 a slot has to be freed before the breaker closes.
* NodeGroup: three VPSieNodes are one more than the maximum of 2; two replicas are a
  race, and a maximum of 3 without a scale-down manager lets several go at once; with stale
  caches one VPSieNode may be listed and the other missed. Failures and stale caches are in
  runs of their own, so a failure is never met by a stale cache.
* Drain: two pods besides the DaemonSet's are one that is gone and one that is not; one
  replacement is a pod that comes back under its name; a second round meets what a
  failed or interrupted drain has left.
* Credentials: two requests and a rotation are three holders of the lock; three changes
  are a new secret, its acceptance and a revocation. More requests and more rotations
  are the theorems' part; two rotations that overlap do not settle, see below.
* ScaleUp: a buffer of one drops an event with two kinds of pods; three NodeGroups are one
  that matches, one that does not and one more of either; the two sizes can run out. The
  run has one watcher: two are in `ScaleUpReplicas`, and the theorems `NoRepeatedCreation`
  and `SequentialScaling` are for any number.
* Rebalance: three candidates make batches of different lengths for size 2, which merge, or
  are larger than the limit of 1 and stay alone; the fourth Node is one that plans of the
  planner must not touch. `MaxNodes` leaves room for a replacement of each candidate,
  without which the analysis never says "proceed".
* ScaleDown: `Window` 2 and `MaxStaleness` 1 with two samples let a sample be fresh and
  stale, in the window and out of it, and low between two high ones; the day of two
  ticks has a window over midnight; three Nodes for two repelling pods are one more
  than needed. A share between none and all of the samples, as the 80 % rule has it, takes
  more of them than two, and is covered by theorem `BusyKept`.

Properties that are conditional, and on what:

* `PhaseEdges` has two edges that `phases.go` does not draw, Provisioned to Failed and
  Ready to Failed: a stale pass reads an expired timer again after the phase was left.
* `MaxKept` and `MinKept` hold with caches that are up to date (`Lag = FALSE`), `MinKept`
  moreover while no VPSieNode fails and the bounds stay. With stale caches they do not: a
  reconcile that lists the VPSieNodes from before its own last creation or deletion makes
  another one, against what `reconciler.go:213` ("This prevents over-provisioning") and
  `nodegroup/controller.go:458` ("This prevents duplicate scale-down operations") hope
  for. Setting `Lag = TRUE` in `NodeGroupScaling.cfg` shows it within a second.
* `UnreadyFirst` leaves out a group whose desired count and minimum are 0: all are to go
  then, in any order, and when a deletion fails half way an unready one may be what is left.
* `ScaleUpHappens` is about failures that end; while they go on, failed VPSieNodes may be
  cleaned up and made anew for ever, which is the code's way.
* `ListedPodsGone` excuses a drain whose polls fail, and is not about pods that were
  terminating when it listed them.
* `RotationsSettle` is for rotations that do not overlap: with two the older one may
  store its hash, or roll back, after the newer one.
* `OneNodeGroupPerWatcher` counts the NodeGroups that match their pod. One that does not
  (`ScaleUpUnfit`) is created in round after round, and theorem `CreatedNodeGroupMatches`
  says for which pods that is.
* `OneBeyondPeak` is what remains of sequential scaling: not one node more than are ready,
  as `scaleup.go:215` means it, since decisions are executed late (`ScaleUpLate`), but one
  more than ever were.
* `CountedOnce` is about rolling plans; a surge plan counts a candidate whose provisioning
  and whose drain fail twice.
* `PendingPodServed` is relative to `Exhausted` (all NodeGroups of the instance exist, which
  is how it ends for a pod that its NodeGroups do not match, the sizes are used up, or a NodeGroup that matches and can not grow
  keeps others from being created, which is `ScaleUpStarved`) and to losses of nodes and
  raises that end.
* `DrainLeavesRoom` holds if nothing takes room away between the first check and the cordon;
  `ScaleDownLate` shows the opposite.

Other disagreements between comments and code, seen while modelling, of which no run is
kept:

* `provisioner.go:332`, "At this point, VPS should be deleted": the generated hostname
  (`controller.go:345`) is unknown to the provider, the lookup finds nothing, and the
  stored VM ID is not tried.
* `discoverer.go:398`, "this will return a conflict error": the patch of 384 has no
  resourceVersion, and the second claim of a Node wins.
* `circuitbreaker.go:44`, "max concurrent requests allowed in half-open state": the
  opener is not counted (157), and late results free places.
* `reconciler.go:212`, "only creates one node at a time": a VPSieNode without a phase is
  not in transition (`status.go:279`).
* `provisioner.go:55`, "to avoid duplicate API calls": when the answer, or the `Update`
  that records it, is lost, the request is made again. `RecordedOnce` says what is kept.
* `provisioner.go:189`, "Store the VPSie node identifier ... (for K8s API deletion)":
  `DeleteVPS` skips a VPSieNode without hostname and VM ID although it has an
  identifier. `IdentifiedVPSDeleted` leaves those out.
* `client.go:1770`, "The caller will fall back to other deletion methods": the caller
  takes the empty answer for "already deleted".
* `client.go:972`, `UpdateCredentials` never resets `useSimpleToken`: after a rotation
  from a simple token to a pair the token is refreshed only after a 401.
* `circuitbreaker.go:263`, "should not happen": a call admitted in the closed state ends
  in the open one.
* `reconciler.go:237`, "Set error condition": cleared at 188-191 before it is written.
* `drainer.go:120` uncordons a Node that the ScaleDownManager has cordoned and is draining.
* `safety.go:239` speaks of other nodes, `canPodsBeRescheduled` counts the Node itself;
  `hasInsufficientCapacity` counts Nodes that are cordoned or not ready, and is content
  with a single Node. `DrainLeavesRoom` says what remains true.
* The candidate of a NodeGroup that only an annotation keeps from being scaled down is
  skipped, but its VPSieNode is deleted (the finding above, by another check).
* Two NodeGroups created before either is reconciled choose the same size, and VPSie takes
  one group of each. A pod without a selector is not matched by the NodeGroup made for it
  if the template has labels (`analyzer.go:219`).
* `planner.go:206`: batches for a surge plan would carry the same candidates twice;
  `executor.go:116` completes
  a plan all of whose candidates failed; `executor.go:548`, `Rollback` looks for names
  of new Nodes among the old ones; `planner.go:84`, a batch size of 0 never ends, which
  `BatchSizes` excludes; `analyzer.go:803`, windows compare the day only.

## 4. Fairness

* VPSieNode: informers deliver; the provisioning and joining timers run out; a key stays
  in the workqueue until its reconciliation succeeds, so an action that is enabled again
  and again is taken (strong fairness of `Advance` and `CompleteDeletion`: a conflict or
  an API error may come between any number of times, but not for ever). Creation,
  discovery, joining and the kubelet are not fair: `LifeGoesOn` rests on the timeouts
  alone.
* CircuitBreaker: the timeout elapses, the HTTP client's timeout ends every request, and
  callers come back, because the reconcilers requeue.
* NodeGroup: deliveries, the reconciler's own steps and the VPSieNode controller are
  weakly fair; the creation of a VPSieNode is strongly fair, because the API server may
  refuse it any number of times, not for ever. `ScaleUpHappens` has a premise of its own,
  that failures end. Users, scale-up controllers, failures and
  restarts are not fair.
* Drain: the two procedures run on (weak fairness of each as a whole), which is enough
  because each of their waits has a deadline. Pods, evictions and the kubelet are not
  fair, so `DrainsEnd` does not need pods to end.
* ScaleUp: the informer repeats events of pods that stay pending, the ticker comes within
  the window and cooldowns end (weak); creation, execution and the scheduler's binding
  succeed if tried again and again (strong, API errors may come between). Arrivals and
  the loss of events and of nodes are not fair; `PendingPodServed` says for itself that
  losses end.
* Credentials, ScaleDown and Rebalance: none; only safety is checked.

## 5. The proofs

The `_proofs` modules are checked by TLAPS for all values of the constants, from the
assumptions named in the modules (`ConstantsAssumption`, `ConfigAssumption`).

* `TypeCorrect`, in all of them: the type invariant is inductive.
* `CreationRecordedOnce` (`RecordedOnce`). Inductive with `Recorded`: a
  VPSieNode that has a recorded machine is `Noted`, that is, it has a VM ID or the
  annotation. A request needs a copy that is not noted; its `Update` needs that
  copy to be the server's; so the server's object was not noted. No write takes
  the note away (`NotedStays`).
* `IdentifiedMachinesDeleted` (`IdentifiedVPSDeleted`). Inductive with
  `DeletionInv`: an object that is gone, or whose `DeletedAt` is set, has no live
  identified machine, and from when deletion begins the copies agree with
  the server about the identifier, since only live objects get one.
* `MachinesDeletedForAReason` (`DeletedForAReason`). From the same invariant:
  what the stale copy refers to, the server's object refers to.
* `PhasesInOrder` (`PhaseOrder`). Inductive with `PhaseLag`: from the phase of
  the cached copy the server's phase can only be *ahead*, in a relation `Ahead`
  that is closed under the steps. Each step writes a phase that follows the cached
  one, and the lemma computes where the server may be.
* `LifecycleImplemented` (`KeepsLifecycle`). Initial states map to initial states;
  every action maps to a step of `Life!Next` or to a stutter (`PhaseStep`). The steps
  that patch from a stale copy need `PhaseLag` again (`PhaseLagInvariant`): without it
  a late patch could lead a stage back.
* `HalfOpenCounter` (`HalfOpenAccounting`): inductive with the type invariant
  and the finiteness of the callers.
* `OpensAndClosesOnStreaks` (`ThresholdsMet`). Inductive with `Streaks`: while
  the breaker is closed the failures in the record are at least `failureCount`,
  while it is half-open the successes at least `successCount`.
* `MaximumKept` (`MaxKept`), under the hypothesis `~ Lag`. Inductive with `Synced`
  (the caches hold what the API server holds): only `CreateVPSieNode` adds a
  VPSieNode (`OthersShrink`), and the list it has counted is then `Active`
  (`CreationBelowMaximum`). Cardinalities come from `FiniteSetTheorems`.
* `UnauthorizedExplained` (`UnauthorizedForAReason`), for any number of requests and
  rotations. The strengthening says of a request that nothing has disturbed that no
  rotation is between install and commit, that the client's pair is accepted, and, once
  it is sent again, that its token is the one obtained with that pair and has not
  expired.
* `OneRotationSettles` (`RotationsSettle`), under the hypothesis that two rotations are
  the same one. The strengthening relates the step of the rotation to the client: from
  install to rollback the old pair and token are kept in it and go with the hash, at
  commit the client has the new ones.
* `NoRepeatedCreation` (`OneNodeGroupPerWatcher`), for any pods and templates. While a
  watcher is about to create a NodeGroup for its pods, none that it has created before
  matches one of them, and no spec changes afterwards; so a second one for a pod is made
  only if the first does not match it.
* `CreatedNodeGroupMatches` says exactly for which pods that is: the NodeGroup matches iff
  the pod has a selector or the template no labels, the pod tolerates the template's
  taints, and each of its tolerations that becomes a taint tolerates it, or another one
  does.
* `SequentialScaling` (`OneBeyondPeak`). Inductive with: every decision that a watcher still
  holds asks for at most one node more than the peak, however late it is executed and
  whatever is lost or lowered meanwhile, because it was made when the desired count was
  not above the ready one.
* `DesiredWithinMaximum` (`DesiredInRange`), for any staleness, replicas and failures,
  under the hypothesis that the maximum in the spec stays (`[][MaxStays]_vars`; a change
  of the spec may leave an old count above a new maximum). Inductive with
  `DesiredBounded`: what the reconciler and each watcher have read and what they are
  about to write is within the maximum already.
* `MinimumKept` (`MinKept`), under the hypotheses that caches are up to date (`~ Lag`), that
  no VPSieNode fails (`Failing = {}`) and that the minimum in the spec stays. Each
  hypothesis is needed: stale caches repeat a deletion, a VPSieNode that fails leaves
  `Active` without anybody deciding it, and a raised minimum comes after a decision.
  Inductive with `MinimumInv`: `Synced`, `DrainAboveMin` (a VPSieNode is drained in a group
  above its minimum), and `OneDrained`, that at most one is about to be drained, so that
  deleting it takes the count down by one.
* `UnreadyGoFirst` (`UnreadyFirst`), under `~ Lag` and without a ScaleDownManager, however
  VPSieNodes and deletions fail. With `Synced` the list that `selectNodesToDelete` sorts
  is `Active`, and the deletions that are made are a first part of it; `NotAllGo` says
  that it is sorted unless the group is to shrink to nothing; without the manager nothing is
  ever about to be drained (`NeverDrains`).
* `DrainedNodeStaysEmpty` (`DrainedStaysEmpty`). Inductive with `CordonKept`: from a
  successful cordon to the deletion of the VPSieNode the Node is cordoned.
* `ListedPodsLeave` (`ListedPodsGone`). Inductive with `ListedInv`: the informer's copy of
  a pod may be late, but a pod it sees gone is gone, and a pod with the same name that
  comes later has another UID.

* `DrainsWhatItDeletes` (`DrainedIsDeleted`), under the hypothesis `Identified`: the
  provider's answer to a creation request names the VM. It is what the run assumes, and
  without it the property fails: a discovered machine need not be the one that was
  built. Inductive with `Consistent`: in the server's object and in the copy alike, the
  IP address, the names and the Node are the ones of the recorded machine or empty
  (`OneMachineOnly`), the hostname is known from Provisioned on, and the copy never
  knows something else than the server (`KnowsLess`). That last part is what a status
  patch from a stale copy needs, and an `Update` gets it from the resourceVersion.
* `MachinesNotShared` and `MachinesDeletedByOwner`, under the same hypothesis, go beyond
  the run, which has one VPSieNode: no machine is referred to by two of them, and none
  is deleted but for the VPSieNode whose own request built it. With `OwnershipInv`: a
  machine is built once (`BuiltOnce`), and `requester` of a recorded one is the
  VPSieNode that records it. With discovery both fail: TLC finds, on two VPSieNodes and
  two machines, the race of `discoverer.go:398` in which both claim one Node.
* `HalfOpenAdmission` goes with `HalfOpenCounter`: half-open requests exceed the limit by
  no more than the late results of other periods, and a half-open breaker that waits for
  nobody admits a call. It is the part of `BreakerMovesOn` that needs no fairness.
* Rebalance. `TypeCorrect` has the types and `ExecInv`: a step of the executor that works
  on a candidate has one, and a rolling plan never gets to a drain. On it rest
  * `Emptied` (`EmptyWhenDeleted`). From the cordon on nothing is bound to the candidate, so
    what the last poll found empty is empty when it is deleted.
  * `Counting` (`CountedOnce`). The batches of a rolling plan are its candidates, each in
    one place (`Splits`); `BatchesSplit` proves it of `BatchNodes` for any size,
    `MergedSplits` of the merging. From there `PlanInv` counts: the candidates reported and
    the ones still *ahead*, in the rest of the batch or in later ones, are all of them.
* ScaleDown. `Invariant` is the inductive one: the types, `SamplesInv` (the samples of a
  Node are ordered by age, and those taken since it became busy are high), `PlaceInv`
  (pods run on Nodes that are there), `CheckedInv` (as long as the pass is `quiet`, what its
  checks have found still holds). From it
  * `TypeCorrect`: among other things an average is one of utilizations, so the sums
    behind it are bounded by the number of samples (`SumBounds`).
  * `BusyKept` (`BusyNodesStay`): a Node that has been busy for longer than `Tolerated`
    has either no recent enough sample or too many high ones in its window
    (`BusyNotUnderutilized`), and only what `UnderutilizedForWindow` accepts is chosen.
  * `RoomKept` (`DrainLeavesRoom`): only `CordonNode` cordons a Node, when the checks have
    passed one after the other (`OnlyDrainsCordon`); what each has found outlasts the
    steps in between (`CheckedStays`), and what one computed in percent is turned into a
    bound on the sum of requests (`RoomByShare`).

Averages, requests and merged batches are sums over sets and folds over sequences of any
length. The library's induction theorems cannot be instantiated here, so Rebalance_proofs and
ScaleDown_proofs prove an induction over prefixes in terms of sets (`PrefixInduction`, from
the well-foundedness of the naturals); `FoldExists` and `SumsExist` use it to show that
the folds of the community modules have the steps they are meant to have, and the
bounds and the splits follow step by step.

Only model-checked: the liveness properties (`LifeGoesOn`, `BreakerMovesOn`,
`ScaleUpHappens`, `DeletionCompletes`, `DrainsEnd`, `PendingPodServed`), which need fairness and ENABLED and are beyond the prover. Every
invariant and every action property of a passing run is a theorem, some under the
hypotheses named above.

## 6. Not modelled, and what is left

Proofs that would come next: of the liveness properties the parts that are safety, as
`HalfOpenAdmission` is for the breaker (a wait always has something under way that ends
it), and what holds of several VPSieNodes when machines are discovered.

Not modelled, and why:

* Cost (`pkg/vpsie/cost`): sequential arithmetic over prices; floating point, and no
  state but a cache of prices.
* Webhook (`pkg/webhook`): stateless checks of the fields of one object. Which specs it
  admits is a constraint on constants (`MinNodes <= MaxNodes`).
* Conditions and version validation of a NodeGroup: reported and not read.
* `Rollback` of the rebalancer has no caller; the matchers at the end of `safety.go`, the
  presets and time windows of the policy engine, `Reset` of the breaker are called by
  tests only.
* The other endpoints of the client are single requests; rate limit and backoff delay.
* `EstimateNodesNeeded` matters only as far as it is above zero: one Node is added.
* Metrics, tracing, audit, logging, events: output. Flags, wiring, discovery of the
  cluster and health checks: start-up I/O.
