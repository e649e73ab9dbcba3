------------------------------- MODULE Rebalance -------------------------------
(***************************************************************************)
(* The rebalancer (src/pkg/rebalancer): the analysis of a NodeGroup, the   *)
(* plan made of it and its execution, which is to replace Nodes of one     *)
(* offering by Nodes of a cheaper one.  In this version no replacement is  *)
(* ever provisioned: of a rolling plan, the only kind the planner makes,   *)
(* nothing happens to a Node, while a surge plan, which a caller of the    *)
(* executor may bring along, drains and deletes its Nodes nevertheless.    *)
(*                                                                         *)
(* The kubelet, the scheduler and the owners of pods are external.  A pod  *)
(* asks for one resource.  Pods of a DaemonSet go with their Node and are  *)
(* left out.                                                               *)
(***************************************************************************)
EXTENDS Integers, Sequences, FiniteSets, SequencesExt, FiniteSetsExt

CONSTANTS
  Nodes,
  Established,          \* Nodes that are there and ready from the start
  Pods, Request,        \* Request[p]
  Capacity,             \* Capacity[n], what a Node can take
  Offering,             \* Offering[n]
  CurrentOffering,      \* that the optimization replaces
  LocalPods,            \* with local storage
  LocalNodes,           \* Nodes with a pod of a DaemonSet that has local storage
  MinNodes, MaxNodes, MinHealthyPercent,
  MaintenanceWindows,   \* a set of days for each
  Days,
  BatchSizes, Concurrency

ASSUME ConstantsAssumption ==
  /\ IsFiniteSet(Nodes) /\ "pending" \notin Nodes /\ Established \subseteq Nodes
  /\ Request \in [Pods -> Nat] /\ Capacity \in [Nodes -> Nat]
  /\ MinNodes \in Nat /\ MaxNodes \in Nat /\ MinHealthyPercent \in 0..100
  /\ BatchSizes \subseteq Nat \ {0} /\ Concurrency \subseteq Nat \ {0}

VARIABLES
  node,       \* node[n]: "absent", "starting" or "ready"
  cordoned,
  place,      \* place[p]: its Node or "pending"
  leaving,    \* pods that are being deleted
  analysis,   \* RebalanceAnalysis
  plan,       \* RebalancePlan; is the offering of its Nodes the same after it?
  exec,       \* where ExecuteRebalance is
  result      \* RebalanceResult, the candidates passed over, and FailedNodes

cluster == <<node, cordoned, place, leaving>>
vars == <<node, cordoned, place, leaving, analysis, plan, exec, result>>

Present == {n \in Nodes : node[n] # "absent"}
Ready == {n \in Nodes : node[n] = "ready"}
PodsOn(n) == {p \in Pods : place[p] = n}
Requests(pods) == MapThenSumSet(LAMBDA p : Request[p], pods)
Free(n) == Capacity[n] - Requests(PodsOn(n))

TypeOK ==
  /\ node \in [Nodes -> {"absent", "starting", "ready"}]
  /\ cordoned \subseteq Nodes
  /\ place \in [Pods -> Present \cup {"pending"}]
  /\ leaving \subseteq {p \in Pods : place[p] # "pending"}
  /\ analysis \in [action : {"none", "proceed", "postpone", "needs_review", "reject"},
                   candidates : SUBSET Nodes, same : BOOLEAN]
  /\ plan \in [strategy : {"none", "rolling", "surge"}, nodes : SUBSET Nodes,
               same : BOOLEAN, batches : Seq(Seq(Nodes))]
  /\ exec \in [step : {"idle", "candidate", "provision", "drain", "evict", "poll",
                       "terminate", "completed"},
               batch : 0..Len(plan.batches), todo : Seq(Nodes), keep : Seq(Nodes)]
  /\ result \in [rebalanced : Nat, failed : Nat, skipped : Nat,
                 unprovisioned : SUBSET Nodes]

Init ==
  /\ node \in [Nodes -> {"absent", "starting", "ready"}]
  /\ \A n \in Established : node[n] = "ready"
  /\ cordoned \in SUBSET {n \in Nodes : Offering[n] # CurrentOffering}
  /\ place \in [Pods -> Ready] /\ leaving = {}
  /\ \A n \in Nodes : Free(n) >= 0
  /\ analysis = [action |-> "none", candidates |-> {}, same |-> FALSE]
  /\ plan = [strategy |-> "none", nodes |-> {}, same |-> FALSE, batches |-> <<>>]
  /\ exec = [step |-> "idle", batch |-> 0, todo |-> <<>>, keep |-> <<>>]
  /\ result = [rebalanced |-> 0, failed |-> 0, skipped |-> 0, unprovisioned |-> {}]

-----------------------------------------------------------------------------
(* Kubelet, scheduler and owners of pods.                                  *)

NodeReady(n) ==
  /\ node[n] = "starting" /\ node' = [node EXCEPT ![n] = "ready"]
  /\ UNCHANGED <<cordoned, place, leaving, analysis, plan, exec, result>>

Exit(p) ==
  /\ p \in leaving /\ leaving' = leaving \ {p}
  /\ place' = [place EXCEPT ![p] = "pending"]
  /\ UNCHANGED <<node, cordoned, analysis, plan, exec, result>>

Bind(p, n) ==
  /\ place[p] = "pending" /\ n \in Ready \ cordoned /\ Free(n) >= Request[p]
  /\ place' = [place EXCEPT ![p] = n]
  /\ UNCHANGED <<node, cordoned, leaving, analysis, plan, exec, result>>

-----------------------------------------------------------------------------
(* Analyzer.  A check passes, warns or fails.  Where a listing can fail,   *)
(* the outcome of that is one of the results.                              *)

\* Pods of the Nodes in blind could not be listed.  Pods of DaemonSets count.
Candidates(blind) ==
  {n \in Present :
     /\ Offering[n] = CurrentOffering
     /\ n \in blind \/ (PodsOn(n) \cap LocalPods = {} /\ n \notin LocalNodes)}

ClusterHealth ==
  {IF Cardinality(Ready) < (Cardinality(Present) * MinHealthyPercent) \div 100
   THEN "warn" ELSE "passed", "failed"}

NodeGroupHealth(recent) ==
  {IF Cardinality(Present) < MinNodes \/ recent THEN "failed" ELSE "passed"}

\* A budget either limits disruptions or does not, whichever pods it is for.
PodDisruption(number, budgets) ==
  {IF budgets # {} /\ (number > 2 \/ ("limits" \in budgets /\ number > 1))
   THEN "failed" ELSE "passed", "warn"}

\* What schedulable Nodes have left; those whose pods can not be listed are not counted.
Available(candidates) ==
  MapThenSumSet(Free, (Ready \ cordoned) \ candidates)

PodCapacity(candidates) ==
  LET requests == Requests({p \in Pods : place[p] \in candidates})
      required == (requests * 12) \div 10
      spare == Available(candidates) - required
  IN IF spare < 0 THEN "failed"
     ELSE IF required > 0 /\ spare * 2 < required THEN "warn" ELSE "passed"

Headroom(number) ==
  IF Cardinality(Present) + number > MaxNodes THEN "warn" ELSE "passed"

ResourceCapacity(candidates) ==
  {IF PodCapacity(candidates) = "passed" THEN Headroom(Cardinality(candidates))
   ELSE PodCapacity(candidates), "warn"}

\* Only the day counts, not the hours.
Timing(today) ==
  {IF MaintenanceWindows = {} \/ \E window \in MaintenanceWindows : today \in window
   THEN "passed" ELSE "failed"}

RecommendedAction(checks, risk) ==
  CASE "failed" \in checks -> "reject"
    [] "failed" \notin checks /\ "warn" \in checks ->
         IF risk = "high" THEN "needs_review" ELSE "postpone"
    [] OTHER -> "proceed"

\* AnalyzeRebalanceOpportunities, with an opportunity: with it, is the recommended
\* offering the current one?
Analyze ==
  /\ exec.step = "idle" /\ plan.strategy = "none"
  /\ \E blind \in SUBSET Nodes, recent, same \in BOOLEAN, risk \in {"low", "high"},
        budgets \in SUBSET {"limits", "open"}, today \in Days :
       LET candidates == Candidates(blind)
       IN \E health \in ClusterHealth, group \in NodeGroupHealth(recent),
             disruption \in PodDisruption(Cardinality(candidates), budgets),
             capacity \in ResourceCapacity(candidates), timing \in Timing(today) :
            analysis' =
              [action |-> RecommendedAction({health, group, disruption, capacity, timing}, risk),
               candidates |-> candidates, same |-> same]
  /\ UNCHANGED <<cluster, plan, exec, result>>

-----------------------------------------------------------------------------
(* Planner.                                                                *)

BatchNodes(nodes, size) ==
  [i \in 1..((Len(nodes) + size - 1) \div size) |->
     SubSeq(nodes, (i - 1) * size + 1, Min({i * size, Len(nodes)}))]

\* A batch goes with the ones before it as long as they have at most max Nodes.
Join(acc, batch, max) ==
  IF Len(acc.current) + Len(batch) > max
  THEN [merged |-> IF acc.current = <<>> THEN acc.merged
                   ELSE Append(acc.merged, acc.current), current |-> batch]
  ELSE [acc EXCEPT !.current = @ \o batch]

NothingMerged == [merged |-> <<>>, current |-> <<>>]

Merged(batches, max) ==
  LET JoinNext(acc, batch) == Join(acc, batch, max)
  IN FoldLeft(JoinNext, NothingMerged, batches)

\* Mutant of mergeBatches: the last one is forgotten.
mergeBatchesMutant(batches, max) == Merged(batches, max).merged

mergeBatches(batches, max) ==
  LET all == Merged(batches, max)
  IN IF all.current = <<>> THEN all.merged ELSE Append(all.merged, all.current)

OptimizePlan(batches, max) ==
  IF Len(batches) > 1 THEN mergeBatches(batches, max) ELSE batches

\* CreateRebalancePlan, OptimizePlan or not, and ValidatePlan.  The strategy is always
\* rolling.
CreatePlan ==
  /\ exec.step = "idle" /\ analysis.action = "proceed"
  /\ Cardinality(analysis.candidates) <= MaxNodes
  /\ \E size \in BatchSizes, max \in Concurrency :
       LET batches == BatchNodes(SetToSeq(analysis.candidates), size)
       IN plan' \in [strategy : {"rolling"}, nodes : {analysis.candidates},
                     same : {analysis.same}, batches : {batches, OptimizePlan(batches, max)}]
  /\ analysis' = [analysis EXCEPT !.action = "none"]
  /\ exec' = [exec EXCEPT !.step = "candidate"]
  /\ UNCHANGED <<cluster, result>>

\* A caller of ExecuteRebalance brings a surge plan of its own, of any Nodes.
GivenPlan ==
  /\ exec.step = "idle" /\ plan.strategy = "none"
  /\ \E nodes \in SUBSET Nodes, same \in BOOLEAN :
       plan' = [strategy |-> "surge", nodes |-> nodes, same |-> same,
                batches |-> <<SetToSeq(nodes)>>]
  /\ exec' = [exec EXCEPT !.step = "drain"]
  /\ UNCHANGED <<cluster, analysis, result>>

-----------------------------------------------------------------------------
(* Executor.                                                               *)

Rolling == plan.strategy = "rolling"
Loop == IF Rolling THEN "candidate" ELSE "drain"
Candidate == Head(exec.todo)

\* At the end of the loop over candidates.
BatchDone == exec.step = Loop /\ exec.todo = <<>>

NextCandidate == exec' = [exec EXCEPT !.step = Loop, !.todo = Tail(@)]
Count(field) == result' = [result EXCEPT ![field] = @ + 1]

\* A batch of a rolling plan starts with its first candidate.
executeRollingBatch ==
  /\ BatchDone /\ Rolling /\ exec.batch < Len(plan.batches)
  /\ exec' = [exec EXCEPT !.batch = @ + 1, !.todo = plan.batches[exec.batch + 1]]
  /\ UNCHANGED <<cluster, analysis, plan, result>>

Without(nodes, skipped) ==
  LET Keep(kept, n) == IF n \in skipped THEN kept ELSE Append(kept, n)
  IN FoldLeft(Keep, <<>>, nodes)

\* One of a surge plan is first searched for candidates that need not be replaced; the
\* label of a Node is read anew, and a Node that can not be read is replaced.
executeSurgeBatch ==
  /\ BatchDone /\ ~ Rolling /\ exec.batch < Len(plan.batches)
  /\ \E skipped \in SUBSET (IF plan.same THEN Present ELSE {}) :
       LET todo == Without(plan.batches[exec.batch + 1], skipped)
       IN exec' = [exec EXCEPT !.batch = @ + 1, !.todo = todo, !.keep = todo,
                               !.step = IF todo = <<>> THEN "drain" ELSE "provision"]
  /\ UNCHANGED <<cluster, analysis, plan, result>>

ExecuteRebalance ==
  /\ BatchDone /\ exec.batch = Len(plan.batches)
  /\ exec' = [exec EXCEPT !.step = "completed"]
  /\ UNCHANGED <<cluster, analysis, plan, result>>

SkipSame ==
  /\ exec.step = "candidate" /\ exec.todo # <<>>
  /\ plan.same /\ Candidate \in Present
  /\ NextCandidate /\ Count("skipped")
  /\ UNCHANGED <<cluster, analysis, plan>>

\* It always returns an error.  A rolling batch goes on with its next candidate, a surge
\* batch with its next provisioning.
provisionNewNode ==
  /\ exec.step \in {"candidate", "provision"} /\ exec.todo # <<>>
  /\ exec' = [exec EXCEPT !.todo = Tail(@)]
  /\ result' = [result EXCEPT !.failed = @ + 1, !.unprovisioned = @ \cup {Candidate}]
  /\ UNCHANGED <<cluster, analysis, plan>>

\* The second phase of a surge batch: there is no new Node to wait for.
DrainOldNodes ==
  /\ exec.step = "provision" /\ exec.todo = <<>>
  /\ exec' = [exec EXCEPT !.step = "drain", !.todo = exec.keep]
  /\ UNCHANGED <<cluster, analysis, plan, result>>

\* Deleting a Node takes the pods with it that it has got by now.
DeleteNode(n) ==
  /\ node' = [node EXCEPT ![n] = "absent"]
  /\ place' = [p \in Pods |-> IF place[p] = n THEN "pending" ELSE place[p]]
  /\ leaving' = leaving \ PodsOn(n)
  /\ UNCHANGED cordoned

\* Mutant of CordonNode: the Update is forgotten.
CordonNodeMutant ==
  /\ exec.step = "drain" /\ exec.todo # <<>> /\ Candidate \in Present
  /\ exec' = [exec EXCEPT !.step = "evict"]
  /\ UNCHANGED <<cluster, analysis, plan, result>>

CordonNode ==
  /\ exec.step = "drain" /\ exec.todo # <<>> /\ Candidate \in Present
  /\ cordoned' = cordoned \cup {Candidate}
  /\ exec' = [exec EXCEPT !.step = "evict"]
  /\ UNCHANGED <<node, place, leaving, analysis, plan, result>>

\* Mutant of EvictPods: the pods of all Nodes.
EvictPodsMutant ==
  /\ exec.step = "evict"
  /\ \E evicted \in SUBSET Pods : leaving' = leaving \cup evicted
  /\ exec' = [exec EXCEPT !.step = "poll"]
  /\ UNCHANGED <<node, cordoned, place, analysis, plan, result>>

\* Every pod is tried once; an eviction that is refused is passed over.
EvictPods ==
  /\ exec.step = "evict"
  /\ \E evicted \in SUBSET PodsOn(Candidate) : leaving' = leaving \cup evicted
  /\ exec' = [exec EXCEPT !.step = "poll"]
  /\ UNCHANGED <<node, cordoned, place, analysis, plan, result>>

WaitForPods ==
  /\ exec.step = "poll" /\ PodsOn(Candidate) = {}
  /\ exec' = [exec EXCEPT !.step = "terminate"]
  /\ UNCHANGED <<cluster, analysis, plan, result>>

\* A call fails, or DrainTimeout.  Nothing is undone.
DrainFails ==
  /\ exec.step \in {"drain", "evict", "poll"} /\ exec.todo # <<>>
  /\ NextCandidate /\ Count("failed")
  /\ UNCHANGED <<cluster, analysis, plan>>

TerminateNode ==
  /\ exec.step = "terminate" /\ DeleteNode(Candidate)
  /\ NextCandidate /\ Count("rebalanced")
  /\ UNCHANGED <<analysis, plan>>

TerminateFails ==
  /\ exec.step = "terminate" /\ NextCandidate /\ Count("failed")
  /\ UNCHANGED <<cluster, analysis, plan>>

Execute ==
  \/ executeRollingBatch \/ executeSurgeBatch \/ ExecuteRebalance
  \/ SkipSame \/ provisionNewNode \/ DrainOldNodes
  \/ CordonNode \/ EvictPods \/ WaitForPods \/ DrainFails
  \/ TerminateNode \/ TerminateFails

Next ==
  \/ \E n \in Nodes : NodeReady(n)
  \/ \E p \in Pods : Exit(p) \/ \E n \in Nodes : Bind(p, n)
  \/ Analyze \/ CreatePlan \/ GivenPlan \/ Execute

Spec == Init /\ [][Next]_vars

-----------------------------------------------------------------------------
(* Properties.                                                             *)

\* At the end every candidate of a rolling plan has been skipped or has failed, once,
\* however the planner has batched and merged them (executor.go:101, planner.go:372).
CountedOnce ==
  Rolling /\ exec.step = "completed" =>
    result.rebalanced + result.failed + result.skipped = Cardinality(plan.nodes)

\* A Node that is deleted has no pods left: none is missed by the listing, refuses to
\* be evicted or is bound between eviction, poll and deletion (executor.go:385-495).
EmptyWhenDeleted ==
  [][\A n \in Nodes : node[n] # "absent" /\ node'[n] = "absent" => PodsOn(n) = {}]_vars

-----------------------------------------------------------------------------
(* What documents and comments say, and the code does not do.              *)

\* docs/REBALANCER_ARCHITECTURE.md:193 "Provision all new nodes first, then drain old
\* ones": a Node is not drained if its replacement has failed (executor.go:252-317).
ProvisionedFirst ==
  exec.step \in {"evict", "poll", "terminate"} => Candidate \notin result.unprovisioned

\* analyzer.go:423 "checkPodResourceCapacity verifies that pods on candidate nodes can be
\* rescheduled": when it lets them go, there is room for them on the other Nodes.
Reschedulable(candidates) ==
  LET moved == {p \in Pods : place[p] \in candidates}
  IN \E to \in [moved -> (Ready \ cordoned) \ candidates] :
       \A n \in Nodes : Requests({p \in moved : to[p] = n}) <= Free(n) \/ n \in candidates

CandidatePodsFit ==
  [][analysis' # analysis /\ analysis'.action = "proceed"
     => Reschedulable(analysis'.candidates)]_vars
=============================================================================
