-------------------------------- MODULE ScaleUp --------------------------------
(***************************************************************************)
(* Scale-up on pods that can not be scheduled: the event watcher, the      *)
(* matching of pods and NodeGroups, the NodeGroups created for pods that   *)
(* none matches, and the decisions (src/pkg/events).  Every replica runs a *)
(* watcher; the reconciler, VPSie and the kube-scheduler are reduced to    *)
(* what the watchers see of them.  NodeGroup.tla has the race of a         *)
(* decision with the reconciler in full.                                   *)
(*                                                                         *)
(* Labels are functions from keys to values.  A pod asks for one resource. *)
(***************************************************************************)
EXTENDS Naturals, Sequences, FiniteSets

CONSTANTS
  Pods, Watchers,
  Groups,           \* names of NodeGroups: as many may be created
  Selector,         \* Selector[p], the labels a pod wants its node to have
  Tolerations,      \* Tolerations[p], a set of [key, op, value, effect]
  SystemKeys,       \* keys of tolerations that every pod has
  TemplateLabels, TemplateTaints,
  MinNodes, MaxNodes,
  Offers,           \* KubeSizeIDs
  Capacity, Price,  \* of an offer
  Request,          \* Request[p], what a node must have for the pod
  StaticSize,       \* KubeSizeID of the template, or None
  BufferSize,       \* MaxEventBufferSize
  Shrinking,        \* bound: NodeGroups whose nodes fail or are scaled down
  None

ASSUME ConstantsAssumption ==
  /\ None \notin Offers /\ StaticSize \in Offers \cup {None}
  /\ MinNodes \in Nat /\ MaxNodes \in Nat \ {0} /\ MinNodes <= MaxNodes
  /\ BufferSize \in Nat \ {0}
  /\ Capacity \in [Offers -> Nat] /\ Price \in [Offers -> Nat]
  /\ Request \in [Pods -> Nat]
  /\ IsFiniteSet(Groups) /\ IsFiniteSet(Watchers)

VARIABLES
  place,        \* place[p]: "away", "pending" or the NodeGroup it runs on
  buffer,       \* buffer[w]: of each event, is it younger than the window?
  round,        \* round[w]: what HandleScaleUp is about to do
  cooling,      \* cooling[w]: NodeGroups in their cooldown (lastScaleTime)
  nodeGroup     \* the NodeGroups there are

vars == <<place, buffer, round, cooling, nodeGroup>>

Existing == DOMAIN nodeGroup
Pending == {p \in Pods : place[p] = "pending"}

Idle == [step |-> "idle", pods |-> {}, decisions |-> {}]

-----------------------------------------------------------------------------
(* Matching.                                                               *)

\* corev1.Toleration.ToleratesTaint.
ToleratesTaint(t, taint) ==
  /\ t.effect \in {"", taint.effect}
  /\ t.key \in {"", taint.key}
  /\ t.op = "Exists" \/ (t.op \in {"", "Equal"} /\ t.value = taint.value)

Tolerates(p, taints) ==
  \A taint \in taints : \E t \in Tolerations[p] : ToleratesTaint(t, taint)

Selects(p, labels) ==
  \A key \in DOMAIN Selector[p] :
    key \in DOMAIN labels /\ labels[key] = Selector[p][key]

\* A pod without a selector goes to NodeGroups without labels.
Matches(p, spec) ==
  /\ IF DOMAIN Selector[p] = {} THEN DOMAIN spec.labels = {} ELSE Selects(p, spec.labels)
  /\ Tolerates(p, spec.taints)

\* Mutant of MatchingGroups: a NodeGroup counts once it has a group of VPSie.
MatchingGroupsMutant(pods) ==
  {g \in Existing : nodeGroup[g].vpsie /\ \E p \in pods : Matches(p, nodeGroup[g])}

MatchingGroups(pods) ==
  {g \in Existing : \E p \in pods : Matches(p, nodeGroup[g])}

Overlay(f, g) ==
  [k \in DOMAIN f \cup DOMAIN g |-> IF k \in DOMAIN f THEN f[k] ELSE g[k]]

\* A toleration is taken for a wish; its value counts only with the operator Equal.
RequiredTaints(p) ==
  {[key |-> t.key, value |-> IF t.op = "Equal" THEN t.value ELSE "", effect |-> t.effect] :
     t \in {u \in Tolerations[p] : u.key # "" /\ u.key \notin SystemKeys}}

NodeGroupSpec(p) ==
  [labels |-> Overlay(Selector[p], TemplateLabels),
   taints |-> TemplateTaints \cup RequiredTaints(p)]

Cheapest(offers) == {o \in offers : \A q \in offers : Price[o] <= Price[q]}

Suffices(o, p) == Capacity[o] >= Request[p]

\* SelectOptimalKubeSizeID: a size that no VPSie group has, big enough if possible.
KubeSizes(p, used) ==
  LET unused == Offers \ used
      fitting == {o \in unused : Suffices(o, p)}
  IN IF fitting # {} THEN Cheapest(fitting) ELSE Cheapest(unused)

UsedSizes == {nodeGroup[g].size : g \in {h \in Existing : nodeGroup[h].vpsie}}

-----------------------------------------------------------------------------
(* States.                                                                 *)

NodeGroups ==
  [pod : Pods, by : Watchers,     \* who has created it, and for whom
   labels : {NodeGroupSpec(p).labels : p \in Pods},
   taints : {NodeGroupSpec(p).taints : p \in Pods},
   size : Offers,
   vpsie : BOOLEAN,               \* is there a group of VPSie for it?
   desired : 0..MaxNodes, ready : 0..MaxNodes,
   peak : 0..MaxNodes]            \* the most nodes that were ready at once

Rounds ==
  [step : {"idle", "create", "execute"}, pods : SUBSET Pods,
   decisions : SUBSET (Existing \X (1..MaxNodes))]

TypeOK ==
  /\ nodeGroup \in [Existing -> NodeGroups] /\ Existing \subseteq Groups
  /\ place \in [Pods -> {"away", "pending"} \cup Existing]
  /\ buffer \in [Watchers -> Seq(BOOLEAN)]
  /\ \A w \in Watchers : Len(buffer[w]) <= BufferSize
  /\ round \in [Watchers -> Rounds]
  /\ cooling \in [Watchers -> SUBSET Groups]

Init ==
  /\ place = [p \in Pods |-> "away"]
  /\ buffer = [w \in Watchers |-> <<>>]
  /\ round = [w \in Watchers |-> Idle]
  /\ cooling = [w \in Watchers |-> {}]
  /\ nodeGroup = [g \in {} |-> None]

-----------------------------------------------------------------------------
(* The event watcher.                                                      *)

\* Mutant of HandleEvent: nothing is dropped.
HandleEventMutant(w, p) ==
  /\ place[p] # "away"
  /\ Len(buffer[w]) <= BufferSize /\ buffer' = [buffer EXCEPT ![w] = Append(@, TRUE)]
  /\ UNCHANGED <<place, round, cooling, nodeGroup>>

\* Also for pods that run by now, as long as the API server still has them.
HandleEvent(w, p) ==
  /\ place[p] # "away"
  /\ buffer' = [buffer EXCEPT ![w] =
                  Append(IF Len(@) >= BufferSize THEN Tail(@) ELSE @, TRUE)]
  /\ UNCHANGED <<place, round, cooling, nodeGroup>>

\* The first n events leave the stabilization window.
Age(w, n) ==
  /\ n <= Len(buffer[w])
  /\ buffer' = [buffer EXCEPT ![w] = [i \in DOMAIN @ |-> @[i] /\ i > n]]
  /\ UNCHANGED <<place, round, cooling, nodeGroup>>

\* Mutant of Decisions: a NodeGroup must have a node to spare.
DecisionsMutant(w, groups) ==
  {<<g, nodeGroup[g].desired + 1>> :
     g \in {h \in groups \ cooling[w] : /\ nodeGroup[h].desired < MaxNodes
                                        /\ nodeGroup[h].desired < nodeGroup[h].ready}}

\* makeScaleUpDecision, for every NodeGroup that matches.
Decisions(w, groups) ==
  {<<g, nodeGroup[g].desired + 1>> :
     g \in {h \in groups \ cooling[w] : /\ nodeGroup[h].desired < MaxNodes
                                        /\ nodeGroup[h].desired <= nodeGroup[h].ready}}

\* HandleScaleUp up to its first write.
Handle(w) ==
  round' = [round EXCEPT ![w] =
    IF Pending = {} THEN Idle
    ELSE LET groups == MatchingGroups(Pending)
         IN [step |-> IF groups = {} THEN "create" ELSE "execute", pods |-> Pending,
             decisions |-> Decisions(w, groups)]]

\* The buffer is emptied whatever comes of it; lists that fail are not retried.
ProcessEvents(w) ==
  /\ round[w].step = "idle" /\ buffer[w] # <<>>
  /\ buffer' = [buffer EXCEPT ![w] = <<>>]
  /\ \/ (\E i \in DOMAIN buffer[w] : buffer[w][i]) /\ Handle(w)
     \/ UNCHANGED round
  /\ UNCHANGED <<place, cooling, nodeGroup>>

\* A failure ends the round.
CreateFails(w) ==
  /\ round[w].step = "create"
  /\ round' = [round EXCEPT ![w] = Idle]
  /\ UNCHANGED <<place, buffer, cooling, nodeGroup>>

\* What is chosen when the sizes in use can not be listed, or the offers.
FallbackSizes(p) == KubeSizes(p, {}) \cup ({StaticSize} \ {None})

\* For the first pod of the list, which has no order.
CreateNodeGroup(w, p, g) ==
  /\ round[w].step = "create" /\ p \in round[w].pods
  /\ g \in Groups \ Existing
  /\ \E size \in KubeSizes(p, UsedSizes) \cup FallbackSizes(p) :
       nodeGroup' = Overlay(nodeGroup, [h \in {g} |->
         [pod |-> p, by |-> w, labels |-> NodeGroupSpec(p).labels,
          taints |-> NodeGroupSpec(p).taints, size |-> size, vpsie |-> FALSE,
          desired |-> 0, ready |-> 0, peak |-> 0]])
  /\ round' = [round EXCEPT ![w] =
       [step |-> "execute", pods |-> {},
        decisions |-> IF /\ g \notin cooling[w]
                         /\ \E q \in round[w].pods : Matches(q, NodeGroupSpec(p))
                      THEN {<<g, 1>>} ELSE {}]]
  /\ UNCHANGED <<place, buffer, cooling>>

-----------------------------------------------------------------------------
(* executeScaleUp.                                                         *)

Done(w, d) == round' = [round EXCEPT ![w].decisions = @ \ {d}]

\* Mutant of ExecuteScaleUp: one node more than the NodeGroup has by now.
ExecuteScaleUpMutant(w, d) ==
  /\ round[w].step = "execute" /\ d \in round[w].decisions /\ Done(w, d)
  /\ nodeGroup' = [nodeGroup EXCEPT ![d[1]].desired = @ + 1]
  /\ cooling' = [cooling EXCEPT ![w] = @ \cup {d[1]}]
  /\ UNCHANGED <<place, buffer>>

ExecuteScaleUp(w, d) ==
  /\ round[w].step = "execute" /\ d \in round[w].decisions /\ Done(w, d)
  /\ nodeGroup' = [nodeGroup EXCEPT ![d[1]].desired = IF @ >= d[2] THEN @ ELSE d[2]]
  /\ cooling' = [cooling EXCEPT ![w] = @ \cup {d[1]}]
  /\ UNCHANGED <<place, buffer>>

\* The NodeGroup can not be read, or its update conflicts.
ExecuteFails(w, d) ==
  /\ round[w].step = "execute" /\ d \in round[w].decisions /\ Done(w, d)
  /\ UNCHANGED <<place, buffer, cooling, nodeGroup>>

EndRound(w) ==
  /\ round[w].step = "execute" /\ round[w].decisions = {}
  /\ round' = [round EXCEPT ![w] = Idle]
  /\ UNCHANGED <<place, buffer, cooling, nodeGroup>>

\* The cooldown is over, or the entry is cleaned up.
Expire(w, g) ==
  /\ g \in cooling[w]
  /\ cooling' = [cooling EXCEPT ![w] = @ \ {g}]
  /\ UNCHANGED <<place, buffer, round, nodeGroup>>

Watcher(w) ==
  \/ \E p \in Pods : HandleEvent(w, p)
  \/ \E n \in 1..BufferSize : Age(w, n)
  \/ ProcessEvents(w) \/ CreateFails(w) \/ EndRound(w)
  \/ \E p \in Pods, g \in Groups : CreateNodeGroup(w, p, g)
  \/ \E d \in round[w].decisions : ExecuteScaleUp(w, d) \/ ExecuteFails(w, d)
  \/ \E g \in Groups : Expire(w, g)

-----------------------------------------------------------------------------
(* Around the watchers.                                                    *)

\* VPSie takes one group of every size, so a second NodeGroup of it gets none.
EnsureVPSieNodeGroup(g) ==
  /\ ~ nodeGroup[g].vpsie /\ nodeGroup[g].size \notin UsedSizes
  /\ nodeGroup' = [nodeGroup EXCEPT ![g].vpsie = TRUE]
  /\ UNCHANGED <<place, buffer, round, cooling>>

\* CalculateDesiredNodes, which comes after ensureVPSieNodeGroup.
RaiseToMinimum(g) ==
  /\ nodeGroup[g].vpsie /\ nodeGroup[g].desired < MinNodes
  /\ nodeGroup' = [nodeGroup EXCEPT ![g].desired = MinNodes]
  /\ UNCHANGED <<place, buffer, round, cooling>>

NodeReady(g) ==
  /\ nodeGroup[g].vpsie /\ nodeGroup[g].ready < nodeGroup[g].desired
  /\ LET count == nodeGroup[g].ready + 1
     IN nodeGroup' = [nodeGroup EXCEPT ![g].ready = count,
                                       ![g].peak = IF @ < count THEN count ELSE @]
  /\ UNCHANGED <<place, buffer, round, cooling>>

On(g) == {p \in Pods : place[p] = g}

\* A node fails, or is scaled down: UpdateNodeGroupStatus counts one less.  The pod
\* on it, if there is one, is pending again.
NodeLost(g) ==
  /\ g \in Shrinking /\ nodeGroup[g].ready > 0
  /\ nodeGroup' = [nodeGroup EXCEPT ![g].ready = @ - 1]
  /\ \/ Cardinality(On(g)) < nodeGroup[g].ready /\ place' = place
     \/ \E p \in On(g) : place' = [place EXCEPT ![p] = "pending"]
  /\ UNCHANGED <<buffer, round, cooling>>

\* The reconciler scales down, or its late status patch takes a raise back.
LowerDesired(g, desired) ==
  /\ g \in Shrinking /\ desired < nodeGroup[g].desired
  /\ nodeGroup' = [nodeGroup EXCEPT ![g].desired = desired]
  /\ UNCHANGED <<place, buffer, round, cooling>>

Move(p, to) ==
  /\ place' = [place EXCEPT ![p] = to]
  /\ UNCHANGED <<buffer, round, cooling, nodeGroup>>

Arrive(p) == place[p] = "away" /\ Move(p, "pending")
Leave(p) == place[p] # "away" /\ Move(p, "away")

\* The scheduler does not mind labels a pod has not asked for.  A node takes one pod.
Schedule(p, g) ==
  /\ place[p] = "pending"
  /\ Selects(p, nodeGroup[g].labels) /\ Tolerates(p, nodeGroup[g].taints)
  /\ Suffices(nodeGroup[g].size, p)
  /\ Cardinality(On(g)) < nodeGroup[g].ready
  /\ Move(p, g)

Next ==
  \/ \E w \in Watchers : Watcher(w)
  \/ \E g \in Existing :
       \/ EnsureVPSieNodeGroup(g) \/ RaiseToMinimum(g) \/ NodeReady(g)
       \/ NodeLost(g) \/ \E n \in MinNodes..MaxNodes : LowerDesired(g, n)
  \/ \E p \in Pods : Arrive(p) \/ Leave(p) \/ \E g \in Existing : Schedule(p, g)

Spec == Init /\ [][Next]_vars

\* Pods that are pending cause events again and again; a tick comes well within the
\* window, and calls of the API server do not fail for ever.
Fairness ==
  /\ \A w \in Watchers :
       /\ \A p \in Pods :
            /\ WF_vars(place[p] = "pending" /\ HandleEvent(w, p))
            /\ SF_vars(\E g \in Groups : CreateNodeGroup(w, p, g))
       /\ SF_vars(ProcessEvents(w) /\ Handle(w))
       /\ SF_vars(\E d \in round[w].decisions : ExecuteScaleUp(w, d))
       /\ WF_vars(EndRound(w))
       /\ WF_vars(\E g \in Groups : Expire(w, g))
  /\ \A g \in Groups :
       /\ WF_vars(g \in Existing /\ EnsureVPSieNodeGroup(g))
       /\ WF_vars(g \in Existing /\ RaiseToMinimum(g))
       /\ WF_vars(g \in Existing /\ NodeReady(g))
  /\ \A p \in Pods : SF_vars(\E g \in Existing : Schedule(p, g))

FairSpec == Spec /\ Fairness

-----------------------------------------------------------------------------
(* Properties.                                                             *)

\* A watcher creates at most one NodeGroup that matches the pod it is for, whichever
\* NodeGroups that do not match are created besides (creator.go:252-268,
\* analyzer.go:199): no round misses the one that an earlier round has created.
OneNodeGroupPerWatcher ==
  \A g, h \in Existing :
    /\ nodeGroup[g].pod = nodeGroup[h].pod /\ nodeGroup[g].by = nodeGroup[h].by
    /\ Matches(nodeGroup[g].pod, nodeGroup[g])
    => g = h

\* Sequential scaling over time: a NodeGroup above its minimum is at most one node
\* ahead of the most it has ever had, whatever replicas decide on one listing, how
\* late they execute, and which nodes fail or are scaled down in between
\* (scaleup.go:217-262, executeScaleUp).
OneBeyondPeak ==
  \A g \in Existing :
    \/ nodeGroup[g].desired <= nodeGroup[g].peak + 1
    \/ nodeGroup[g].desired <= MinNodes

\* What keeps a pending pod from getting a node: a NodeGroup that matches a pending
\* pod, which need not be this one, can not grow, and no other is created.
Stuck(g) ==
  \/ nodeGroup[g].desired >= MaxNodes
  \/ ~ nodeGroup[g].vpsie /\ nodeGroup[g].size \in UsedSizes

Exhausted ==
  \/ \E g \in MatchingGroups(Pending) : Stuck(g)
  \/ Offers \subseteq UsedSizes \/ Existing = Groups

Setback ==
  \E g \in Existing : \/ nodeGroup'[g].ready < nodeGroup[g].ready
                      \/ nodeGroup'[g].desired < nodeGroup[g].desired

\* A pod that is pending gets a node or goes, unless NodeGroups are exhausted or nodes
\* go on being lost: events that are dropped, or too old, or whose round failed, do
\* not lose it for good.
PendingPodServed ==
  <>[][~ Setback]_vars =>
    \A p \in Pods : place[p] = "pending" ~> place[p] # "pending" \/ Exhausted

-----------------------------------------------------------------------------
(* What comments say, and the code does not do.                            *)

\* scaleup.go:258 "Sequential scaling: only add ONE node at a time": a step raises the
\* desired count by one, or to the minimum (makeScaleUpDecision, executeScaleUp).
OneAtATime ==
  [][\A g \in Existing : \/ nodeGroup'[g].desired <= nodeGroup[g].desired + 1
                         \/ nodeGroup'[g].desired <= MinNodes]_vars

\* creator.go:218 "CreateNodeGroupForPod creates a new NodeGroup to satisfy the pod's
\* requirements": what is created for a pod matches it.
CreatedForItsPod == \A g \in Existing : Matches(nodeGroup[g].pod, nodeGroup[g])

\* scaleup.go:97 "If no suitable NodeGroup exists, try to create one dynamically": a
\* pending pod that no NodeGroup matches gets one, while there are names and sizes.
UnmatchedPodServed ==
  \A p \in Pods :
    place[p] = "pending"
      ~> \/ place[p] # "pending" \/ MatchingGroups({p}) # {}
         \/ Existing = Groups \/ Offers \subseteq UsedSizes
=============================================================================
