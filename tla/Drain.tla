--------------------------------- MODULE Drain ---------------------------------
(***************************************************************************)
(* One Node of a NodeGroup and the two procedures that drain it: that of   *)
(* the ScaleDownManager (src/pkg/scaler/drain.go), which prepares a        *)
(* scale-down and works on the copy of the Node it was given, and that of  *)
(* the VPSieNode controller (src/pkg/controller/vpsienode/drainer.go),     *)
(* which runs when a VPSieNode is deleted and reads the Node again for     *)
(* every step.  They may run at the same time.                             *)
(*                                                                         *)
(* The kube-scheduler, the kubelet, the owners of the pods and the         *)
(* eviction endpoint are external.  Times are expiries.                    *)
(***************************************************************************)
EXTENDS Naturals, FiniteSets

CONSTANTS
  Pods,             \* names of pods
  DaemonPods,       \* owned by a DaemonSet
  BarePods,         \* in kube-system, without an owner
  StatefulPods,     \* whose replacement has the same name
  MaxEvictionRetries,
  Replacements,     \* bound: how often a pod is replaced under its name
  Rounds            \* bound: how often the ScaleDownManager drains or the leader stops

ASSUME ConstantsAssumption ==
  /\ IsFiniteSet(Pods)
  /\ DaemonPods \subseteq Pods /\ BarePods \subseteq Pods /\ StatefulPods \subseteq Pods
  /\ MaxEvictionRetries \in Nat \ {0} /\ Replacements \in Nat /\ Rounds \in Nat

VARIABLES
  node,         \* the Node in the API server
  pod,          \* where the pod of each name is
  uid,          \* which pod of its name it is
  seen,         \* the same in the informer cache of the VPSieNode controller
  copy,         \* the Node as ScaleDown got it, and whether it is the latest version
  drain,        \* DrainNode of the ScaleDownManager
  result,       \* what it returned last
  termination,  \* DrainAndDelete of the VPSieNode controller
  rounds

cluster == <<node, pod, uid, seen>>
manager == <<copy, drain, result, rounds>>
vars == <<node, pod, uid, seen, copy, drain, result, termination, rounds>>

OnNode == {"running", "terminating"}
States == OnNode \cup {"pending", "gone", "elsewhere"}

TypeOK ==
  /\ node \in {"schedulable", "cordoned", "absent"}
  /\ pod \in [Pods -> States]
  /\ uid \in [Pods -> 0..Replacements]
  /\ seen \in [Pods -> States]
  /\ copy \in [unschedulable : BOOLEAN, latest : BOOLEAN]
  /\ drain \in [step : {"idle", "cordon", "list", "evict", "wait", "verify"},
                todo : SUBSET Pods, attempt : 0..MaxEvictionRetries,
                evicted : SUBSET (Pods \X (0..Replacements))]
  /\ result \in {"none", "success", "error"}
  /\ termination \in [step : {"idle", "cordon", "list", "evict", "wait", "delete", "done"},
                      todo : SUBSET Pods,
                      listed : SUBSET (Pods \X (0..Replacements)),
                      excused : BOOLEAN]      \* has its drain failed?
  /\ rounds \in 0..Rounds

Resting == [step |-> "idle", todo |-> {}, attempt |-> 0, evicted |-> {}]
NotDeleted == [step |-> "idle", todo |-> {}, listed |-> {}, excused |-> FALSE]

Init ==
  /\ node = "schedulable"
  /\ pod \in [Pods -> {"pending", "running", "terminating"}]
  /\ \A p \in DaemonPods : pod[p] = "running"
  /\ uid = [p \in Pods |-> 0]
  /\ seen = pod
  /\ copy = [unschedulable |-> FALSE, latest |-> FALSE]
  /\ drain = Resting /\ result = "none" /\ rounds = 0
  /\ termination = NotDeleted

-----------------------------------------------------------------------------
(* What is around the two drains.                                          *)

\* A write to the Node makes every copy of it outdated.
WriteNode(state) == node' = state /\ copy' = [copy EXCEPT !.latest = FALSE]

\* The kubelet reports the status of its Node.
Heartbeat ==
  /\ node # "absent" /\ copy.latest
  /\ copy' = [copy EXCEPT !.latest = FALSE]
  /\ UNCHANGED <<cluster, drain, result, termination, rounds>>

\* A pending pod is bound to this Node or to another one.
Bind(p) ==
  /\ pod[p] = "pending"
  /\ \/ node = "schedulable" /\ pod' = [pod EXCEPT ![p] = "running"]
     \/ pod' = [pod EXCEPT ![p] = "elsewhere"]
  /\ UNCHANGED <<node, uid, seen, manager, termination>>

Exit(p) ==
  /\ pod[p] = "terminating"
  /\ pod' = [pod EXCEPT ![p] = "gone"]
  /\ UNCHANGED <<node, uid, seen, manager, termination>>

Replace(p) ==
  /\ p \in StatefulPods /\ pod[p] = "gone" /\ uid[p] < Replacements
  /\ pod' = [pod EXCEPT ![p] = "pending"]
  /\ uid' = [uid EXCEPT ![p] = @ + 1]
  /\ UNCHANGED <<node, seen, manager, termination>>

InformPods ==
  /\ seen # pod /\ seen' = pod
  /\ UNCHANGED <<node, pod, uid, manager, termination>>

\* An eviction goes by the name of the pod, wherever that pod is.
Evicted(p) == [pod EXCEPT ![p] = IF @ = "running" THEN "terminating"
                                 ELSE IF @ \in {"elsewhere", "pending"} THEN "gone" ELSE @]

-----------------------------------------------------------------------------
(* ScaleDownManager.DrainNode.                                             *)

\* Pods of a DaemonSet, static and finished ones stay; the latter two are not
\* among Pods.  Pods that are being deleted are evicted again.
\* Mutant of filterPodsForEviction: pods that are terminating are passed over.
filterPodsForEvictionMutant(pods) == {p \in pods \ DaemonPods : pod[p] = "running"}
filterPodsForEviction(pods) == pods \ DaemonPods

\* IdentifyUnderutilizedNodes passes over cordoned Nodes; ScaleDown hands its
\* copy to DrainNode.
BeginDrain ==
  /\ drain.step = "idle" /\ rounds < Rounds /\ node = "schedulable"
  /\ drain' = [drain EXCEPT !.step = "cordon"]
  /\ copy' = [unschedulable |-> FALSE, latest |-> TRUE]
  /\ result' = "none" /\ rounds' = rounds + 1
  /\ UNCHANGED <<cluster, termination>>

\* What the drain evicted is kept: properties refer to it.
Rest == drain' = [Resting EXCEPT !.evicted = drain.evicted]

Return(value) == Rest /\ result' = value

\* An Update of the copy conflicts unless it is the latest version, and its
\* answer may be lost.
UpdateNode(state) ==
  \/ copy.latest /\ node # "absent" /\ WriteNode(state)
  \/ UNCHANGED <<node, copy>>

cordonNode ==
  /\ drain.step = "cordon"
  /\ \/ /\ IF copy.unschedulable THEN UNCHANGED <<node, copy>>
           ELSE copy.latest /\ node # "absent" /\ WriteNode("cordoned")
        /\ drain' = [drain EXCEPT !.step = "list"] /\ UNCHANGED result
     \/ ~ copy.unschedulable /\ UpdateNode("cordoned") /\ Return("error")
  /\ UNCHANGED <<pod, uid, seen, termination, rounds>>

\* It looks at the copy, which is from before the Node was cordoned.
uncordonNode ==
  IF ~ copy.unschedulable THEN UNCHANGED <<node, copy>> ELSE UpdateNode("schedulable")

\* getNodePods asks the API server.
ListPods ==
  /\ drain.step = "list"
  /\ LET pods == {p \in Pods : pod[p] \in OnNode}
         podsToEvict == filterPodsForEviction(pods)
     IN \/ uncordonNode /\ Return("error")        \* the list fails
        \/ podsToEvict = {} /\ Return("success") /\ UNCHANGED <<node, copy>>
        \/ podsToEvict # {} /\ uncordonNode /\ Return("error")   \* a budget is exhausted
        \/ /\ podsToEvict # {}
           /\ drain' = [drain EXCEPT !.step = "evict", !.todo = podsToEvict,
                                     !.evicted = {<<p, uid[p]>> : p \in podsToEvict}]
           /\ UpdateNode(node)                     \* annotateNodeDrainStart
           /\ UNCHANGED result
  /\ UNCHANGED <<pod, uid, seen, termination, rounds>>

\* Mutant of RetriesLeft: attempts are counted wrongly.
RetriesLeftMutant == drain.attempt <= MaxEvictionRetries
RetriesLeft == drain.attempt + 1 < MaxEvictionRetries

\* One attempt to evict a pod: it succeeds, or finds nothing; or it fails, and
\* may have evicted the pod all the same.
evictPodWithRetry(p) ==
  /\ drain.step = "evict" /\ p \in drain.todo
  /\ \/ /\ pod' = Evicted(p)
        /\ drain' = [drain EXCEPT !.todo = @ \ {p}, !.attempt = 0,
                                  !.step = IF drain.todo = {p} THEN "wait" ELSE @]
        /\ UNCHANGED <<node, copy, result>>
     \/ /\ pod' \in {pod, Evicted(p)} /\ RetriesLeft
        /\ drain' = [drain EXCEPT !.attempt = @ + 1]
        /\ UNCHANGED <<node, copy, result>>
     \/ /\ pod' \in {pod, Evicted(p)} /\ ~ RetriesLeft
        /\ uncordonNode /\ Return("error")
     \/ /\ pod' = pod /\ uncordonNode /\ Return("error")       \* too many requests
  /\ UNCHANGED <<uid, seen, termination, rounds>>

\* DrainTimeout is over, or the caller's context ended and 30 seconds later the
\* evictions are abandoned: the Node is left cordoned.
DrainDeadline ==
  /\ drain.step \in {"evict", "wait", "verify"}
  /\ UpdateNode(node)                              \* annotateNodeDrainStatus
  /\ Return("error")
  /\ UNCHANGED <<pod, uid, seen, termination, rounds>>

\* It compares UIDs.
waitForPodTermination ==
  /\ drain.step = "wait"
  /\ \/ /\ \A p \in Pods : pod[p] \in OnNode => <<p, uid[p]>> \notin drain.evicted
        /\ drain' = [drain EXCEPT !.step = "verify"]
        /\ UNCHANGED <<node, copy, result>>
     \/ UpdateNode(node) /\ Return("error")        \* the list fails
  /\ UNCHANGED <<pod, uid, seen, termination, rounds>>

VerifyMigration ==
  /\ drain.step = "verify"
  /\ LET activePods == filterPodsForEviction({p \in Pods : pod[p] \in OnNode})
     IN \/ activePods = {} /\ UpdateNode(node) /\ Return("success")
        \/ UNCHANGED <<node, copy>> /\ Return("error")
  /\ UNCHANGED <<pod, uid, seen, termination, rounds>>

\* The leader stops.  The next one knows nothing of the manager's drain but the
\* cordoned Node; a VPSieNode that is Terminating is drained again.
Restart ==
  /\ rounds < Rounds /\ rounds' = rounds + 1
  /\ Rest /\ result' = "none"
  /\ termination' = IF termination.step \in {"idle", "done"} THEN termination
                    ELSE [NotDeleted EXCEPT !.step = "cordon"]
  /\ seen' = pod
  /\ UNCHANGED <<node, pod, uid, copy>>

-----------------------------------------------------------------------------
(* Terminator.DrainAndDelete.                                              *)

\* Somebody, often the NodeGroup reconciler after a drain, deletes the VPSieNode.
DeleteVPSieNode ==
  /\ termination.step = "idle"
  /\ termination' = [termination EXCEPT !.step = "cordon"]
  /\ UNCHANGED <<cluster, manager>>

\* Of the pods in the cache, those that are being deleted stay as well, and
\* those of kube-system without an owner.
filterPodsToEvict(pods) == {p \in pods \ (DaemonPods \cup BarePods) : seen[p] # "terminating"}

\* Mutant of GiveUp: the drain is begun again.
GiveUpMutant == termination' = [termination EXCEPT !.step = "cordon", !.todo = {}]

\* The drain fails; its error is recorded and the Node deleted all the same.
GiveUp == termination' = [termination EXCEPT !.step = "delete", !.todo = {}, !.excused = TRUE]

Cordon ==
  /\ termination.step = "cordon"
  /\ \/ /\ IF node = "schedulable" THEN WriteNode("cordoned") ELSE UNCHANGED <<node, copy>>
        /\ termination' = [termination EXCEPT !.step = "list"]
     \/ GiveUp /\ UNCHANGED <<node, copy>>
     \/ GiveUp /\ node = "schedulable" /\ WriteNode("cordoned")
  /\ UNCHANGED <<pod, uid, seen, drain, result, rounds>>

\* The rollback reads the Node again, so that it undoes any cordon.
Uncordon ==
  \/ node = "cordoned" /\ WriteNode("schedulable")
  \/ UNCHANGED <<node, copy>>

List ==
  /\ termination.step = "list"
  /\ LET podsToEvict == filterPodsToEvict({p \in Pods : seen[p] \in OnNode})
     IN \/ /\ termination' = [termination EXCEPT
                !.step = IF podsToEvict = {} THEN "delete" ELSE "evict",
                !.todo = podsToEvict, !.listed = {<<p, uid[p]>> : p \in podsToEvict}]
           /\ UNCHANGED <<node, copy>>
        \/ GiveUp /\ Uncordon
  /\ UNCHANGED <<pod, uid, seen, drain, result, rounds>>

\* Mutant of Evict: nobody waits for the pods.
EvictMutant(p) ==
  /\ termination.step = "evict" /\ p \in termination.todo
  /\ pod' \in {pod, Evicted(p)}
  /\ termination' = [termination EXCEPT !.todo = @ \ {p},
                       !.step = IF termination.todo = {p} THEN "delete" ELSE @]
  /\ UNCHANGED <<node, uid, seen, manager>>

\* evictPods tries every pod once, whatever comes of it.
Evict(p) ==
  /\ termination.step = "evict" /\ p \in termination.todo
  /\ pod' \in {pod, Evicted(p)}
  /\ termination' = [termination EXCEPT !.todo = @ \ {p},
                       !.step = IF termination.todo = {p} THEN "wait" ELSE @]
  /\ UNCHANGED <<node, uid, seen, manager>>

\* It gets every pod by its name.  A poll that fails counts the pod as gone.
waitForPodsDeleted ==
  /\ termination.step = "wait"
  /\ \/ /\ \A l \in termination.listed : seen[l[1]] = "gone"
        /\ termination' = [termination EXCEPT !.step = "delete"]
        /\ UNCHANGED <<node, copy>>
     \/ /\ termination' = [termination EXCEPT !.step = "delete", !.excused = TRUE]
        /\ UNCHANGED <<node, copy>>                 \* errors while polling
     \/ GiveUp /\ Uncordon                          \* the drain timeout
  /\ UNCHANGED <<pod, uid, seen, drain, result, rounds>>

\* The Node object is deleted, or that fails; the phase is Deleting and the
\* machine is deleted next, with the pods that are on it.
DeleteNode ==
  /\ termination.step = "delete"
  /\ \/ WriteNode("absent") \/ UNCHANGED <<node, copy>>
  /\ termination' = [termination EXCEPT !.step = "done"]
  /\ UNCHANGED <<pod, uid, seen, drain, result, rounds>>

Next ==
  \/ Heartbeat \/ InformPods
  \/ \E p \in Pods : Bind(p) \/ Exit(p) \/ Replace(p)
  \/ BeginDrain \/ cordonNode \/ ListPods \/ DrainDeadline
  \/ \E p \in Pods : evictPodWithRetry(p)
  \/ waitForPodTermination \/ VerifyMigration \/ Restart
  \/ DeleteVPSieNode \/ Cordon \/ List
  \/ \E p \in Pods : Evict(p)
  \/ waitForPodsDeleted \/ DeleteNode

Spec == Init /\ [][Next]_vars

\* Both procedures run on; the drain of the manager ends by its deadline, that of
\* the VPSieNode by its timeout.
Draining == \/ cordonNode \/ ListPods \/ DrainDeadline \/ waitForPodTermination
            \/ VerifyMigration \/ \E p \in Pods : evictPodWithRetry(p)
Terminating == \/ Cordon \/ List \/ waitForPodsDeleted \/ DeleteNode
               \/ \E p \in Pods : Evict(p)

Fairness == WF_vars(Draining) /\ WF_vars(Terminating)

FairSpec == Spec /\ Fairness

-----------------------------------------------------------------------------
(* Properties.                                                             *)

\* After DrainNode has returned success the Node has no pods but those of
\* DaemonSets, until the VPSieNode is deleted: none comes back (drain.go, cleanup
\* policy: "Leaves node cordoned for controller deletion").
DrainedStaysEmpty ==
  result = "success" /\ termination.step = "idle" =>
    \A p \in Pods \ DaemonPods : pod[p] \notin OnNode

\* Every pod that the deletion of the VPSieNode found running has left the Node
\* before the Node object goes, unless that drain failed, timed out or could not
\* see the pod.
ListedPodsGone ==
  [][termination'.step = "done" /\ termination.step # "done" /\ ~ termination.excused =>
       \A l \in termination.listed : ~ (pod[l[1]] \in OnNode /\ uid[l[1]] = l[2])]_vars

\* A drain comes to an end, and a deletion gets to the machine, whatever evictions,
\* polls and the pods do.
DrainsEnd ==
  /\ (drain.step # "idle") ~> (drain.step = "idle")
  /\ (termination.step = "cordon") ~> (termination.step = "done")

-----------------------------------------------------------------------------
(* What a comment says, and the code does not do.                          *)

\* drain.go:31 "On PDB validation failure: Uncordons the node (rollback)": a drain
\* that fails before it has evicted anything leaves a Node that takes pods again,
\* unless the deletion of the VPSieNode is under way (uncordonNode).
RolledBack ==
  [][drain.step = "list" /\ result' = "error" /\ termination.step = "idle"
       => node' = "schedulable"]_vars
=============================================================================
