------------------------------ MODULE VPSieNode ------------------------------
(***************************************************************************)
(* The life of VPSieNode custom resources under the VPSieNode controller   *)
(* (src/pkg/controller/vpsienode): finalizer, phase machine, creation of   *)
(* the VPS, its discovery, its join to the cluster, and its deletion.      *)
(*                                                                         *)
(* A reconciliation is one action.  It reads the informer's copy of the    *)
(* object, which may lag behind the API server by any number of writes,    *)
(* so everything that happens between its read and its writes is already   *)
(* covered by the lag.  What cannot be merged is a reconciliation of which *)
(* only a prefix takes effect (a rejected Update, an API error, a crash of *)
(* the controller): the parameter "out" of an action says how many of its  *)
(* writes land, "none", only the "first" or "all".                         *)
(*                                                                         *)
(* A machine stands for the VPS, its ID, its K8s identifier, its hostname, *)
(* its IP address and its Kubernetes Node, which the provider assigns      *)
(* together.                                                               *)
(***************************************************************************)
EXTENDS FiniteSets

CONSTANTS
  VPSieNodes,    \* names of the custom resources
  Machines,      \* the VPSs the provider can build
  None,          \* an empty field: "" or 0
  OwnName,       \* the hostname generateHostname derives from the resource
  Answers,       \* what AddK8sSlaveToGroup may tell of the machine when it
                 \* accepts: its VM "id", its K8s "ident", both or nothing
  Listed,        \* the machines GetVM and ListVMs know (K8s-managed ones
                 \* are not among them)
  ForeignVM,     \* does ListVMs also show a running VM of somebody else?
  HostnameMatches,  \* <<v, m>>: the name of v is a prefix of m's hostname
  Vanishing,     \* the machines somebody may delete outside the autoscaler
  InfoEndpoint   \* does the cluster-info endpoint answer (or with 404)?

ASSUME ConstantsAssumption ==
  /\ None \notin Machines \cup VPSieNodes
  /\ OwnName \notin Machines \cup {None}
  /\ Answers \subseteq SUBSET {"id", "ident"}
  /\ Listed \subseteq Machines
  /\ ForeignVM \in BOOLEAN
  /\ HostnameMatches \subseteq VPSieNodes \X Machines
  /\ Vanishing \subseteq Machines
  /\ InfoEndpoint \in BOOLEAN

VARIABLES
  server,     \* the VPSieNode objects in the API server
  cache,      \* the informer's copies, which r.Get returns
  nodes,      \* the Kubernetes Nodes in the API server
  seen,       \* the informer's copies of the Nodes
  vps,        \* the machines at the provider
  elapsed,    \* which timers of a VPSieNode have run out
  requester,  \* history: whose creation request built the machine
  lost        \* history: machines whose creation was never recorded

vars == <<server, cache, nodes, seen, vps, elapsed, requester, lost>>

-----------------------------------------------------------------------------
(* The objects.                                                            *)

Phases == {"", "Pending", "Provisioning", "Provisioned", "Joining", "Ready",
           "Terminating", "Deleting", "Failed"}
Timers == {"Provisioning", "Joining", "Failed"}
Names  == Machines \cup {None, OwnName}

\* VPSieInstanceID, VPSieNodeIdentifier, IPAddress, NodeName, and the
\* creation-requested annotation: what r.Update writes.
SpecFields ==
  [id : Machines \cup {None}, ident : Machines \cup {None},
   ip : Machines \cup {None}, name : Names, requested : BOOLEAN]

\* Phase, Hostname, NodeName and "DeletedAt is set": what Status().Patch writes.
StatusFields ==
  [phase : Phases, host : Machines \cup {None}, node : Machines \cup {None},
   deleted : BOOLEAN]

\* life: "deleting" has a DeletionTimestamp; a "gone" object keeps its fields
\* here only for the properties to look at.
Objects ==
  [life : {"none", "live", "deleting", "gone"}, finalizer : BOOLEAN,
   spec : SpecFields, status : StatusFields]

NodeObjects == [state : {"absent", "notready", "ready"},
                label : VPSieNodes \cup {None}]

NoObject ==
  [life |-> "none", finalizer |-> FALSE,
   spec |-> [id |-> None, ident |-> None, ip |-> None, name |-> None,
             requested |-> FALSE],
   status |-> [phase |-> "", host |-> None, node |-> None,
               deleted |-> FALSE]]

NoNode == [state |-> "absent", label |-> None]

TypeOK ==
  /\ server \in [VPSieNodes -> Objects]
  /\ cache \in [VPSieNodes -> Objects]
  /\ nodes \in [Machines -> NodeObjects]
  /\ seen \in [Machines -> NodeObjects]
  /\ vps \in [Machines -> {"free", "building", "running", "gone"}]
  /\ elapsed \in [VPSieNodes -> SUBSET Timers]
  /\ requester \in [Machines -> VPSieNodes \cup {None}]
  /\ lost \in SUBSET Machines

Init ==
  /\ server = [v \in VPSieNodes |-> NoObject]
  /\ cache = [v \in VPSieNodes |-> NoObject]
  /\ nodes = [m \in Machines |-> NoNode]
  /\ seen = [m \in Machines |-> NoNode]
  /\ vps = [m \in Machines |-> "free"]
  /\ elapsed = [v \in VPSieNodes |-> {}]
  /\ requester = [m \in Machines |-> None]
  /\ lost = {}

-----------------------------------------------------------------------------
(* The writes of a reconciliation.                                         *)

\* Mutant of Fresh: Update without the resourceVersion.
FreshMutant(v) == server[v].life # "none"

\* Update carries the resourceVersion it read: it lands only on that version.
Fresh(v) == cache[v] = server[v]

Exists(v) == server[v].life \in {"live", "deleting"}

\* Mutant of Merge: Status().Update, which overwrites the whole status.
MergeMutant(current, original, new) == new

\* Status().Patch with MergeFrom(original) sends the fields that differ from
\* the copy that was read, and no resourceVersion.
Merge(current, original, new) ==
  [phase   |-> IF new.phase = original.phase THEN current.phase ELSE new.phase,
   host    |-> IF new.host = original.host THEN current.host ELSE new.host,
   node    |-> IF new.node = original.node THEN current.node ELSE new.node,
   deleted |-> IF new.deleted = original.deleted THEN current.deleted
                                                 ELSE new.deleted]

PatchStatus(v, new) ==
  /\ Exists(v)
  /\ server' = [server EXCEPT ![v].status = Merge(@, cache[v].status, new)]

\* The end of Reconcile: Update when the spec or the annotation changed, and
\* only after it has landed the status patch.
Commit(v, spec, status, out) ==
  \/ out = "none" /\ UNCHANGED server
  \/ /\ out \in {"first", "all"} /\ spec # cache[v].spec /\ Fresh(v)
     /\ server' = [server EXCEPT
                     ![v].spec = spec,
                     ![v].status = IF out = "all" THEN status ELSE @]
  \/ out = "all" /\ spec = cache[v].spec /\ PatchStatus(v, status)

Outcomes == {"none", "first", "all"}

\* Reconcile reaches the state machine with the object in phase p.
Handling(v, p) ==
  /\ cache[v].life = "live" /\ cache[v].finalizer
  /\ cache[v].status.phase = p

\* Mutant of Terminating: the DeletionTimestamp is not looked at.
TerminatingMutant(v) == cache[v].life # "none" /\ cache[v].finalizer

Terminating(v) == cache[v].life = "deleting" /\ cache[v].finalizer

MoveTo(v, p) == PatchStatus(v, [cache[v].status EXCEPT !.phase = p])

-----------------------------------------------------------------------------
(* Outside the controller.                                                 *)

\* The NodeGroup controller creates a VPSieNode with an empty status.
CreateVPSieNode(v) ==
  /\ server[v].life = "none"
  /\ server' = [server EXCEPT ![v].life = "live"]
  /\ UNCHANGED <<cache, nodes, seen, vps, elapsed, requester, lost>>

\* The NodeGroup controller, the rebalancer or a user deletes it.
DeleteVPSieNode(v) ==
  /\ server[v].life = "live"
  /\ server' = [server EXCEPT ![v].life = IF server[v].finalizer
                                          THEN "deleting" ELSE "gone"]
  /\ UNCHANGED <<cache, nodes, seen, vps, elapsed, requester, lost>>

\* The informers catch up.
Inform(v) ==
  /\ cache[v] # server[v]
  /\ cache' = [cache EXCEPT ![v] = server[v]]
  /\ UNCHANGED <<server, nodes, seen, vps, elapsed, requester, lost>>

InformNode(m) ==
  /\ seen[m] # nodes[m]
  /\ seen' = [seen EXCEPT ![m] = nodes[m]]
  /\ UNCHANGED <<server, cache, nodes, vps, elapsed, requester, lost>>

\* A timer runs out.  It is read only in the phase it belongs to, so an
\* earlier expiry need not be told apart.
Expire(v, t) ==
  /\ Handling(v, t) /\ t \notin elapsed[v]
  /\ elapsed' = [elapsed EXCEPT ![v] = @ \cup {t}]
  /\ UNCHANGED <<server, cache, nodes, seen, vps, requester, lost>>

Boot(m) ==
  /\ vps[m] = "building"
  /\ vps' = [vps EXCEPT ![m] = "running"]
  /\ UNCHANGED <<server, cache, nodes, seen, elapsed, requester, lost>>

\* Somebody deletes the machine outside the autoscaler.
Vanish(m) ==
  /\ m \in Vanishing /\ vps[m] \in {"building", "running"}
  /\ vps' = [vps EXCEPT ![m] = "gone"]
  /\ UNCHANGED <<server, cache, nodes, seen, elapsed, requester, lost>>

\* The kubelet registers the Node, reports it ready, or it disappears with
\* its machine.
Register(m) ==
  /\ vps[m] = "running"
  /\ \/ /\ nodes[m].state = "absent"
        /\ nodes' = [nodes EXCEPT ![m].state = "notready"]
     \/ /\ nodes[m].state = "notready"
        /\ nodes' = [nodes EXCEPT ![m].state = "ready"]
  /\ UNCHANGED <<server, cache, seen, vps, elapsed, requester, lost>>

Unregister(m) ==
  /\ vps[m] = "gone" /\ nodes[m].state # "absent"
  /\ nodes' = [nodes EXCEPT ![m] = NoNode]
  /\ UNCHANGED <<server, cache, seen, vps, elapsed, requester, lost>>

-----------------------------------------------------------------------------
(* Reconcile: from the empty object to Provisioning.                       *)

AddFinalizer(v) ==
  /\ cache[v].life = "live" /\ ~ cache[v].finalizer
  /\ Fresh(v)
  /\ server' = [server EXCEPT ![v].finalizer = TRUE]
  /\ UNCHANGED <<cache, nodes, seen, vps, elapsed, requester, lost>>

InitializePhase(v) ==
  /\ Handling(v, "")
  /\ MoveTo(v, "Pending")
  /\ UNCHANGED <<cache, nodes, seen, vps, elapsed, requester, lost>>

HandlePending(v) ==
  /\ Handling(v, "Pending")
  /\ MoveTo(v, "Provisioning")
  /\ UNCHANGED <<cache, nodes, seen, vps, elapsed, requester, lost>>

-----------------------------------------------------------------------------
(* Phase Provisioning: Provisioner.Provision.                              *)

ProvisioningTimeout(v) ==
  /\ Handling(v, "Provisioning") /\ "Provisioning" \in elapsed[v]
  /\ MoveTo(v, "Failed")
  /\ UNCHANGED <<cache, nodes, seen, vps, elapsed, requester, lost>>

Provisioning(v) ==
  Handling(v, "Provisioning") /\ "Provisioning" \notin elapsed[v]

\* Nothing was requested yet, as far as the informer knows.
MustCreate(v) ==
  /\ Provisioning(v)
  /\ cache[v].spec.id = None /\ ~ cache[v].spec.requested

\* A terminal error ("exceeds the allowed limit") fails the VPSieNode.
CreateVPSRejected(v) ==
  /\ MustCreate(v)
  /\ MoveTo(v, "Failed")
  /\ UNCHANGED <<cache, nodes, seen, vps, elapsed, requester, lost>>

\* Mutant of AfterCreate: the hostname is stored as the IP address.
AfterCreateMutant(spec, m, answer, h) ==
  IF "id" \in answer
  THEN [spec EXCEPT !.id = m, !.ip = IF h # None THEN h ELSE OwnName]
  ELSE [spec EXCEPT !.requested = TRUE]

\* What createVPS records of an accepted request.  AddK8sSlaveToGroup returns
\* no IP address, and a hostname h or none.
AfterCreate(spec, m, answer, h) ==
  LET told == [spec EXCEPT !.ident = IF "ident" \in answer THEN m ELSE @]
  IN  IF "id" \in answer
      THEN [told EXCEPT !.id = m, !.ip = None,
                        !.name = IF @ # None THEN @
                                 ELSE IF h # None THEN h ELSE OwnName]
      ELSE [told EXCEPT !.requested = TRUE]

\* The request is accepted and the provider builds machine m.  When the
\* answer or the Update that records it is lost, nothing knows of m.
CreateVPS(v, m, answer, h, out) ==
  /\ MustCreate(v) /\ vps[m] = "free"
  /\ "id" \in answer => m \in Listed
  /\ Commit(v, AfterCreate(cache[v].spec, m, answer, h),
            IF "id" \in answer THEN [cache[v].status EXCEPT !.host = h]
                                ELSE cache[v].status, out)
  /\ vps' = [vps EXCEPT ![m] = "building"]
  /\ requester' = [requester EXCEPT ![m] = v]
  /\ lost' = IF out = "none" THEN lost \cup {m} ELSE lost
  /\ UNCHANGED <<cache, nodes, seen, elapsed>>

\* DiscoverVPSID runs while the request is known but no ID is.  ListVMs must
\* show at least one running VM before anything is looked at.
Candidates == {m \in Listed : vps[m] = "running"}

Discovering(v) ==
  /\ Provisioning(v)
  /\ cache[v].spec.id = None /\ cache[v].spec.requested
  /\ Candidates # {} \/ ForeignVM

\* What createVPS records of a discovered machine, up = GetVM then answers.
\* A machine without a VM ID goes straight to Provisioned.
RecordDiscovery(v, m, up, out) ==
  LET spec == [cache[v].spec EXCEPT
                 !.id = IF m \in Listed /\ vps[m] = "running" THEN m ELSE None,
                 !.ip = m, !.name = IF @ = None THEN m ELSE @]
      found == [cache[v].status EXCEPT !.host = m]
      status == IF spec.id = None
                THEN [found EXCEPT !.phase = "Provisioned",
                                   !.node = IF @ = None THEN m ELSE @]
                ELSE IF up THEN [found EXCEPT !.phase = "Provisioned"]
                           ELSE found
  IN  Commit(v, spec, status, out)

\* Strategy 1: claim a worker Node without a vpsienode label (the newest, if it
\* is recent enough: ages are left to the choice of m).  The label is patched
\* without a resourceVersion.
DiscoverUnclaimed(v, m, up, out) ==
  /\ Discovering(v)
  /\ seen[m].state # "absent" /\ seen[m].label = None
  /\ nodes[m].state # "absent"
  /\ nodes' = [nodes EXCEPT ![m].label = v]
  /\ RecordDiscovery(v, m, up, out)
  /\ UNCHANGED <<cache, seen, vps, elapsed, requester, lost>>

\* Strategies 2 and 3, when there is nothing to claim or the claim failed:
\* a running VM with a matching hostname, or with the IP address of a Node
\* that no other VPSieNode has labelled.
DiscoverVM(v, m, up, out) ==
  /\ Discovering(v) /\ m \in Candidates
  /\ \/ <<v, m>> \in HostnameMatches
     \/ seen[m].state # "absent" /\ seen[m].label \in {None, v}
  /\ RecordDiscovery(v, m, up, out)
  /\ UNCHANGED <<cache, nodes, seen, vps, elapsed, requester, lost>>

\* checkVPSStatus polls the VM whose ID is known.
CheckVPSStatus(v, out) ==
  LET m == cache[v].spec.id
      found == [cache[v].status EXCEPT !.host = m]
  IN  /\ Provisioning(v) /\ m # None
      /\ \/ /\ vps[m] = "gone"
            /\ out = "all" /\ MoveTo(v, "Failed")
         \/ /\ vps[m] \in {"building", "running"}
            /\ Commit(v, [cache[v].spec EXCEPT !.ip = m],
                      IF vps[m] = "running"
                      THEN [found EXCEPT !.phase = "Provisioned"]
                      ELSE found, out)
      /\ UNCHANGED <<cache, nodes, seen, vps, elapsed, requester, lost>>

-----------------------------------------------------------------------------
(* Phases Provisioned, Joining and Failed.  MonitorNode, in phase Ready,   *)
(* only refreshes a condition.                                             *)

HandleProvisioned(v) ==
  /\ Handling(v, "Provisioned")
  /\ MoveTo(v, "Joining")
  /\ UNCHANGED <<cache, nodes, seen, vps, elapsed, requester, lost>>

\* Mutant of JoiningTimeout: the check of the timeout is dropped.
JoiningTimeoutMutant(v) == FALSE

JoiningTimeout(v) ==
  /\ Handling(v, "Joining") /\ "Joining" \in elapsed[v]
  /\ MoveTo(v, "Failed")
  /\ UNCHANGED <<cache, nodes, seen, vps, elapsed, requester, lost>>

\* findKubernetesNode: the Node with the IP address, then the one named
\* Spec.NodeName, then the one with the hostname.
InCluster(n) == n \in Machines /\ seen[n].state # "absent"

FindKubernetesNode(o) ==
  IF InCluster(o.spec.ip) THEN o.spec.ip
  ELSE IF InCluster(o.spec.name) THEN o.spec.name
  ELSE IF InCluster(o.status.host) THEN o.status.host
  ELSE None

\* CheckJoinStatus: label the Node, and the VPSieNode is Ready when the Node
\* is.  A conflict on the label is an error, but the names are kept.
CheckJoinStatus(v, out) ==
  LET m == FindKubernetesNode(cache[v])
      spec == [cache[v].spec EXCEPT !.name = IF @ = None THEN m ELSE @]
      named == [cache[v].status EXCEPT !.node = m]
      joined == IF seen[m].state = "ready"
                THEN [named EXCEPT !.phase = "Ready"] ELSE named
  IN  /\ Handling(v, "Joining") /\ "Joining" \notin elapsed[v]
      /\ m # None
      /\ \/ /\ seen[m].label = v
            /\ Commit(v, spec, joined, out) /\ UNCHANGED nodes
         \/ /\ seen[m].label # v /\ seen[m] = nodes[m]
            /\ nodes' = [nodes EXCEPT ![m].label = v]
            /\ Commit(v, spec, joined, out)
         \/ /\ seen[m].label # v
            /\ Commit(v, spec, named, out) /\ UNCHANGED nodes
      /\ UNCHANGED <<cache, seen, vps, elapsed, requester, lost>>

\* The TTL of a failed VPSieNode ends in a Delete of the object.
HandleFailed(v) ==
  /\ Handling(v, "Failed") /\ "Failed" \in elapsed[v]
  /\ DeleteVPSieNode(v)

-----------------------------------------------------------------------------
(* reconcileDelete.                                                        *)

DeletionPhases == {"Terminating", "Deleting"}

\* Mutant of BeginTermination: a failed deletion is not started again.
BeginTerminationMutant(v) ==
  /\ Terminating(v)
  /\ cache[v].status.phase \notin DeletionPhases \cup {"Failed"}
  /\ MoveTo(v, "Terminating")
  /\ UNCHANGED <<cache, nodes, seen, vps, elapsed, requester, lost>>

BeginTermination(v) ==
  /\ Terminating(v) /\ cache[v].status.phase \notin DeletionPhases
  /\ MoveTo(v, "Terminating")
  /\ UNCHANGED <<cache, nodes, seen, vps, elapsed, requester, lost>>

\* The state machine runs until DeletedAt is set.
Deleting(v, p) ==
  /\ Terminating(v) /\ cache[v].status.phase = p
  /\ ~ cache[v].status.deleted

\* DrainAndDelete: errors of the drain and of the Node deletion are recorded
\* and passed over.
DrainAndDelete(v, out) ==
  LET n == IF cache[v].status.node # None THEN cache[v].status.node
                                          ELSE cache[v].spec.name
  IN  /\ Deleting(v, "Terminating")
      /\ \/ UNCHANGED nodes
         \/ n \in Machines /\ nodes' = [nodes EXCEPT ![n] = NoNode]
      /\ \/ out = "none" /\ UNCHANGED server
         \/ out = "all" /\ MoveTo(v, "Deleting")
      /\ UNCHANGED <<cache, seen, vps, elapsed, requester, lost>>

\* Mutant of Hostname: the spec is asked before the status.
HostnameMutant(o) ==
  IF o.spec.name # None THEN o.spec.name
  ELSE IF o.status.host # None THEN o.status.host
  ELSE o.status.node

Hostname(o) ==
  IF o.status.host # None THEN o.status.host
  ELSE IF o.spec.name # None THEN o.spec.name
  ELSE o.status.node

CanDelete(o) == Hostname(o) # None \/ o.spec.id # None

\* FindK8sNodeIdentifier: the cluster lists its running machines by hostname,
\* a machine still being built perhaps; without the endpoint the answer is "".
Lookup(h) ==
  IF InfoEndpoint /\ h \in Machines
  THEN CASE vps[h] = "running"  -> {h}
         [] vps[h] = "building" -> {h, None}
         [] OTHER -> {None}
  ELSE {None}

\* Mutant of DeletionTargets: the stored identifier is not used.
DeletionTargetsMutant(o) ==
  (IF Hostname(o) # None THEN Lookup(Hostname(o)) ELSE {})
  \cup (IF o.spec.id # None THEN {o.spec.id} ELSE {})

\* The machines one call of Provisioner.Delete may turn to: the recorded
\* identifier, else the one found by hostname (None: "already deleted"),
\* else, without hostname or after a failed lookup, the VM ID.
DeletionTargets(o) ==
  IF o.spec.ident # None THEN {o.spec.ident}
  ELSE (IF Hostname(o) # None THEN Lookup(Hostname(o)) ELSE {})
       \cup (IF o.spec.id # None THEN {o.spec.id} ELSE {})

\* The end of a deletion that set DeletedAt: the status patch, then the Update
\* that removes the finalizer, from the patch's answer and so never stale.
FinishDeletion(v, out) ==
  LET status == Merge(server[v].status, cache[v].status,
                      [cache[v].status EXCEPT !.deleted = TRUE])
  IN  \/ out = "none" /\ UNCHANGED server
      \/ /\ out \in {"first", "all"} /\ Exists(v)
         /\ server' = [server EXCEPT
                         ![v].status = status,
                         ![v].finalizer = IF out = "all" THEN FALSE ELSE @,
                         ![v].life = IF out = "all" THEN "gone" ELSE @]

\* DeleteVPS without a hostname and without an ID: "No VPS to delete".
SkipVPSDeletion(v, out) ==
  /\ Deleting(v, "Deleting") /\ ~ CanDelete(cache[v])
  /\ FinishDeletion(v, out)
  /\ UNCHANGED <<cache, nodes, seen, vps, elapsed, requester, lost>>

\* One of the attempts succeeds; not found counts as deleted.
DeleteVPS(v, out) ==
  /\ Deleting(v, "Deleting") /\ CanDelete(cache[v])
  /\ \E m \in DeletionTargets(cache[v]) :
       vps' = IF m = None THEN vps ELSE [vps EXCEPT ![m] = "gone"]
  /\ FinishDeletion(v, out)
  /\ UNCHANGED <<cache, nodes, seen, elapsed, requester, lost>>

\* Every attempt failed, though a request may have been carried out whose
\* answer was lost.
DeleteVPSExhausted(v) ==
  /\ Deleting(v, "Deleting") /\ CanDelete(cache[v])
  /\ \/ UNCHANGED vps
     \/ \E m \in DeletionTargets(cache[v]) \ {None} :
          vps' = [vps EXCEPT ![m] = "gone"]
  /\ MoveTo(v, "Failed")
  /\ UNCHANGED <<cache, nodes, seen, elapsed, requester, lost>>

\* DeletedAt was set by an earlier reconciliation.
RemoveFinalizer(v) ==
  /\ Terminating(v) /\ cache[v].status.phase \in DeletionPhases
  /\ cache[v].status.deleted
  /\ Fresh(v)
  /\ server' = [server EXCEPT ![v].finalizer = FALSE, ![v].life = "gone"]
  /\ UNCHANGED <<cache, nodes, seen, vps, elapsed, requester, lost>>

-----------------------------------------------------------------------------

Environment ==
  \/ \E v \in VPSieNodes :
       \/ CreateVPSieNode(v) \/ DeleteVPSieNode(v) \/ Inform(v)
       \/ \E t \in Timers : Expire(v, t)
  \/ \E m \in Machines :
       \/ InformNode(m) \/ Boot(m) \/ Vanish(m) \/ Register(m) \/ Unregister(m)

\* The status patches that move a VPSieNode one phase on.
Advance(v) ==
  \/ AddFinalizer(v) \/ InitializePhase(v) \/ HandlePending(v)
  \/ ProvisioningTimeout(v) \/ HandleProvisioned(v) \/ JoiningTimeout(v)
  \/ BeginTermination(v) \/ DrainAndDelete(v, "all") \/ RemoveFinalizer(v)

CompleteDeletion(v) == SkipVPSDeletion(v, "all") \/ DeleteVPS(v, "all")

\* One pass of Reconcile over the VPSieNode v.
Reconcile(v) ==
  \/ Advance(v)
  \/ CreateVPSRejected(v)
  \/ \E out \in Outcomes :
       \/ \E m \in Machines :
            \/ \E answer \in Answers, h \in {m, None} :
                 CreateVPS(v, m, answer, h, out)
            \/ \E up \in BOOLEAN :
                 DiscoverUnclaimed(v, m, up, out) \/ DiscoverVM(v, m, up, out)
       \/ CheckVPSStatus(v, out) \/ CheckJoinStatus(v, out)
       \/ DrainAndDelete(v, out) \/ SkipVPSDeletion(v, out) \/ DeleteVPS(v, out)
  \/ HandleFailed(v)
  \/ DeleteVPSExhausted(v)

Next == Environment \/ \E v \in VPSieNodes : Reconcile(v)

\* The informers catch up, timers run out, the workqueue retries a key until
\* it succeeds, and neither the API server nor the provider fails for ever.
Fairness ==
  /\ \A v \in VPSieNodes :
       /\ WF_vars(Inform(v))
       /\ \A t \in {"Provisioning", "Joining"} : WF_vars(Expire(v, t))
       /\ SF_vars(Advance(v)) /\ SF_vars(CompleteDeletion(v))
  /\ \A m \in Machines : WF_vars(InformNode(m))

Spec == Init /\ [][Next]_vars
FairSpec == Spec /\ Fairness

-----------------------------------------------------------------------------
(* Safety.                                                                 *)

\* The server's phase follows the phase machine even though every patch is
\* computed from a copy that may be stale (phases.go, controller.go).  Two
\* edges exist only because of the lag: a timer that is read again after the
\* phase was left fails a Provisioned or a Ready VPSieNode.
PhaseEdges ==
  {<<"", "Pending">>, <<"Pending", "Provisioning">>,
   <<"Provisioning", "Provisioned">>, <<"Provisioning", "Failed">>,
   <<"Provisioned", "Joining">>, <<"Provisioned", "Failed">>,
   <<"Joining", "Ready">>, <<"Joining", "Failed">>, <<"Ready", "Failed">>,
   <<"Terminating", "Deleting">>, <<"Deleting", "Failed">>}
  \cup ((Phases \ {"Terminating", "Deleting"}) \X {"Terminating"})

PhaseOrder ==
  [][\A v \in VPSieNodes :
       server'[v].status.phase # server[v].status.phase
         => <<server[v].status.phase, server'[v].status.phase>> \in PhaseEdges]_vars

\* At most one creation request of a VPSieNode is ever recorded: the
\* resourceVersion of Update rejects the second one that a stale copy leads
\* to (controller.go, Update before the status patch).
RecordedOnce ==
  \A v \in VPSieNodes, m, n \in Machines \ lost :
    requester[m] = v /\ requester[n] = v => m = n

\* The finalizer outlives a machine whose K8s identifier is recorded and
\* that DeleteVPS does not skip (terminator.go DeleteVPS, provisioner.go
\* Delete, controller.go reconcileDelete).
IdentifiedVPSDeleted ==
  \A v \in VPSieNodes :
    LET o == server[v]
    IN  o.life = "gone" /\ o.spec.ident # None /\ CanDelete(o)
          => vps[o.spec.ident] = "gone"

\* The controller deletes a machine only for a VPSieNode that is being deleted
\* (or that a repeated pass over a stale copy finds just gone) and that refers
\* to it: nothing deletes the machine of a live VPSieNode (provisioner.go Delete).
RefersTo(o, m) == m \in {o.spec.id, o.spec.ident, o.spec.name, o.status.host,
                         o.status.node}

DeletedForAReason ==
  [][\A m \in Machines \ Vanishing :
       vps[m] # "gone" /\ vps'[m] = "gone"
         => \E v \in VPSieNodes :
              server[v].life \in {"deleting", "gone"} /\ RefersTo(server[v], m)]_vars

\* What DrainAndDelete drains is what DeleteVPS deletes: the Node a VPSieNode
\* joined is the one its hostname names, whatever a lost or repeated request
\* left behind (joiner.go findKubernetesNode, terminator.go).  It holds for
\* machines whose VM ID is known from the answer to the creation request.
DrainedIsDeleted ==
  \A v \in VPSieNodes :
    LET o == server[v]
    IN  o.status.node # None => Hostname(o) = o.status.node

-----------------------------------------------------------------------------
(* What the controller promises: the refinement.                           *)

StageOf(o) ==
  CASE o.life = "none"     -> "unborn"
    [] o.life = "deleting" -> "leaving"
    [] o.life = "gone"     -> "gone"
    [] OTHER -> CASE o.status.phase = "Ready"  -> "ready"
                  [] o.status.phase = "Failed" -> "failed"
                  [] OTHER -> "starting"

Lifecycle == INSTANCE NodeLifecycle
               WITH stage <- [v \in VPSieNodes |-> StageOf(server[v])]

\* Whatever phase patches from stale copies, repeated passes and failed rounds
\* do, users of the API see each VPSieNode go through its life once and forward
\* (controller.go Reconcile and reconcileDelete, phases.go).
KeepsLifecycle == Lifecycle!Spec

\* No phase lasts for ever: a VPSieNode that is not deleted becomes Ready or
\* Failed through the timeouts (phases.go), and one that is deleted loses its
\* finalizer through any number of failed rounds (controller.go reconcileDelete).
LifeGoesOn == Lifecycle!Progress

=============================================================================
