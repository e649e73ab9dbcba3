-------------------------- MODULE VPSieNode_proofs --------------------------
(***************************************************************************)
(* Theorems about VPSieNode, for any number of VPSieNodes and machines.    *)
(***************************************************************************)
EXTENDS VPSieNode, TLAPS

-----------------------------------------------------------------------------
(* Type correctness.                                                       *)

LEMMA MergeType ==
  ASSUME NEW a \in StatusFields, NEW b \in StatusFields, NEW c \in StatusFields
  PROVE  Merge(a, b, c) \in StatusFields
BY DEF Merge, StatusFields

LEMMA FieldTypes ==
  ASSUME TypeOK, NEW v \in VPSieNodes
  PROVE  /\ server[v] \in Objects /\ cache[v] \in Objects
         /\ server[v].spec \in SpecFields /\ cache[v].spec \in SpecFields
         /\ server[v].status \in StatusFields /\ cache[v].status \in StatusFields
BY DEF TypeOK, Objects

LEMMA PatchStatusType ==
  ASSUME TypeOK, NEW v \in VPSieNodes, NEW new \in StatusFields,
         PatchStatus(v, new)
  PROVE  server' \in [VPSieNodes -> Objects]
<1>1. Merge(server[v].status, cache[v].status, new) \in StatusFields
  BY FieldTypes, MergeType
<1> QED
  BY <1>1 DEF PatchStatus, TypeOK, Objects

LEMMA CommitType ==
  ASSUME TypeOK, NEW v \in VPSieNodes, NEW spec \in SpecFields,
         NEW status \in StatusFields, NEW out, Commit(v, spec, status, out)
  PROVE  server' \in [VPSieNodes -> Objects]
<1>1. CASE UNCHANGED server
  BY <1>1 DEF TypeOK
<1>2. CASE server' = [server EXCEPT
                        ![v].spec = spec,
                        ![v].status = IF out = "all" THEN status ELSE @]
  <2> DEFINE new == IF out = "all" THEN status ELSE server[v].status
  <2>1. new \in StatusFields
    BY FieldTypes
  <2>2. server' = [server EXCEPT ![v] = [server[v] EXCEPT !.spec = spec,
                                                        !.status = new]]
    BY <1>2, FieldTypes DEF TypeOK, Objects
  <2>3. [server[v] EXCEPT !.spec = spec, !.status = new] \in Objects
    BY <2>1, FieldTypes DEF Objects
  <2> QED
    BY <2>2, <2>3 DEF TypeOK
<1>3. CASE PatchStatus(v, status)
  BY <1>3, PatchStatusType
<1> QED
  BY <1>1, <1>2, <1>3 DEF Commit

LEMMA MoveToType ==
  ASSUME TypeOK, NEW v \in VPSieNodes, NEW p \in Phases, MoveTo(v, p)
  PROVE  server' \in [VPSieNodes -> Objects]
<1>1. [cache[v].status EXCEPT !.phase = p] \in StatusFields
  BY FieldTypes DEF StatusFields
<1> QED
  BY <1>1, PatchStatusType DEF MoveTo

LEMMA FinishDeletionType ==
  ASSUME TypeOK, NEW v \in VPSieNodes, NEW out, FinishDeletion(v, out)
  PROVE  server' \in [VPSieNodes -> Objects]
<1> DEFINE status == Merge(server[v].status, cache[v].status,
                           [cache[v].status EXCEPT !.deleted = TRUE])
           new == [server[v] EXCEPT
                     !.status = status,
                     !.finalizer = IF out = "all" THEN FALSE ELSE @,
                     !.life = IF out = "all" THEN "gone" ELSE @]
<1>1. CASE UNCHANGED server
  BY <1>1 DEF TypeOK
<1>2. CASE server' = [server EXCEPT
                        ![v].status = status,
                        ![v].finalizer = IF out = "all" THEN FALSE ELSE @,
                        ![v].life = IF out = "all" THEN "gone" ELSE @]
  <2>1. [cache[v].status EXCEPT !.deleted = TRUE] \in StatusFields
    BY FieldTypes DEF StatusFields
  <2>2. status \in StatusFields
    BY <2>1, FieldTypes, MergeType
  <2>3. new \in Objects
    BY <2>2, FieldTypes DEF Objects
  <2>4. server' = [server EXCEPT ![v] = new]
    BY <1>2, FieldTypes DEF TypeOK, Objects
  <2> QED
    BY <2>3, <2>4 DEF TypeOK
<1> QED
  BY <1>1, <1>2 DEF FinishDeletion

LEMMA AfterCreateType ==
  ASSUME NEW spec \in SpecFields, NEW m \in Machines,
         NEW answer,
         NEW h \in {m, None}
  PROVE  AfterCreate(spec, m, answer, h) \in SpecFields
BY DEF AfterCreate, SpecFields, Names

LEMMA RecordDiscoveryType ==
  ASSUME TypeOK, NEW v \in VPSieNodes, NEW m \in Machines, NEW up \in BOOLEAN,
         NEW out, RecordDiscovery(v, m, up, out)
  PROVE  server' \in [VPSieNodes -> Objects]
<1> DEFINE spec == [cache[v].spec EXCEPT
                      !.id = IF m \in Listed /\ vps[m] = "running"
                             THEN m ELSE None,
                      !.ip = m, !.name = IF @ = None THEN m ELSE @]
           found == [cache[v].status EXCEPT !.host = m]
           status == IF spec.id = None
                     THEN [found EXCEPT !.phase = "Provisioned",
                                        !.node = IF @ = None THEN m ELSE @]
                     ELSE IF up THEN [found EXCEPT !.phase = "Provisioned"]
                                ELSE found
<1>1. spec \in SpecFields
  BY FieldTypes DEF SpecFields, Names
<1>2. status \in StatusFields
  BY FieldTypes DEF StatusFields, Phases
<1>3. Commit(v, spec, status, out)
  BY DEF RecordDiscovery
<1> QED
  BY <1>1, <1>2, <1>3, CommitType

LEMMA CheckVPSStatusType ==
  ASSUME TypeOK, NEW v \in VPSieNodes, NEW out, CheckVPSStatus(v, out)
  PROVE  server' \in [VPSieNodes -> Objects]
<1> DEFINE m == cache[v].spec.id
           found == [cache[v].status EXCEPT !.host = m]
           spec == [cache[v].spec EXCEPT !.ip = m]
           status == IF vps[m] = "running"
                     THEN [found EXCEPT !.phase = "Provisioned"] ELSE found
<1>1. CASE MoveTo(v, "Failed")
  BY <1>1, MoveToType DEF Phases
<1>2. CASE Commit(v, spec, status, out)
  <2>1. spec \in SpecFields /\ status \in StatusFields
    BY FieldTypes DEF SpecFields, StatusFields, Phases
  <2> QED
    BY <1>2, <2>1, CommitType
<1> QED
  BY <1>1, <1>2 DEF CheckVPSStatus

LEMMA LabelType ==
  ASSUME TypeOK, NEW v \in VPSieNodes, NEW m \in Machines,
         nodes' = [nodes EXCEPT ![m].label = v]
  PROVE  nodes' \in [Machines -> NodeObjects]
<1>1. [nodes[m] EXCEPT !.label = v] \in NodeObjects
  BY DEF TypeOK, NodeObjects
<1>2. nodes' = [nodes EXCEPT ![m] = [nodes[m] EXCEPT !.label = v]]
  BY DEF TypeOK
<1> QED
  BY <1>1, <1>2 DEF TypeOK

LEMMA DeleteVPSieNodeType ==
  ASSUME TypeOK, NEW v \in VPSieNodes, DeleteVPSieNode(v)
  PROVE  server' \in [VPSieNodes -> Objects]
BY DEF DeleteVPSieNode, TypeOK, Objects

LEMMA FindKubernetesNodeType ==
  ASSUME NEW o \in Objects
  PROVE  FindKubernetesNode(o) \in Machines \cup {None}
BY DEF FindKubernetesNode, InCluster

LEMMA CheckJoinStatusType ==
  ASSUME TypeOK, NEW v \in VPSieNodes, NEW out, CheckJoinStatus(v, out)
  PROVE  /\ server' \in [VPSieNodes -> Objects]
         /\ nodes' \in [Machines -> NodeObjects]
<1> DEFINE m == FindKubernetesNode(cache[v])
           spec == [cache[v].spec EXCEPT !.name = IF @ = None THEN m ELSE @]
           named == [cache[v].status EXCEPT !.node = m]
           joined == IF seen[m].state = "ready"
                     THEN [named EXCEPT !.phase = "Ready"] ELSE named
<1>1. m \in Machines
  BY FieldTypes, FindKubernetesNodeType DEF CheckJoinStatus
<1>2. spec \in SpecFields
  BY <1>1, FieldTypes DEF SpecFields, Names
<1>3. named \in StatusFields /\ joined \in StatusFields
  BY <1>1, FieldTypes DEF StatusFields, Phases
<1>4. Commit(v, spec, joined, out) \/ Commit(v, spec, named, out)
  BY DEF CheckJoinStatus
<1>5. \/ UNCHANGED nodes
      \/ nodes' = [nodes EXCEPT ![m].label = v]
  BY DEF CheckJoinStatus
<1>6. server' \in [VPSieNodes -> Objects]
  BY <1>2, <1>3, <1>4, CommitType
<1>7. nodes' \in [Machines -> NodeObjects]
  BY <1>1, <1>5, LabelType DEF TypeOK
<1> QED
  BY <1>6, <1>7

LEMMA InitType == ASSUME Init PROVE TypeOK
BY ConstantsAssumption
   DEF Init, TypeOK, NoObject, NoNode, Objects, NodeObjects, SpecFields,
       StatusFields, Phases, Names

LEMMA EnvironmentType ==
  ASSUME TypeOK, Environment
  PROVE  TypeOK'
<1>1. ASSUME NEW v \in VPSieNodes, CreateVPSieNode(v) PROVE TypeOK'
  BY <1>1 DEF CreateVPSieNode, TypeOK, Objects
<1>2. ASSUME NEW v \in VPSieNodes, DeleteVPSieNode(v) PROVE TypeOK'
  BY <1>2, DeleteVPSieNodeType DEF DeleteVPSieNode, TypeOK
<1>3. ASSUME NEW v \in VPSieNodes, Inform(v) PROVE TypeOK'
  BY <1>3 DEF Inform, TypeOK
<1>4. ASSUME NEW v \in VPSieNodes, NEW t \in Timers, Expire(v, t)
      PROVE  TypeOK'
  BY <1>4 DEF Expire, TypeOK
<1>5. ASSUME NEW m \in Machines, InformNode(m) PROVE TypeOK'
  BY <1>5 DEF InformNode, TypeOK
<1>6. ASSUME NEW m \in Machines, Boot(m) \/ Vanish(m) PROVE TypeOK'
  BY <1>6 DEF Boot, Vanish, TypeOK
<1>7. ASSUME NEW m \in Machines, Register(m) PROVE TypeOK'
  <2>1. ASSUME NEW state \in {"notready", "ready"}
        PROVE  [nodes[m] EXCEPT !.state = state] \in NodeObjects
    BY DEF TypeOK, NodeObjects
  <2>2. PICK state \in {"notready", "ready"} :
          nodes' = [nodes EXCEPT ![m] = [nodes[m] EXCEPT !.state = state]]
    BY <1>7 DEF Register, TypeOK
  <2> QED
    BY <1>7, <2>1, <2>2 DEF Register, TypeOK
<1>8. ASSUME NEW m \in Machines, Unregister(m) PROVE TypeOK'
  BY <1>8 DEF Unregister, TypeOK, NodeObjects, NoNode
<1> QED
  BY <1>1, <1>2, <1>3, <1>4, <1>5, <1>6, <1>7, <1>8 DEF Environment

LEMMA ReconcileType ==
  ASSUME TypeOK, NEW v \in VPSieNodes, Reconcile(v)
  PROVE  TypeOK'
<1> USE DEF Phases
<1>1. CASE AddFinalizer(v)
  BY <1>1 DEF AddFinalizer, TypeOK, Objects
<1>2. CASE InitializePhase(v)
  BY <1>2, MoveToType DEF InitializePhase, TypeOK
<1>3. CASE HandlePending(v)
  BY <1>3, MoveToType DEF HandlePending, TypeOK
<1>4. CASE ProvisioningTimeout(v)
  BY <1>4, MoveToType DEF ProvisioningTimeout, TypeOK
<1>5. CASE CreateVPSRejected(v)
  BY <1>5, MoveToType DEF CreateVPSRejected, TypeOK
<1>6. ASSUME NEW m \in Machines, NEW answer \in Answers, NEW h \in {m, None},
             NEW out \in Outcomes, CreateVPS(v, m, answer, h, out)
      PROVE  TypeOK'
  <2> DEFINE spec == AfterCreate(cache[v].spec, m, answer, h)
             status == IF "id" \in answer
                       THEN [cache[v].status EXCEPT !.host = h]
                       ELSE cache[v].status
  <2>1. spec \in SpecFields
    BY ConstantsAssumption, FieldTypes, AfterCreateType
  <2>2. status \in StatusFields
    BY FieldTypes DEF StatusFields
  <2>3. server' \in [VPSieNodes -> Objects]
    BY <1>6, <2>1, <2>2, CommitType DEF CreateVPS
  <2> QED
    BY <1>6, <2>3 DEF CreateVPS, TypeOK
<1>7. ASSUME NEW m \in Machines, NEW up \in BOOLEAN, NEW out \in Outcomes,
             DiscoverUnclaimed(v, m, up, out)
      PROVE  TypeOK'
  BY <1>7, RecordDiscoveryType, LabelType DEF DiscoverUnclaimed, TypeOK
<1>8. ASSUME NEW m \in Machines, NEW up \in BOOLEAN, NEW out \in Outcomes,
             DiscoverVM(v, m, up, out)
      PROVE  TypeOK'
  BY <1>8, RecordDiscoveryType DEF DiscoverVM, TypeOK
<1>9. ASSUME NEW out \in Outcomes, CheckVPSStatus(v, out) PROVE TypeOK'
  <2>1. server' \in [VPSieNodes -> Objects]
    BY <1>9, CheckVPSStatusType
  <2> QED
    BY <1>9, <2>1 DEF CheckVPSStatus, TypeOK
<1>10. CASE HandleProvisioned(v)
  BY <1>10, MoveToType DEF HandleProvisioned, TypeOK
<1>11. CASE JoiningTimeout(v)
  BY <1>11, MoveToType DEF JoiningTimeout, TypeOK
<1>12. ASSUME NEW out \in Outcomes, CheckJoinStatus(v, out) PROVE TypeOK'
  <2>1. /\ server' \in [VPSieNodes -> Objects]
        /\ nodes' \in [Machines -> NodeObjects]
    BY <1>12, CheckJoinStatusType
  <2> QED
    BY <1>12, <2>1 DEF CheckJoinStatus, TypeOK
<1>13. CASE HandleFailed(v)
  BY <1>13, DeleteVPSieNodeType DEF HandleFailed, DeleteVPSieNode, TypeOK
<1>14. CASE BeginTermination(v)
  BY <1>14, MoveToType DEF BeginTermination, TypeOK
<1>15. ASSUME NEW out, DrainAndDelete(v, out) PROVE TypeOK'
  <2>1. server' \in [VPSieNodes -> Objects]
    BY <1>15, MoveToType DEF DrainAndDelete, TypeOK
  <2>2. nodes' \in [Machines -> NodeObjects]
    BY <1>15 DEF DrainAndDelete, TypeOK, NodeObjects, NoNode
  <2> QED
    BY <1>15, <2>1, <2>2 DEF DrainAndDelete, TypeOK
<1>16. ASSUME NEW out, SkipVPSDeletion(v, out) PROVE TypeOK'
  BY <1>16, FinishDeletionType DEF SkipVPSDeletion, TypeOK
<1>17. ASSUME NEW out, DeleteVPS(v, out) PROVE TypeOK'
  BY <1>17, FinishDeletionType DEF DeleteVPS, TypeOK
<1>18. CASE DeleteVPSExhausted(v)
  <2>1. server' \in [VPSieNodes -> Objects]
    BY <1>18, MoveToType DEF DeleteVPSExhausted
  <2>2. vps' \in [Machines -> {"free", "building", "running", "gone"}]
    BY <1>18 DEF DeleteVPSExhausted, TypeOK
  <2> QED
    BY <1>18, <2>1, <2>2 DEF DeleteVPSExhausted, TypeOK
<1>19. CASE RemoveFinalizer(v)
  <2> DEFINE new == [server[v] EXCEPT !.finalizer = FALSE, !.life = "gone"]
  <2>1. new \in Objects
    BY FieldTypes DEF Objects
  <2>2. server' = [server EXCEPT ![v] = new]
    BY <1>19 DEF RemoveFinalizer, TypeOK
  <2> QED
    BY <1>19, <2>1, <2>2 DEF RemoveFinalizer, TypeOK
<1> QED
  BY <1>1, <1>2, <1>3, <1>4, <1>5, <1>6, <1>7, <1>8, <1>9, <1>10, <1>11,
     <1>12, <1>13, <1>14, <1>15, <1>16, <1>17, <1>18, <1>19
     DEF Reconcile, Advance

\* Every object the controller writes is one the API types admit: no merge of
\* a stale status, no discovery and no deletion stores a field of the wrong
\* kind (all of vpsienode).
THEOREM TypeCorrect == Spec => []TypeOK
<1>1. TypeOK /\ [Next]_vars => TypeOK'
  <2>1. CASE UNCHANGED vars
    BY <2>1 DEF vars, TypeOK
  <2>2. CASE Next
    BY <2>2, EnvironmentType, ReconcileType DEF Next
  <2> QED
    BY <2>1, <2>2
<1> QED
  BY <1>1, InitType, PTL DEF Spec

-----------------------------------------------------------------------------
(* What a pass of Reconcile may do to the object it reconciles, and that it *)
(* leaves the others alone.  The safety proofs go by these five effects.    *)

Noted(o) == o.spec.requested \/ o.spec.id # None

Others(v) == \A w \in VPSieNodes \ {v} : server'[w] = server[w]

\* Nothing but the phase is patched.
Patched(v) ==
  /\ Exists(v)
  /\ server'[v].life = server[v].life
  /\ server'[v].finalizer = server[v].finalizer
  /\ server'[v].spec = server[v].spec
  /\ server'[v].status.host = server[v].status.host
  /\ server'[v].status.node = server[v].status.node
  /\ server'[v].status.deleted = server[v].status.deleted

\* A live VPSieNode is updated: its spec only from a fresh copy.
Committed(v) ==
  /\ cache[v].life = "live" /\ cache[v].finalizer
  /\ Exists(v) \/ Fresh(v)
  /\ server'[v].life = server[v].life
  /\ server'[v].finalizer = server[v].finalizer
  /\ server'[v].status.deleted = server[v].status.deleted
  /\ server'[v].spec # server[v].spec => Fresh(v)
  /\ Noted(server[v]) => Noted(server'[v])

\* DeletedAt is set, and perhaps the finalizer removed.
Finished(v) ==
  /\ Exists(v) /\ cache[v].life = "deleting"
  /\ server'[v].life \in {server[v].life, "gone"}
  /\ server'[v].finalizer = server[v].finalizer \/ server'[v].life = "gone"
  /\ server'[v].spec = server[v].spec
  /\ server'[v].status.host = server[v].status.host
  /\ server'[v].status.node = server[v].status.node

LEMMA MoveToEffect ==
  ASSUME TypeOK, NEW v \in VPSieNodes, NEW p \in Phases, MoveTo(v, p)
  PROVE  Others(v) /\ Patched(v)
<1> DEFINE status == Merge(server[v].status, cache[v].status,
                           [cache[v].status EXCEPT !.phase = p])
<1>1. Exists(v) /\ server' = [server EXCEPT ![v] = [server[v] EXCEPT
                                                     !.status = status]]
  BY DEF MoveTo, PatchStatus, TypeOK
<1>2. /\ status.host = server[v].status.host
      /\ status.node = server[v].status.node
      /\ status.deleted = server[v].status.deleted
  BY FieldTypes DEF Merge, StatusFields
<1>3. server'[v] = [server[v] EXCEPT !.status = status] /\ Others(v)
  BY <1>1 DEF TypeOK, Others
<1> QED
  BY <1>1, <1>2, <1>3, FieldTypes DEF Patched, Objects

LEMMA CommitEffect ==
  ASSUME TypeOK, NEW v \in VPSieNodes, NEW spec \in SpecFields,
         NEW status \in StatusFields, NEW out, Commit(v, spec, status, out),
         status.deleted = cache[v].status.deleted,
         cache[v].life = "live", cache[v].finalizer,
         cache[v].spec.requested \/ cache[v].spec.id # None
           => spec.requested \/ spec.id # None
  PROVE  UNCHANGED server \/ (Others(v) /\ Committed(v))
<1>1. CASE /\ spec # cache[v].spec /\ Fresh(v)
           /\ server' = [server EXCEPT
                           ![v].spec = spec,
                           ![v].status = IF out = "all" THEN status ELSE @]
  <2> DEFINE new == IF out = "all" THEN status ELSE server[v].status
  <2>1. server' = [server EXCEPT ![v] = [server[v] EXCEPT !.spec = spec,
                                                        !.status = new]]
    BY <1>1 DEF TypeOK
  <2>2. /\ server'[v] = [server[v] EXCEPT !.spec = spec, !.status = new]
        /\ Others(v)
    BY <2>1 DEF TypeOK, Others
  <2>3. new.deleted = server[v].status.deleted
    BY <1>1 DEF Fresh
  <2>4. /\ server'[v].spec = spec /\ server'[v].status = new
        /\ server'[v].life = server[v].life
        /\ server'[v].finalizer = server[v].finalizer
    BY <2>2, FieldTypes DEF Objects
  <2> QED
    BY <1>1, <2>2, <2>3, <2>4 DEF Committed, Fresh, Noted
<1>2. CASE PatchStatus(v, status)
  <2> DEFINE new == Merge(server[v].status, cache[v].status, status)
  <2>1. Exists(v) /\ server' = [server EXCEPT ![v] = [server[v] EXCEPT
                                                       !.status = new]]
    BY <1>2 DEF PatchStatus, TypeOK
  <2>2. server'[v] = [server[v] EXCEPT !.status = new] /\ Others(v)
    BY <2>1 DEF TypeOK, Others
  <2>3. new.deleted = server[v].status.deleted
    BY DEF Merge
  <2>4. /\ server'[v].spec = server[v].spec /\ server'[v].status = new
        /\ server'[v].life = server[v].life
        /\ server'[v].finalizer = server[v].finalizer
    BY <2>2, FieldTypes DEF Objects
  <2> QED
    BY <2>1, <2>2, <2>3, <2>4 DEF Committed, Noted
<1> QED
  BY <1>1, <1>2 DEF Commit

LEMMA FinishDeletionEffect ==
  ASSUME TypeOK, NEW v \in VPSieNodes, NEW out, FinishDeletion(v, out),
         cache[v].life = "deleting"
  PROVE  UNCHANGED server \/ (Others(v) /\ Finished(v))
<1> DEFINE status == Merge(server[v].status, cache[v].status,
                           [cache[v].status EXCEPT !.deleted = TRUE])
           new == [server[v] EXCEPT
                     !.status = status,
                     !.finalizer = IF out = "all" THEN FALSE ELSE @,
                     !.life = IF out = "all" THEN "gone" ELSE @]
<1>1. CASE Exists(v) /\ server' = [server EXCEPT ![v] = new]
  <2>1. server'[v] = new /\ Others(v)
    BY <1>1 DEF TypeOK, Others
  <2>2. /\ status.host = server[v].status.host
        /\ status.node = server[v].status.node
    BY FieldTypes DEF Merge, StatusFields
  <2>3. /\ new.spec = server[v].spec /\ new.status = status
        /\ new.life = IF out = "all" THEN "gone" ELSE server[v].life
        /\ new.finalizer = IF out = "all" THEN FALSE ELSE server[v].finalizer
    BY FieldTypes DEF Objects
  <2> QED
    BY <1>1, <2>1, <2>2, <2>3 DEF Finished
<1>2. UNCHANGED server \/ (Exists(v) /\ server' = [server EXCEPT ![v] = new])
  BY DEF FinishDeletion, TypeOK
<1> QED
  BY <1>1, <1>2

GoneStays == \A m \in Machines : vps[m] = "gone" => vps'[m] = "gone"

\* DeletedAt is set only when the recorded machine is gone.
Released(v) ==
  /\ Finished(v)
  /\ cache[v].spec.ident # None /\ CanDelete(cache[v])
       => vps'[cache[v].spec.ident] = "gone"

Effect(v) ==
  \/ server'[v] = server[v]
  \/ Patched(v) \/ Committed(v) \/ Released(v)
  \/ AddFinalizer(v) \/ DeleteVPSieNode(v) \/ RemoveFinalizer(v)

LEMMA CreateEffect ==
  ASSUME TypeOK, NEW v \in VPSieNodes, NEW m \in Machines, NEW answer \in Answers,
         NEW h \in {m, None}, NEW out, CreateVPS(v, m, answer, h, out)
  PROVE  UNCHANGED server \/ (Others(v) /\ Committed(v))
<1> DEFINE spec == AfterCreate(cache[v].spec, m, answer, h)
           status == IF "id" \in answer
                     THEN [cache[v].status EXCEPT !.host = h]
                     ELSE cache[v].status
<1>1. spec \in SpecFields
  BY ConstantsAssumption, FieldTypes, AfterCreateType
<1>2. status \in StatusFields /\ status.deleted = cache[v].status.deleted
  BY FieldTypes DEF StatusFields
<1>3. Commit(v, spec, status, out)
  BY DEF CreateVPS
<1>4. /\ cache[v].life = "live" /\ cache[v].finalizer
      /\ cache[v].spec.id = None /\ ~ cache[v].spec.requested
  BY DEF CreateVPS, MustCreate, Provisioning, Handling
<1> QED
  BY <1>1, <1>2, <1>3, <1>4, CommitEffect

LEMMA DiscoveryEffect ==
  ASSUME TypeOK, NEW v \in VPSieNodes, NEW m \in Machines, NEW up \in BOOLEAN,
         NEW out, Discovering(v), RecordDiscovery(v, m, up, out)
  PROVE  UNCHANGED server \/ (Others(v) /\ Committed(v))
<1> DEFINE spec == [cache[v].spec EXCEPT
                      !.id = IF m \in Listed /\ vps[m] = "running"
                             THEN m ELSE None,
                      !.ip = m, !.name = IF @ = None THEN m ELSE @]
           found == [cache[v].status EXCEPT !.host = m]
           status == IF spec.id = None
                     THEN [found EXCEPT !.phase = "Provisioned",
                                        !.node = IF @ = None THEN m ELSE @]
                     ELSE IF up THEN [found EXCEPT !.phase = "Provisioned"]
                                ELSE found
<1>1. spec \in SpecFields /\ spec.requested = cache[v].spec.requested
  BY FieldTypes DEF SpecFields, Names
<1>2. status \in StatusFields /\ status.deleted = cache[v].status.deleted
  BY FieldTypes DEF StatusFields, Phases
<1>3. Commit(v, spec, status, out)
  BY DEF RecordDiscovery
<1>4. /\ cache[v].life = "live" /\ cache[v].finalizer
      /\ cache[v].spec.requested
  BY DEF Discovering, Provisioning, Handling
<1> QED
  BY <1>1, <1>2, <1>3, <1>4, CommitEffect

LEMMA CheckVPSStatusEffect ==
  ASSUME TypeOK, NEW v \in VPSieNodes, NEW out, CheckVPSStatus(v, out)
  PROVE  UNCHANGED server \/ (Others(v) /\ (Patched(v) \/ Committed(v)))
<1> DEFINE m == cache[v].spec.id
           found == [cache[v].status EXCEPT !.host = m]
           spec == [cache[v].spec EXCEPT !.ip = m]
           status == IF vps[m] = "running"
                     THEN [found EXCEPT !.phase = "Provisioned"] ELSE found
<1>1. CASE MoveTo(v, "Failed")
  BY <1>1, MoveToEffect DEF Phases
<1>2. CASE Commit(v, spec, status, out)
  <2>1. /\ spec \in SpecFields /\ spec.id = cache[v].spec.id
        /\ spec.requested = cache[v].spec.requested
    BY FieldTypes DEF SpecFields
  <2>2. status \in StatusFields /\ status.deleted = cache[v].status.deleted
    BY FieldTypes DEF StatusFields, Phases, SpecFields
  <2>3. cache[v].life = "live" /\ cache[v].finalizer
    BY DEF CheckVPSStatus, Provisioning, Handling
  <2> QED
    BY <1>2, <2>1, <2>2, <2>3, CommitEffect
<1> QED
  BY <1>1, <1>2 DEF CheckVPSStatus

LEMMA CheckJoinStatusEffect ==
  ASSUME TypeOK, NEW v \in VPSieNodes, NEW out, CheckJoinStatus(v, out)
  PROVE  UNCHANGED server \/ (Others(v) /\ Committed(v))
<1> DEFINE m == FindKubernetesNode(cache[v])
           spec == [cache[v].spec EXCEPT !.name = IF @ = None THEN m ELSE @]
           named == [cache[v].status EXCEPT !.node = m]
           joined == IF seen[m].state = "ready"
                     THEN [named EXCEPT !.phase = "Ready"] ELSE named
<1>1. m \in Machines
  BY FieldTypes, FindKubernetesNodeType DEF CheckJoinStatus
<1>2. /\ spec \in SpecFields /\ spec.id = cache[v].spec.id
      /\ spec.requested = cache[v].spec.requested
  BY <1>1, FieldTypes DEF SpecFields, Names
<1>3. ASSUME NEW status \in {named, joined}
      PROVE  status \in StatusFields /\ status.deleted = cache[v].status.deleted
  BY <1>1, FieldTypes DEF StatusFields, Phases
<1>4. Commit(v, spec, joined, out) \/ Commit(v, spec, named, out)
  BY DEF CheckJoinStatus
<1>5. cache[v].life = "live" /\ cache[v].finalizer
  BY DEF CheckJoinStatus, Handling
<1> QED
  BY <1>2, <1>3, <1>4, <1>5, CommitEffect

LEMMA DeletionEffect ==
  ASSUME TypeOK, NEW v \in VPSieNodes, NEW out,
         SkipVPSDeletion(v, out) \/ DeleteVPS(v, out)
  PROVE  UNCHANGED server \/ (Others(v) /\ Released(v))
<1>1. cache[v].life = "deleting" /\ FinishDeletion(v, out)
  BY DEF SkipVPSDeletion, DeleteVPS, Deleting, Terminating
<1>2. cache[v].spec.ident # None /\ CanDelete(cache[v])
        => vps'[cache[v].spec.ident] = "gone"
  BY FieldTypes
     DEF SkipVPSDeletion, DeleteVPS, DeletionTargets, TypeOK, SpecFields
<1> QED
  BY <1>1, <1>2, FinishDeletionEffect DEF Released

LEMMA ReconcileEffect ==
  ASSUME TypeOK, NEW v \in VPSieNodes, Reconcile(v)
  PROVE  UNCHANGED cache /\ Others(v) /\ Effect(v) /\ GoneStays
<1> USE DEF Effect
<1>1. ASSUME UNCHANGED <<cache, vps>>,
             UNCHANGED server \/ (Others(v) /\ (Patched(v) \/ Committed(v)))
      PROVE  UNCHANGED cache /\ Others(v) /\ Effect(v) /\ GoneStays
  BY <1>1 DEF Others, GoneStays
<1>2. ASSUME NEW p \in Phases, MoveTo(v, p), UNCHANGED <<cache, vps>>
      PROVE  UNCHANGED cache /\ Others(v) /\ Effect(v) /\ GoneStays
  BY <1>1, <1>2, MoveToEffect
<1>3. CASE AddFinalizer(v) \/ RemoveFinalizer(v) \/ HandleFailed(v)
  BY <1>3
     DEF AddFinalizer, RemoveFinalizer, HandleFailed, DeleteVPSieNode, TypeOK,
         Others, GoneStays
<1>4. CASE \/ InitializePhase(v) \/ HandlePending(v) \/ ProvisioningTimeout(v)
           \/ CreateVPSRejected(v) \/ HandleProvisioned(v) \/ JoiningTimeout(v)
           \/ BeginTermination(v)
  BY <1>2, <1>4
     DEF InitializePhase, HandlePending, ProvisioningTimeout, CreateVPSRejected,
         HandleProvisioned, JoiningTimeout, BeginTermination, Phases
<1>5. ASSUME NEW m \in Machines, NEW answer \in Answers, NEW h \in {m, None},
             NEW out \in Outcomes, CreateVPS(v, m, answer, h, out)
      PROVE  UNCHANGED cache /\ Others(v) /\ Effect(v) /\ GoneStays
  <2>1. UNCHANGED server \/ (Others(v) /\ Committed(v))
    BY <1>5, CreateEffect
  <2>2. UNCHANGED cache /\ GoneStays
    BY <1>5 DEF CreateVPS, GoneStays, TypeOK
  <2> QED
    BY <2>1, <2>2 DEF Others
<1>6. ASSUME NEW m \in Machines, NEW up \in BOOLEAN, NEW out \in Outcomes,
             DiscoverUnclaimed(v, m, up, out) \/ DiscoverVM(v, m, up, out)
      PROVE  UNCHANGED cache /\ Others(v) /\ Effect(v) /\ GoneStays
  BY <1>1, <1>6, DiscoveryEffect DEF DiscoverUnclaimed, DiscoverVM
<1>7. ASSUME NEW out \in Outcomes, CheckVPSStatus(v, out)
      PROVE  UNCHANGED cache /\ Others(v) /\ Effect(v) /\ GoneStays
  BY <1>1, <1>7, CheckVPSStatusEffect DEF CheckVPSStatus
<1>8. ASSUME NEW out \in Outcomes, CheckJoinStatus(v, out)
      PROVE  UNCHANGED cache /\ Others(v) /\ Effect(v) /\ GoneStays
  BY <1>1, <1>8, CheckJoinStatusEffect DEF CheckJoinStatus
<1>9. ASSUME NEW out, DrainAndDelete(v, out)
      PROVE  UNCHANGED cache /\ Others(v) /\ Effect(v) /\ GoneStays
  BY <1>1, <1>2, <1>9 DEF DrainAndDelete, Phases
<1>10. ASSUME NEW out, SkipVPSDeletion(v, out) \/ DeleteVPS(v, out)
       PROVE  UNCHANGED cache /\ Others(v) /\ Effect(v) /\ GoneStays
  <2>1. UNCHANGED server \/ (Others(v) /\ Released(v))
    BY <1>10, DeletionEffect
  <2>2. UNCHANGED cache /\ GoneStays
    BY <1>10 DEF SkipVPSDeletion, DeleteVPS, GoneStays, TypeOK
  <2> QED
    BY <2>1, <2>2 DEF Others
<1>11. CASE DeleteVPSExhausted(v)
  <2>1. Others(v) /\ Patched(v)
    BY <1>11, MoveToEffect DEF DeleteVPSExhausted, Phases
  <2>2. UNCHANGED cache /\ GoneStays
    BY <1>11 DEF DeleteVPSExhausted, GoneStays, TypeOK
  <2> QED
    BY <2>1, <2>2
<1> QED
  BY <1>3, <1>4, <1>5, <1>6, <1>7, <1>8, <1>9, <1>10, <1>11
     DEF Reconcile, Advance

-----------------------------------------------------------------------------
(* A VPSieNode has at most one recorded creation request.  The invariant    *)
(* adds that the server's copy then shows it, so that a copy from before    *)
(* the request can no longer be fresh.                                      *)

Recorded ==
  /\ RecordedOnce
  /\ \A v \in VPSieNodes, m \in Machines \ lost :
       requester[m] = v => Noted(server[v])

LEMMA NotedStays ==
  ASSUME TypeOK, Next, NEW v \in VPSieNodes, Noted(server[v])
  PROVE  Noted(server'[v])
<1>1. ASSUME NEW w \in VPSieNodes, CreateVPSieNode(w) \/ DeleteVPSieNode(w)
      PROVE  Noted(server'[v])
  <2>1. PICK life : server' = [server EXCEPT ![w] = [server[w] EXCEPT !.life = life]]
    BY <1>1 DEF CreateVPSieNode, DeleteVPSieNode, TypeOK
  <2>2. server'[v].spec = server[v].spec
    BY <2>1, FieldTypes DEF TypeOK, Objects
  <2> QED
    BY <2>2 DEF Noted
<1>2. CASE UNCHANGED server
  BY <1>2
<1>3. ASSUME NEW w \in VPSieNodes, Reconcile(w)
      PROVE  Noted(server'[v])
  <2>1. CASE w # v
    BY <1>3, <2>1, ReconcileEffect DEF Others
  <2>2. CASE w = v /\ (AddFinalizer(v) \/ RemoveFinalizer(v))
    BY <2>2, FieldTypes DEF AddFinalizer, RemoveFinalizer, Noted, TypeOK, Objects
  <2>3. CASE w = v /\ DeleteVPSieNode(v)
    BY <1>1, <2>3
  <2> QED
    BY <1>3, <2>1, <2>2, <2>3, ReconcileEffect
       DEF Effect, Patched, Committed, Released, Finished, Noted
<1> QED
  BY <1>1, <1>2, <1>3
     DEF Next, Environment, Inform, Expire, InformNode, Boot, Vanish, Register,
         Unregister

LEMMA CreateRecorded ==
  ASSUME TypeOK, NEW v \in VPSieNodes, NEW m \in Machines, NEW answer \in Answers,
         NEW h \in {m, None}, NEW out \in Outcomes,
         CreateVPS(v, m, answer, h, out), out # "none"
  PROVE  ~ Noted(server[v]) /\ Noted(server'[v])
<1> DEFINE spec == AfterCreate(cache[v].spec, m, answer, h)
<1>1. ~ Noted(cache[v])
  BY DEF CreateVPS, MustCreate, Noted
<1>2. m # None
  BY ConstantsAssumption
<1>3. spec.requested \/ spec.id # None
  BY <1>2, FieldTypes DEF AfterCreate, SpecFields
<1>4. spec # cache[v].spec
  BY <1>1, <1>3 DEF Noted
<1>5. PICK status : Commit(v, spec, status, out)
  BY DEF CreateVPS
<1>6. /\ Fresh(v)
      /\ server' = [server EXCEPT
                      ![v].spec = spec,
                      ![v].status = IF out = "all" THEN status ELSE @]
  BY <1>4, <1>5 DEF Commit
<1>7. server'[v].spec = spec
  BY <1>6, FieldTypes DEF TypeOK, Objects
<1> QED
  BY <1>1, <1>3, <1>6, <1>7 DEF Fresh, Noted

\* A stale copy never leads to a second creation request on record
\* (provisioner.go createVPS, controller.go Reconcile).
THEOREM CreationRecordedOnce == Spec => []RecordedOnce
<1>1. Init => Recorded
  BY ConstantsAssumption DEF Init, Recorded, RecordedOnce
<1>2. TypeOK /\ Recorded /\ [Next]_vars => Recorded'
  <2> SUFFICES ASSUME TypeOK, Recorded, [Next]_vars
               PROVE  Recorded'
    OBVIOUS
  <2>1. ASSUME Next, UNCHANGED <<requester, lost>>
        PROVE  Recorded'
    BY <2>1, NotedStays DEF Recorded, RecordedOnce
  <2>2. CASE UNCHANGED vars
    BY <2>2 DEF vars, Recorded, RecordedOnce, Noted
  <2>3. ASSUME NEW v \in VPSieNodes, NEW m \in Machines, NEW answer \in Answers,
               NEW h \in {m, None}, NEW out \in Outcomes,
               CreateVPS(v, m, answer, h, out), Next
        PROVE  Recorded'
    <3>1. /\ requester' = [requester EXCEPT ![m] = v]
          /\ lost' = IF out = "none" THEN lost \cup {m} ELSE lost
      BY <2>3 DEF CreateVPS
    <3>2. CASE out = "none"
      BY <2>3, <3>1, <3>2, NotedStays DEF Recorded, RecordedOnce, TypeOK
    <3>3. CASE out # "none"
      <4>1. ~ Noted(server[v]) /\ Noted(server'[v])
        BY <2>3, <3>3, CreateRecorded
      <4>2. \A n \in Machines \ lost : requester[n] # v
        BY <4>1 DEF Recorded
      <4>3. /\ requester'[m] = v /\ lost' = lost
            /\ \A n \in Machines \ {m} : requester'[n] = requester[n]
        BY <3>1, <3>3 DEF TypeOK
      <4>4. RecordedOnce'
        BY <4>2, <4>3 DEF Recorded, RecordedOnce
      <4>5. ASSUME NEW u \in VPSieNodes, NEW n \in Machines \ lost',
                   requester'[n] = u
            PROVE  Noted(server'[u])
        <5>1. CASE u = v
          BY <4>1, <5>1
        <5>2. CASE u # v
          BY <2>3, <4>3, <4>5, <5>2, NotedStays DEF Recorded
        <5> QED
          BY <5>1, <5>2
      <4> QED
        BY <4>4, <4>5 DEF Recorded, Noted
    <3> QED
      BY <3>2, <3>3
  <2>4. CASE Environment
    BY <2>1, <2>4
       DEF Next, Environment, CreateVPSieNode, DeleteVPSieNode, Inform, Expire,
           InformNode, Boot, Vanish, Register, Unregister
  <2>5. ASSUME NEW v \in VPSieNodes, Reconcile(v)
        PROVE  Recorded'
    <3>1. Next
      BY <2>5 DEF Next
    <3>2. CASE Advance(v)
      BY <2>1, <3>1, <3>2
         DEF Advance, AddFinalizer, InitializePhase, HandlePending,
             ProvisioningTimeout, HandleProvisioned, JoiningTimeout,
             BeginTermination, DrainAndDelete, RemoveFinalizer
    <3>3. CASE CreateVPSRejected(v) \/ HandleFailed(v) \/ DeleteVPSExhausted(v)
      BY <2>1, <3>1, <3>3
         DEF CreateVPSRejected, HandleFailed, DeleteVPSieNode, DeleteVPSExhausted
    <3>4. ASSUME NEW m \in Machines, NEW out, NEW up,
                 DiscoverUnclaimed(v, m, up, out) \/ DiscoverVM(v, m, up, out)
          PROVE  Recorded'
      BY <2>1, <3>1, <3>4 DEF DiscoverUnclaimed, DiscoverVM
    <3>5. ASSUME NEW out,
                 \/ CheckVPSStatus(v, out) \/ CheckJoinStatus(v, out)
                 \/ DrainAndDelete(v, out) \/ SkipVPSDeletion(v, out)
                 \/ DeleteVPS(v, out)
          PROVE  Recorded'
      BY <2>1, <3>1, <3>5
         DEF CheckVPSStatus, CheckJoinStatus, DrainAndDelete, SkipVPSDeletion,
             DeleteVPS
    <3> QED
      BY <2>3, <2>5, <3>1, <3>2, <3>3, <3>4, <3>5 DEF Reconcile
  <2> QED
    BY <2>2, <2>4, <2>5 DEF Next
<1> QED
  BY <1>1, <1>2, TypeCorrect, PTL DEF Spec, Recorded

-----------------------------------------------------------------------------
(* A recorded identifier is not forgotten before its machine is gone.  What *)
(* reconcileDelete reads from a stale copy is right because nothing but the *)
(* phase and DeletedAt changes once the informer has shown the deletion.    *)

Ending == {"deleting", "gone"}

DeletionSafe(v) ==
  /\ cache[v].finalizer => server[v].finalizer \/ server[v].life = "gone"
  /\ ~ server[v].finalizer /\ server[v].life \in {"none", "live"}
       => server[v].spec.ident = None
  /\ cache[v].life \in Ending
       => /\ server[v].life \in Ending
          /\ cache[v].spec = server[v].spec
          /\ cache[v].status.host = server[v].status.host
          /\ cache[v].status.node = server[v].status.node
  /\ server[v].status.deleted => cache[v].life \in Ending
  /\ (server[v].life = "gone" \/ server[v].status.deleted)
       /\ server[v].spec.ident # None /\ CanDelete(server[v])
       => vps[server[v].spec.ident] = "gone"

\* A step that leaves an object and the informer's copy of it alone.
LEMMA DeletionSafeStays ==
  ASSUME TypeOK, NEW v \in VPSieNodes, DeletionSafe(v),
         server'[v] = server[v], cache'[v] = cache[v], GoneStays
  PROVE  DeletionSafe(v)'
<1>1. server[v].spec.ident # None => server[v].spec.ident \in Machines
  BY FieldTypes DEF SpecFields
<1> QED
  BY <1>1 DEF DeletionSafe, GoneStays, CanDelete, Hostname

LEMMA DeletionSafePatched ==
  ASSUME TypeOK, NEW v \in VPSieNodes, DeletionSafe(v), Patched(v),
         UNCHANGED cache, GoneStays
  PROVE  DeletionSafe(v)'
<1>1. server[v].spec.ident # None => server[v].spec.ident \in Machines
  BY FieldTypes DEF SpecFields
<1> QED
  BY <1>1 DEF DeletionSafe, Patched, GoneStays, CanDelete, Hostname

LEMMA DeletionSafeCommitted ==
  ASSUME TypeOK, NEW v \in VPSieNodes, DeletionSafe(v), Committed(v),
         UNCHANGED cache
  PROVE  DeletionSafe(v)'
BY DEF DeletionSafe, Committed, Exists, Fresh, Ending

LEMMA DeletionSafeReleased ==
  ASSUME TypeOK, NEW v \in VPSieNodes, DeletionSafe(v), Released(v),
         UNCHANGED cache
  PROVE  DeletionSafe(v)'
<1>1. /\ cache[v].life \in Ending
      /\ server[v].life \in Ending /\ server'[v].life \in Ending
  BY DEF DeletionSafe, Released, Finished, Ending
<1>2. /\ cache[v].spec = server'[v].spec
      /\ cache[v].status.host = server'[v].status.host
      /\ cache[v].status.node = server'[v].status.node
  BY <1>1 DEF DeletionSafe, Released, Finished
<1>3. CanDelete(server'[v]) <=> CanDelete(cache[v])
  BY <1>2 DEF CanDelete, Hostname
<1>4. server'[v].spec.ident # None /\ CanDelete(server'[v])
        => vps'[server'[v].spec.ident] = "gone"
  BY <1>2, <1>3 DEF Released
<1>5. cache[v].finalizer => server'[v].finalizer \/ server'[v].life = "gone"
  BY DEF DeletionSafe, Released, Finished
<1> QED
  BY <1>1, <1>2, <1>4, <1>5 DEF DeletionSafe, Ending, CanDelete, Hostname

LEMMA DeletionSafeLife ==
  ASSUME TypeOK, NEW v \in VPSieNodes, DeletionSafe(v), UNCHANGED <<cache, vps>>,
         CreateVPSieNode(v) \/ DeleteVPSieNode(v) \/ AddFinalizer(v)
                            \/ RemoveFinalizer(v)
  PROVE  DeletionSafe(v)'
<1>1. /\ server'[v].spec = server[v].spec
      /\ server'[v].status = server[v].status
  BY FieldTypes
     DEF CreateVPSieNode, DeleteVPSieNode, AddFinalizer, RemoveFinalizer,
         TypeOK, Objects
<1>2. CASE CreateVPSieNode(v) \/ DeleteVPSieNode(v)
  <2>1. /\ server[v].life \in {"none", "live"}
        /\ server'[v].finalizer = server[v].finalizer
        /\ server'[v].life \in {"live", "deleting", "gone"}
        /\ server'[v].life = "gone" => ~ server[v].finalizer
    BY <1>2, FieldTypes
       DEF CreateVPSieNode, DeleteVPSieNode, TypeOK, Objects
  <2>2. cache[v].life \notin Ending /\ ~ server[v].status.deleted
    BY <2>1 DEF DeletionSafe, Ending
  <2> QED
    BY <1>1, <2>1, <2>2 DEF DeletionSafe
<1>3. CASE AddFinalizer(v)
  <2>1. /\ server'[v].life = server[v].life /\ server'[v].finalizer
        /\ server[v].life = "live" /\ cache[v].life = "live"
    BY <1>3, FieldTypes DEF AddFinalizer, Fresh, TypeOK, Objects
  <2> QED
    BY <1>1, <2>1 DEF DeletionSafe, Ending
<1>4. CASE RemoveFinalizer(v)
  <2>1. /\ server'[v].life = "gone" /\ cache[v].life = "deleting"
        /\ server[v].status.deleted
    BY <1>4, FieldTypes
       DEF RemoveFinalizer, Terminating, Fresh, TypeOK, Objects
  <2> QED
    BY <1>1, <2>1 DEF DeletionSafe, Ending, CanDelete, Hostname
<1> QED
  BY <1>2, <1>3, <1>4

DeletionInv == \A v \in VPSieNodes : DeletionSafe(v)

LEMMA DeletionInvariant == Spec => []DeletionInv
<1>1. Init => DeletionInv
  <2>1. /\ NoObject.life = "none" /\ NoObject.finalizer = FALSE
        /\ NoObject.spec.ident = None /\ NoObject.status.deleted = FALSE
    BY DEF NoObject
  <2>2. SUFFICES ASSUME Init, NEW v \in VPSieNodes
                 PROVE  DeletionSafe(v)
    BY DEF DeletionInv
  <2>3. server[v] = NoObject /\ cache[v] = NoObject
    BY <2>2 DEF Init
  <2>4. /\ ~ cache[v].finalizer /\ cache[v].life \notin Ending
        /\ server[v].spec.ident = None /\ ~ server[v].status.deleted
        /\ server[v].life # "gone"
    BY <2>1, <2>3 DEF Ending
  <2> QED
    BY <2>4 DEF DeletionSafe
<1>2. TypeOK /\ DeletionInv /\ [Next]_vars => DeletionInv'
  <2> SUFFICES ASSUME TypeOK, DeletionInv, [Next]_vars, NEW v \in VPSieNodes
               PROVE  DeletionSafe(v)'
    BY DEF DeletionInv
  <2> DeletionSafe(v)
    BY DEF DeletionInv
  <2>1. ASSUME UNCHANGED <<server, cache>>, GoneStays
        PROVE  DeletionSafe(v)'
    BY <2>1, DeletionSafeStays
  <2>2. CASE UNCHANGED vars
    BY <2>1, <2>2 DEF vars, GoneStays
  <2>3. ASSUME NEW w \in VPSieNodes, CreateVPSieNode(w) \/ DeleteVPSieNode(w)
        PROVE  DeletionSafe(v)'
    <3>1. UNCHANGED <<cache, vps>> /\ (w # v => server'[v] = server[v])
      BY <2>3 DEF CreateVPSieNode, DeleteVPSieNode, TypeOK
    <3> QED
      BY <2>3, <3>1, DeletionSafeLife, DeletionSafeStays DEF GoneStays
  <2>4. ASSUME NEW w \in VPSieNodes, Inform(w)
        PROVE  DeletionSafe(v)'
    BY <2>4, DeletionSafeStays
       DEF Inform, DeletionSafe, Ending, CanDelete, Hostname, TypeOK, GoneStays
  <2>5. ASSUME NEW w \in VPSieNodes, NEW t \in Timers, Expire(w, t)
        PROVE  DeletionSafe(v)'
    BY <2>1, <2>5 DEF Expire, GoneStays
  <2>6. ASSUME NEW m \in Machines,
               InformNode(m) \/ Boot(m) \/ Vanish(m) \/ Register(m) \/ Unregister(m)
        PROVE  DeletionSafe(v)'
    BY <2>1, <2>6
       DEF InformNode, Boot, Vanish, Register, Unregister, GoneStays, TypeOK
  <2>7. ASSUME NEW w \in VPSieNodes, Reconcile(w)
        PROVE  DeletionSafe(v)'
    <3>1. UNCHANGED cache /\ Others(w) /\ Effect(w) /\ GoneStays
      BY <2>7, ReconcileEffect
    <3>2. CASE w # v
      BY <3>1, <3>2, DeletionSafeStays DEF Others
    <3>3. CASE w = v /\ (AddFinalizer(v) \/ DeleteVPSieNode(v) \/ RemoveFinalizer(v))
      BY <3>3, DeletionSafeLife DEF AddFinalizer, DeleteVPSieNode, RemoveFinalizer
    <3> QED
      BY <3>1, <3>2, <3>3, DeletionSafeStays, DeletionSafePatched,
         DeletionSafeCommitted, DeletionSafeReleased DEF Effect
  <2> QED
    BY <2>2, <2>3, <2>4, <2>5, <2>6, <2>7 DEF Next, Environment
<1> QED
  BY <1>1, <1>2, TypeCorrect, PTL DEF Spec

\* The finalizer outlives every machine whose K8s identifier is recorded and
\* whose deletion DeleteVPS does not skip, however stale the copies that
\* reconcileDelete works from (terminator.go, provisioner.go Delete).
THEOREM IdentifiedMachinesDeleted == Spec => []IdentifiedVPSDeleted
<1>1. DeletionInv => IdentifiedVPSDeleted
  BY DEF DeletionInv, DeletionSafe, IdentifiedVPSDeleted
<1> QED
  BY <1>1, DeletionInvariant, PTL

\* The machines a deletion turns to are those the server's copy refers to.
LEMMA TargetsReferred ==
  ASSUME TypeOK, NEW v \in VPSieNodes, DeletionSafe(v),
         cache[v].life = "deleting",
         NEW m \in DeletionTargets(cache[v]), m # None
  PROVE  server[v].life \in Ending /\ RefersTo(server[v], m)
<1>1. /\ server[v].life \in Ending
      /\ cache[v].spec = server[v].spec
      /\ cache[v].status.host = server[v].status.host
      /\ cache[v].status.node = server[v].status.node
  BY DEF DeletionSafe, Ending
<1>2. m \in {cache[v].spec.id, cache[v].spec.ident, Hostname(cache[v])}
  BY DEF DeletionTargets, Lookup
<1>3. Hostname(cache[v]) \in {cache[v].status.host, cache[v].spec.name,
                              cache[v].status.node}
  BY DEF Hostname
<1> QED
  BY <1>1, <1>2, <1>3 DEF RefersTo

\* No pass over any VPSieNode, with whatever stale copy, deletes a machine that
\* no VPSieNode under deletion refers to (provisioner.go Delete, terminator.go).
THEOREM MachinesDeletedForAReason == Spec => DeletedForAReason
<1> DEFINE Reason(m) == \E v \in VPSieNodes :
                          /\ server[v].life \in Ending
                          /\ RefersTo(server[v], m)
<1>1. ASSUME TypeOK, DeletionInv, [Next]_vars,
             NEW m \in Machines \ Vanishing, vps[m] # "gone", vps'[m] = "gone"
      PROVE  Reason(m)
  <2>1. ASSUME NEW v \in VPSieNodes, NEW out,
               DeleteVPS(v, out) \/ DeleteVPSExhausted(v)
        PROVE  Reason(m)
    <3>1. cache[v].life = "deleting"
      BY <2>1 DEF DeleteVPS, DeleteVPSExhausted, Deleting, Terminating
    <3>2. m # None
      BY ConstantsAssumption
    <3>3. m \in DeletionTargets(cache[v])
      BY <1>1, <2>1, <3>2 DEF DeleteVPS, DeleteVPSExhausted, TypeOK
    <3> QED
      BY <1>1, <3>1, <3>2, <3>3, TargetsReferred DEF DeletionInv
  <2>2. CASE UNCHANGED vps
    BY <1>1, <2>2
  <2>3. CASE Environment
    BY <1>1, <2>2, <2>3
       DEF Environment, CreateVPSieNode, DeleteVPSieNode, Inform, Expire,
           InformNode, Boot, Vanish, Register, Unregister, TypeOK
  <2>4. ASSUME NEW v \in VPSieNodes, NEW n \in Machines, NEW answer, NEW h, NEW out,
               CreateVPS(v, n, answer, h, out)
        PROVE  Reason(m)
    BY <1>1, <2>4 DEF CreateVPS, TypeOK
  <2>5. ASSUME NEW v \in VPSieNodes, Reconcile(v)
        PROVE  Reason(m)
    <3>1. CASE Advance(v)
      BY <2>2, <3>1
         DEF Advance, AddFinalizer, InitializePhase, HandlePending,
             ProvisioningTimeout, HandleProvisioned, JoiningTimeout,
             BeginTermination, DrainAndDelete, RemoveFinalizer
    <3>2. CASE CreateVPSRejected(v) \/ HandleFailed(v)
      BY <2>2, <3>2 DEF CreateVPSRejected, HandleFailed, DeleteVPSieNode
    <3>3. ASSUME NEW n, NEW out, NEW up,
                 DiscoverUnclaimed(v, n, up, out) \/ DiscoverVM(v, n, up, out)
          PROVE  Reason(m)
      BY <2>2, <3>3 DEF DiscoverUnclaimed, DiscoverVM
    <3>4. ASSUME NEW out,
                 \/ CheckVPSStatus(v, out) \/ CheckJoinStatus(v, out)
                 \/ DrainAndDelete(v, out) \/ SkipVPSDeletion(v, out)
          PROVE  Reason(m)
      BY <2>2, <3>4
         DEF CheckVPSStatus, CheckJoinStatus, DrainAndDelete, SkipVPSDeletion
    <3> QED
      BY <2>1, <2>4, <2>5, <3>1, <3>2, <3>3, <3>4 DEF Reconcile
  <2>6. CASE UNCHANGED vars
    BY <2>2, <2>6 DEF vars
  <2> QED
    BY <1>1, <2>3, <2>5, <2>6 DEF Next
<1>2. TypeOK /\ DeletionInv /\ [Next]_vars
        => [\A m \in Machines \ Vanishing :
             vps[m] # "gone" /\ vps'[m] = "gone"
               => \E v \in VPSieNodes :
                    server[v].life \in {"deleting", "gone"}
                      /\ RefersTo(server[v], m)]_vars
  BY <1>1 DEF Ending
<1> QED
  BY <1>2, TypeCorrect, DeletionInvariant, PTL DEF Spec, DeletedForAReason

-----------------------------------------------------------------------------
(* The order of the phases.  The server's phase is at most one edge ahead   *)
(* of the copy a pass reads, except that a timer may fail it twice; and a   *)
(* VPSieNode that failed behind the copy's back cannot advance from there.  *)

PhaseOf(o) == o.status.phase

Ahead ==
  {<<p, p>> : p \in Phases}
  \cup ((Phases \ DeletionPhases) \X {"Terminating"})
  \cup {<<"", "Pending">>, <<"Pending", "Provisioning">>,
        <<"Provisioning", "Provisioned">>, <<"Provisioning", "Failed">>,
        <<"Provisioned", "Joining">>, <<"Joining", "Ready">>,
        <<"Joining", "Failed">>, <<"Terminating", "Deleting">>,
        <<"Deleting", "Failed">>}

PhaseLag(v) ==
  /\ <<PhaseOf(cache[v]), PhaseOf(server[v])>> \in Ahead
  /\ PhaseOf(server[v]) \in DeletionPhases => cache[v].life \in Ending
  /\ PhaseOf(cache[v]) = "Provisioning" /\ PhaseOf(server[v]) = "Failed"
       => \/ "Provisioning" \in elapsed[v]
          \/ /\ cache[v].spec.id = None
             /\ ~ cache[v].spec.requested
          \/ /\ cache[v].spec.id # None
             /\ vps[cache[v].spec.id] = "gone"
  /\ PhaseOf(cache[v]) = "Joining" /\ PhaseOf(server[v]) = "Failed"
       => "Joining" \in elapsed[v]

InOrder(v) ==
  PhaseOf(server'[v]) # PhaseOf(server[v])
    => <<PhaseOf(server[v]), PhaseOf(server'[v])>> \in PhaseEdges

LEMMA MoveToPhase ==
  ASSUME TypeOK, NEW v \in VPSieNodes, NEW p \in Phases, MoveTo(v, p),
         PhaseOf(cache[v]) # p
  PROVE  Others(v) /\ PhaseOf(server'[v]) = p
<1> DEFINE moved == [cache[v].status EXCEPT !.phase = p]
           status == Merge(server[v].status, cache[v].status, moved)
<1>1. server' = [server EXCEPT ![v] = [server[v] EXCEPT !.status = status]]
  BY DEF MoveTo, PatchStatus, TypeOK
<1>2. moved.phase = p
  BY FieldTypes DEF StatusFields
<1>3. status.phase = p
  BY <1>2 DEF Merge, PhaseOf
<1>4. server'[v].status = status
  BY <1>1, FieldTypes DEF TypeOK, Objects
<1> QED
  BY <1>1, <1>3, <1>4 DEF Others, PhaseOf, TypeOK

LEMMA CommitPhase ==
  ASSUME TypeOK, NEW v \in VPSieNodes, NEW spec, NEW status \in StatusFields,
         NEW out, Commit(v, spec, status, out)
  PROVE  /\ Others(v)
         /\ \/ PhaseOf(server'[v]) = PhaseOf(server[v])
            \/ /\ PhaseOf(server'[v]) = status.phase
               /\ status.phase # PhaseOf(cache[v])
<1>1. CASE UNCHANGED server
  BY <1>1 DEF Others
<1>2. CASE /\ Fresh(v)
           /\ server' = [server EXCEPT
                           ![v].spec = spec,
                           ![v].status = IF out = "all" THEN status ELSE @]
  <2> DEFINE new == IF out = "all" THEN status ELSE server[v].status
  <2>1. server' = [server EXCEPT ![v] = [server[v] EXCEPT !.spec = spec,
                                                        !.status = new]]
    BY <1>2 DEF TypeOK
  <2>2. server'[v].status = new /\ Others(v)
    BY <2>1, FieldTypes DEF TypeOK, Objects, Others
  <2> QED
    BY <1>2, <2>2 DEF Fresh, PhaseOf
<1>3. CASE PatchStatus(v, status)
  <2> DEFINE new == Merge(server[v].status, cache[v].status, status)
  <2>1. server' = [server EXCEPT ![v] = [server[v] EXCEPT !.status = new]]
    BY <1>3 DEF PatchStatus, TypeOK
  <2>2. server'[v].status = new /\ Others(v)
    BY <2>1, FieldTypes DEF TypeOK, Objects, Others
  <2> QED
    BY <2>2 DEF Merge, PhaseOf
<1> QED
  BY <1>1, <1>2, <1>3 DEF Commit

LEMMA FinishDeletionPhase ==
  ASSUME TypeOK, NEW v \in VPSieNodes, NEW out, FinishDeletion(v, out)
  PROVE  PhaseOf(server'[v]) = PhaseOf(server[v])
<1> DEFINE ended == [cache[v].status EXCEPT !.deleted = TRUE]
           status == Merge(server[v].status, cache[v].status, ended)
           new == [server[v] EXCEPT
                     !.status = status,
                     !.finalizer = IF out = "all" THEN FALSE ELSE @,
                     !.life = IF out = "all" THEN "gone" ELSE @]
<1>1. UNCHANGED server \/ server' = [server EXCEPT ![v] = new]
  BY DEF FinishDeletion, TypeOK
<1>2. status.phase = server[v].status.phase
  BY FieldTypes DEF Merge, StatusFields
<1>3. new.status = status
  BY FieldTypes DEF Objects
<1> QED
  BY <1>1, <1>2, <1>3 DEF PhaseOf, TypeOK

\* A step that leaves the phase alone keeps its place behind the server's.
LEMMA PhaseLagStays ==
  ASSUME TypeOK, NEW v \in VPSieNodes, PhaseLag(v), cache'[v] = cache[v],
         PhaseOf(server'[v]) = PhaseOf(server[v]),
         elapsed[v] \subseteq elapsed'[v], GoneStays
  PROVE  PhaseLag(v)' /\ InOrder(v)
<1>1. cache[v].spec.id # None => cache[v].spec.id \in Machines
  BY FieldTypes DEF SpecFields
<1> QED
  BY <1>1 DEF PhaseLag, InOrder, GoneStays, PhaseOf

\* A step from phase c, as the copy has it, to phase p.
LEMMA PhaseLagMoves ==
  ASSUME TypeOK, NEW v \in VPSieNodes, PhaseLag(v), UNCHANGED <<cache, vps, elapsed>>,
         NEW p \in Phases, PhaseOf(server'[v]) = p,
         <<PhaseOf(cache[v]), p>> \in Ahead,
         PhaseOf(server[v]) # p => <<PhaseOf(server[v]), p>> \in PhaseEdges,
         p \in DeletionPhases => cache[v].life \in Ending,
         PhaseOf(cache[v]) = "Provisioning" /\ p = "Failed"
           => \/ "Provisioning" \in elapsed[v]
              \/ /\ cache[v].spec.id = None
                 /\ ~ cache[v].spec.requested
              \/ /\ cache[v].spec.id # None
                 /\ vps[cache[v].spec.id] = "gone",
         PhaseOf(cache[v]) = "Joining" /\ p = "Failed" => "Joining" \in elapsed[v]
  PROVE  PhaseLag(v)' /\ InOrder(v)
BY DEF PhaseLag, InOrder, PhaseOf

LEMMA LiveIsNotTerminating ==
  ASSUME NEW v \in VPSieNodes, PhaseLag(v), NEW p, Handling(v, p)
  PROVE  /\ PhaseOf(cache[v]) = p /\ PhaseOf(server[v]) \notin DeletionPhases
         /\ <<p, PhaseOf(server[v])>> \in Ahead
BY DEF PhaseLag, Handling, Ending, PhaseOf

LEMMA ProvisioningPhase ==
  ASSUME TypeOK, NEW v \in VPSieNodes, PhaseLag(v), NEW out,
         \/ ProvisioningTimeout(v) \/ CreateVPSRejected(v)
         \/ \E m \in Machines, answer \in Answers :
              \E h \in {m, None} : CreateVPS(v, m, answer, h, out)
         \/ \E m \in Machines, up \in BOOLEAN :
              DiscoverUnclaimed(v, m, up, out) \/ DiscoverVM(v, m, up, out)
         \/ CheckVPSStatus(v, out),
         GoneStays
  PROVE  PhaseLag(v)' /\ InOrder(v)
<1>1. Handling(v, "Provisioning") /\ UNCHANGED <<cache, elapsed>>
  BY DEF ProvisioningTimeout, CreateVPSRejected, CreateVPS, DiscoverUnclaimed,
         DiscoverVM, CheckVPSStatus, MustCreate, Discovering, Provisioning
<1>2. /\ PhaseOf(cache[v]) = "Provisioning"
      /\ PhaseOf(server[v]) \in {"Provisioning", "Provisioned", "Failed"}
  BY <1>1, LiveIsNotTerminating DEF Ahead, DeletionPhases
<1>3. ASSUME PhaseOf(server'[v]) = PhaseOf(server[v])
      PROVE  PhaseLag(v)' /\ InOrder(v)
  BY <1>1, <1>3, PhaseLagStays
<1>4. CASE ProvisioningTimeout(v) \/ CreateVPSRejected(v)
  <2>1. /\ MoveTo(v, "Failed") /\ UNCHANGED vps
        /\ \/ "Provisioning" \in elapsed[v]
           \/ cache[v].spec.id = None /\ ~ cache[v].spec.requested
    BY <1>4 DEF ProvisioningTimeout, CreateVPSRejected, MustCreate
  <2>2. PhaseOf(server'[v]) = "Failed"
    BY <1>2, <2>1, MoveToPhase DEF Phases
  <2> QED
    BY <1>1, <1>2, <2>1, <2>2, PhaseLagMoves
       DEF Ahead, PhaseEdges, Phases, DeletionPhases
<1>5. CASE \E m \in Machines, answer \in Answers :
             \E h \in {m, None} : CreateVPS(v, m, answer, h, out)
  <2>1. PICK m \in Machines, answer \in Answers : \E h \in {m, None} :
               CreateVPS(v, m, answer, h, out)
    BY <1>5
  <2>2. PICK h \in {m, None} : CreateVPS(v, m, answer, h, out)
    BY <2>1
  <2> DEFINE status == IF "id" \in answer
                       THEN [cache[v].status EXCEPT !.host = h]
                       ELSE cache[v].status
  <2>3. status \in StatusFields /\ status.phase = PhaseOf(cache[v])
    BY FieldTypes DEF StatusFields, PhaseOf
  <2>4. Commit(v, AfterCreate(cache[v].spec, m, answer, h), status, out)
    BY <2>2 DEF CreateVPS
  <2> QED
    BY <1>3, <2>3, <2>4, CommitPhase
<1>6. ASSUME UNCHANGED vps, "Provisioning" \notin elapsed[v],
             PhaseOf(server[v]) # "Failed",
             NEW spec, NEW status \in StatusFields, Commit(v, spec, status, out),
             status.phase \in {"Provisioning", "Provisioned"}
      PROVE  PhaseLag(v)' /\ InOrder(v)
  <2>1. \/ PhaseOf(server'[v]) = PhaseOf(server[v])
        \/ PhaseOf(server'[v]) = "Provisioned"
    BY <1>2, <1>6, CommitPhase
  <2> QED
    BY <1>1, <1>2, <1>3, <1>6, <2>1, PhaseLagMoves
       DEF Ahead, PhaseEdges, Phases, DeletionPhases
<1>7. ASSUME NEW m \in Machines, NEW up \in BOOLEAN,
             DiscoverUnclaimed(v, m, up, out) \/ DiscoverVM(v, m, up, out)
      PROVE  PhaseLag(v)' /\ InOrder(v)
  <2> DEFINE spec == [cache[v].spec EXCEPT
                        !.id = IF m \in Listed /\ vps[m] = "running"
                               THEN m ELSE None,
                        !.ip = m, !.name = IF @ = None THEN m ELSE @]
             found == [cache[v].status EXCEPT !.host = m]
             status == IF spec.id = None
                       THEN [found EXCEPT !.phase = "Provisioned",
                                          !.node = IF @ = None THEN m ELSE @]
                       ELSE IF up THEN [found EXCEPT !.phase = "Provisioned"]
                                  ELSE found
  <2>1. Discovering(v) /\ RecordDiscovery(v, m, up, out) /\ UNCHANGED vps
    BY <1>7 DEF DiscoverUnclaimed, DiscoverVM
  <2>2. /\ "Provisioning" \notin elapsed[v]
        /\ cache[v].spec.id = None /\ cache[v].spec.requested
    BY <2>1 DEF Discovering, Provisioning
  <2>3. PhaseOf(server[v]) # "Failed"
    BY <1>2, <2>2 DEF PhaseLag
  <2>4. /\ status \in StatusFields
        /\ status.phase \in {"Provisioning", "Provisioned"}
    BY <1>2, FieldTypes DEF StatusFields, Phases, PhaseOf
  <2>5. Commit(v, spec, status, out)
    BY <2>1 DEF RecordDiscovery
  <2> QED
    BY <1>6, <2>1, <2>2, <2>3, <2>4, <2>5
<1>8. CASE CheckVPSStatus(v, out)
  <2> DEFINE m == cache[v].spec.id
             found == [cache[v].status EXCEPT !.host = m]
             status == IF vps[m] = "running"
                       THEN [found EXCEPT !.phase = "Provisioned"] ELSE found
  <2>1. "Provisioning" \notin elapsed[v] /\ m # None /\ UNCHANGED vps
    BY <1>8 DEF CheckVPSStatus, Provisioning
  <2>2. CASE vps[m] = "gone" /\ MoveTo(v, "Failed")
    <3>1. PhaseOf(server'[v]) = "Failed"
      BY <1>2, <2>2, MoveToPhase DEF Phases
    <3> QED
      BY <1>1, <1>2, <2>1, <2>2, <3>1, PhaseLagMoves
         DEF Ahead, PhaseEdges, Phases, DeletionPhases
  <2>3. CASE /\ vps[m] \in {"building", "running"}
             /\ Commit(v, [cache[v].spec EXCEPT !.ip = m], status, out)
    <3>1. PhaseOf(server[v]) # "Failed"
      BY <1>2, <2>1, <2>3 DEF PhaseLag
    <3>2. /\ status \in StatusFields
          /\ status.phase \in {"Provisioning", "Provisioned"}
      BY <1>2, FieldTypes DEF StatusFields, SpecFields, Phases, PhaseOf
    <3> QED
      BY <1>6, <2>1, <2>3, <3>1, <3>2
  <2> QED
    BY <1>8, <2>2, <2>3 DEF CheckVPSStatus
<1> QED
  BY <1>4, <1>5, <1>7, <1>8

LEMMA CheckJoinStatusPhase ==
  ASSUME TypeOK, NEW v \in VPSieNodes, PhaseLag(v), NEW out,
         CheckJoinStatus(v, out), GoneStays
  PROVE  PhaseLag(v)' /\ InOrder(v)
<1> DEFINE m == FindKubernetesNode(cache[v])
           spec == [cache[v].spec EXCEPT !.name = IF @ = None THEN m ELSE @]
           named == [cache[v].status EXCEPT !.node = m]
           joined == IF seen[m].state = "ready"
                     THEN [named EXCEPT !.phase = "Ready"] ELSE named
<1>1. /\ Handling(v, "Joining") /\ "Joining" \notin elapsed[v]
      /\ UNCHANGED <<cache, vps, elapsed>>
      /\ Commit(v, spec, joined, out) \/ Commit(v, spec, named, out)
  BY DEF CheckJoinStatus
<1>2. /\ PhaseOf(cache[v]) = "Joining"
      /\ PhaseOf(server[v]) \in {"Joining", "Ready", "Failed"}
  BY <1>1, LiveIsNotTerminating DEF Ahead, DeletionPhases
<1>3. PhaseOf(server[v]) # "Failed"
  BY <1>1, <1>2 DEF PhaseLag
<1>4. m \in Machines
  BY FieldTypes, FindKubernetesNodeType DEF CheckJoinStatus
<1>5. ASSUME NEW status \in {named, joined}
      PROVE  status \in StatusFields /\ status.phase \in {"Joining", "Ready"}
  BY <1>2, <1>4, FieldTypes DEF StatusFields, Phases, PhaseOf
<1>6. \/ PhaseOf(server'[v]) = PhaseOf(server[v])
      \/ PhaseOf(server'[v]) = "Ready"
  BY <1>1, <1>2, <1>5, CommitPhase
<1> QED
  BY <1>1, <1>2, <1>3, <1>6, PhaseLagStays, PhaseLagMoves
     DEF Ahead, PhaseEdges, Phases, DeletionPhases

LEMMA MovePhase ==
  ASSUME TypeOK, NEW v \in VPSieNodes, PhaseLag(v),
         \/ InitializePhase(v) \/ HandlePending(v) \/ HandleProvisioned(v)
         \/ JoiningTimeout(v)
  PROVE  PhaseLag(v)' /\ InOrder(v)
<1> USE DEF Ahead, PhaseEdges, Phases, DeletionPhases
<1>1. CASE InitializePhase(v)
  <2>1. Handling(v, "") /\ MoveTo(v, "Pending") /\ UNCHANGED <<cache, vps, elapsed>>
    BY <1>1 DEF InitializePhase
  <2>2. PhaseOf(cache[v]) = "" /\ PhaseOf(server[v]) \in {"", "Pending"}
    BY <2>1, LiveIsNotTerminating
  <2>3. PhaseOf(server'[v]) = "Pending"
    BY <2>1, <2>2, MoveToPhase
  <2> QED
    BY <2>1, <2>2, <2>3, PhaseLagMoves
<1>2. CASE HandlePending(v)
  <2>1. /\ Handling(v, "Pending") /\ MoveTo(v, "Provisioning")
        /\ UNCHANGED <<cache, vps, elapsed>>
    BY <1>2 DEF HandlePending
  <2>2. /\ PhaseOf(cache[v]) = "Pending"
        /\ PhaseOf(server[v]) \in {"Pending", "Provisioning"}
    BY <2>1, LiveIsNotTerminating
  <2>3. PhaseOf(server'[v]) = "Provisioning"
    BY <2>1, <2>2, MoveToPhase
  <2> QED
    BY <2>1, <2>2, <2>3, PhaseLagMoves
<1>3. CASE HandleProvisioned(v)
  <2>1. /\ Handling(v, "Provisioned") /\ MoveTo(v, "Joining")
        /\ UNCHANGED <<cache, vps, elapsed>>
    BY <1>3 DEF HandleProvisioned
  <2>2. /\ PhaseOf(cache[v]) = "Provisioned"
        /\ PhaseOf(server[v]) \in {"Provisioned", "Joining"}
    BY <2>1, LiveIsNotTerminating
  <2>3. PhaseOf(server'[v]) = "Joining"
    BY <2>1, <2>2, MoveToPhase
  <2> QED
    BY <2>1, <2>2, <2>3, PhaseLagMoves
<1>4. CASE JoiningTimeout(v)
  <2>1. /\ Handling(v, "Joining") /\ MoveTo(v, "Failed") /\ "Joining" \in elapsed[v]
        /\ UNCHANGED <<cache, vps, elapsed>>
    BY <1>4 DEF JoiningTimeout
  <2>2. /\ PhaseOf(cache[v]) = "Joining"
        /\ PhaseOf(server[v]) \in {"Joining", "Ready", "Failed"}
    BY <2>1, LiveIsNotTerminating
  <2>3. PhaseOf(server'[v]) = "Failed"
    BY <2>1, <2>2, MoveToPhase
  <2> QED
    BY <2>1, <2>2, <2>3, PhaseLagMoves
<1> QED
  BY <1>1, <1>2, <1>3, <1>4

LEMMA TerminationPhase ==
  ASSUME TypeOK, NEW v \in VPSieNodes, PhaseLag(v), NEW out, GoneStays,
         \/ BeginTermination(v) \/ DrainAndDelete(v, out)
         \/ SkipVPSDeletion(v, out) \/ DeleteVPS(v, out)
         \/ DeleteVPSExhausted(v)
  PROVE  PhaseLag(v)' /\ InOrder(v)
<1> USE DEF Ahead, PhaseEdges, Phases, DeletionPhases
<1>1. cache[v].life \in Ending /\ UNCHANGED <<cache, elapsed>>
  BY DEF BeginTermination, DrainAndDelete, SkipVPSDeletion, DeleteVPS,
         DeleteVPSExhausted, Deleting, Terminating, Ending
<1>2. <<PhaseOf(cache[v]), PhaseOf(server[v])>> \in Ahead
  BY DEF PhaseLag
<1>3. CASE PhaseOf(server'[v]) = PhaseOf(server[v])
  BY <1>1, <1>3, PhaseLagStays
<1>4. CASE BeginTermination(v)
  <2>1. /\ MoveTo(v, "Terminating") /\ UNCHANGED vps
        /\ PhaseOf(cache[v]) \notin DeletionPhases /\ PhaseOf(cache[v]) \in Phases
    BY <1>4, FieldTypes DEF BeginTermination, PhaseOf, StatusFields
  <2>2. PhaseOf(server'[v]) = "Terminating"
    BY <2>1, MoveToPhase
  <2> QED
    BY <1>1, <1>2, <2>1, <2>2, PhaseLagMoves
<1>5. CASE DrainAndDelete(v, out) /\ MoveTo(v, "Deleting")
  <2>1. PhaseOf(cache[v]) = "Terminating" /\ UNCHANGED vps
    BY <1>5 DEF DrainAndDelete, Deleting, PhaseOf
  <2>2. PhaseOf(server'[v]) = "Deleting"
    BY <1>5, <2>1, MoveToPhase
  <2> QED
    BY <1>1, <1>2, <2>1, <2>2, PhaseLagMoves
<1>6. CASE DrainAndDelete(v, out) /\ UNCHANGED server
  BY <1>3, <1>6
<1>7. CASE SkipVPSDeletion(v, out) \/ DeleteVPS(v, out)
  BY <1>3, <1>7, FinishDeletionPhase DEF SkipVPSDeletion, DeleteVPS
<1>8. CASE DeleteVPSExhausted(v)
  <2>1. PhaseOf(cache[v]) = "Deleting"
    BY <1>8 DEF DeleteVPSExhausted, Deleting, PhaseOf
  <2>2. PhaseOf(server'[v]) = "Failed"
    BY <1>8, <2>1, MoveToPhase DEF DeleteVPSExhausted
  <2>3. PhaseOf(server[v]) \in {"Deleting", "Failed"}
    BY <1>2, <2>1
  <2> QED
    BY <1>1, <2>1, <2>2, <2>3 DEF PhaseLag, InOrder, PhaseOf
<1> QED
  BY <1>4, <1>5, <1>6, <1>7, <1>8 DEF DrainAndDelete

\* The steps that do not touch the phase.
LEMMA SamePhase ==
  ASSUME TypeOK, NEW v \in VPSieNodes, NEW w \in VPSieNodes,
         CreateVPSieNode(w) \/ DeleteVPSieNode(w) \/ AddFinalizer(w) \/ RemoveFinalizer(w)
  PROVE  /\ PhaseOf(server'[v]) = PhaseOf(server[v])
         /\ UNCHANGED <<cache, elapsed, vps>>
<1>1. UNCHANGED <<cache, elapsed, vps>>
  BY DEF CreateVPSieNode, DeleteVPSieNode, AddFinalizer, RemoveFinalizer
<1>2. server'[w].status = server[w].status /\ Others(w)
  BY FieldTypes
     DEF CreateVPSieNode, DeleteVPSieNode, AddFinalizer, RemoveFinalizer,
         TypeOK, Objects, Others
<1> QED
  BY <1>1, <1>2 DEF PhaseOf, Others

LEMMA ReconcileElapsed ==
  ASSUME NEW v \in VPSieNodes, Reconcile(v)
  PROVE  UNCHANGED elapsed
<1>1. CASE Advance(v)
  BY <1>1
     DEF Advance, AddFinalizer, InitializePhase, HandlePending,
         ProvisioningTimeout, HandleProvisioned, JoiningTimeout,
         BeginTermination, DrainAndDelete, RemoveFinalizer
<1>2. CASE CreateVPSRejected(v) \/ HandleFailed(v) \/ DeleteVPSExhausted(v)
  BY <1>2 DEF CreateVPSRejected, HandleFailed, DeleteVPSieNode, DeleteVPSExhausted
<1>3. ASSUME NEW m, NEW answer, NEW h, NEW out, CreateVPS(v, m, answer, h, out)
      PROVE  UNCHANGED elapsed
  BY <1>3 DEF CreateVPS
<1>4. ASSUME NEW m, NEW up, NEW out,
             DiscoverUnclaimed(v, m, up, out) \/ DiscoverVM(v, m, up, out)
      PROVE  UNCHANGED elapsed
  BY <1>4 DEF DiscoverUnclaimed, DiscoverVM
<1>5. ASSUME NEW out,
             \/ CheckVPSStatus(v, out) \/ CheckJoinStatus(v, out)
             \/ DrainAndDelete(v, out) \/ SkipVPSDeletion(v, out)
             \/ DeleteVPS(v, out)
      PROVE  UNCHANGED elapsed
  BY <1>5
     DEF CheckVPSStatus, CheckJoinStatus, DrainAndDelete, SkipVPSDeletion, DeleteVPS
<1> QED
  BY <1>1, <1>2, <1>3, <1>4, <1>5 DEF Reconcile

LEMMA ReconcilePhase ==
  ASSUME TypeOK, NEW v \in VPSieNodes, PhaseLag(v), Reconcile(v)
  PROVE  PhaseLag(v)' /\ InOrder(v)
<1>1. GoneStays
  BY ReconcileEffect
<1>2. CASE AddFinalizer(v) \/ RemoveFinalizer(v) \/ HandleFailed(v)
  BY <1>1, <1>2, SamePhase, PhaseLagStays DEF HandleFailed
<1>3. CASE \/ InitializePhase(v) \/ HandlePending(v) \/ HandleProvisioned(v)
           \/ JoiningTimeout(v)
  BY <1>3, MovePhase
<1>4. CASE ProvisioningTimeout(v) \/ CreateVPSRejected(v)
  BY <1>1, <1>4, ProvisioningPhase
<1>5. CASE BeginTermination(v) \/ DeleteVPSExhausted(v)
  BY <1>1, <1>5, TerminationPhase
<1>6. ASSUME NEW out,
             DrainAndDelete(v, out) \/ SkipVPSDeletion(v, out) \/ DeleteVPS(v, out)
      PROVE  PhaseLag(v)' /\ InOrder(v)
  BY <1>1, <1>6, TerminationPhase
<1>7. ASSUME NEW out, CheckVPSStatus(v, out) \/ CheckJoinStatus(v, out)
      PROVE  PhaseLag(v)' /\ InOrder(v)
  BY <1>1, <1>7, ProvisioningPhase, CheckJoinStatusPhase
<1>8. ASSUME NEW out, NEW m \in Machines, NEW answer \in Answers, NEW h \in {m, None},
             CreateVPS(v, m, answer, h, out)
      PROVE  PhaseLag(v)' /\ InOrder(v)
  BY <1>1, <1>8, ProvisioningPhase
<1>9. ASSUME NEW out, NEW m \in Machines, NEW up \in BOOLEAN,
             DiscoverUnclaimed(v, m, up, out) \/ DiscoverVM(v, m, up, out)
      PROVE  PhaseLag(v)' /\ InOrder(v)
  BY <1>1, <1>9, ProvisioningPhase
<1> QED
  BY <1>2, <1>3, <1>4, <1>5, <1>6, <1>7, <1>8, <1>9 DEF Reconcile, Advance

PhaseLagInv == \A v \in VPSieNodes : PhaseLag(v)

LEMMA PhaseStep ==
  ASSUME TypeOK, DeletionInv, PhaseLagInv, [Next]_vars, NEW v \in VPSieNodes
  PROVE  PhaseLag(v)' /\ InOrder(v)
<1> USE DEF PhaseLagInv
<1>1. ASSUME UNCHANGED <<server, cache>>, elapsed[v] \subseteq elapsed'[v], GoneStays
      PROVE  PhaseLag(v)' /\ InOrder(v)
  BY <1>1, PhaseLagStays
<1>2. CASE UNCHANGED vars
  BY <1>1, <1>2 DEF vars, GoneStays
<1>3. ASSUME NEW w \in VPSieNodes, CreateVPSieNode(w) \/ DeleteVPSieNode(w)
      PROVE  PhaseLag(v)' /\ InOrder(v)
  BY <1>3, SamePhase, PhaseLagStays DEF GoneStays
<1>4. ASSUME NEW w \in VPSieNodes, Inform(w)
      PROVE  PhaseLag(v)' /\ InOrder(v)
  <2>1. CASE w # v
    BY <1>4, <2>1, PhaseLagStays DEF Inform, TypeOK, GoneStays
  <2>2. CASE w = v
    <3>1. cache'[v] = server[v] /\ server' = server
      BY <1>4, <2>2 DEF Inform, TypeOK
    <3>2. PhaseOf(server[v]) \in DeletionPhases => server[v].life \in Ending
      BY DEF PhaseLag, DeletionInv, DeletionSafe
    <3>3. PhaseOf(server[v]) \in Phases
      BY FieldTypes DEF PhaseOf, StatusFields
    <3> QED
      BY <3>1, <3>2, <3>3 DEF PhaseLag, InOrder, Ahead, PhaseOf
  <2> QED
    BY <2>1, <2>2
<1>5. ASSUME NEW w \in VPSieNodes, NEW t \in Timers, Expire(w, t)
      PROVE  PhaseLag(v)' /\ InOrder(v)
  BY <1>1, <1>5 DEF Expire, GoneStays, TypeOK
<1>6. ASSUME NEW m \in Machines,
             InformNode(m) \/ Boot(m) \/ Vanish(m) \/ Register(m) \/ Unregister(m)
      PROVE  PhaseLag(v)' /\ InOrder(v)
  BY <1>1, <1>6
     DEF InformNode, Boot, Vanish, Register, Unregister, GoneStays, TypeOK
<1>7. ASSUME NEW w \in VPSieNodes, Reconcile(w)
      PROVE  PhaseLag(v)' /\ InOrder(v)
  <2>1. CASE w = v
    BY <1>7, <2>1, ReconcilePhase
  <2>2. CASE w # v
    <3>1. server'[v] = server[v] /\ UNCHANGED cache /\ GoneStays
      BY <1>7, <2>2, ReconcileEffect DEF Others
    <3>2. UNCHANGED elapsed
      BY <1>7, ReconcileElapsed
    <3> QED
      BY <3>1, <3>2, PhaseLagStays
  <2> QED
    BY <2>1, <2>2
<1> QED
  BY <1>2, <1>3, <1>4, <1>5, <1>6, <1>7 DEF Next, Environment

LEMMA PhaseLagInvariant == Spec => []PhaseLagInv
<1>1. Init => PhaseLagInv
  <2>1. NoObject.status.phase = ""
    BY DEF NoObject
  <2>2. SUFFICES ASSUME Init, NEW v \in VPSieNodes
                 PROVE  PhaseLag(v)
    BY DEF PhaseLagInv
  <2>3. PhaseOf(server[v]) = "" /\ PhaseOf(cache[v]) = ""
    BY <2>1, <2>2 DEF Init, PhaseOf
  <2> QED
    BY <2>3 DEF PhaseLag, Ahead, Phases, DeletionPhases
<1>2. TypeOK /\ DeletionInv /\ PhaseLagInv /\ [Next]_vars => PhaseLagInv'
  BY PhaseStep DEF PhaseLagInv
<1> QED
  BY <1>1, <1>2, TypeCorrect, DeletionInvariant, PTL DEF Spec

\* Every change of the stored phase is an edge of the phase machine, although
\* the patches carry no resourceVersion (phases.go, controller.go Reconcile).
THEOREM PhasesInOrder == Spec => PhaseOrder
<1>1. TypeOK /\ DeletionInv /\ PhaseLagInv /\ [Next]_vars
        => [\A v \in VPSieNodes :
             server'[v].status.phase # server[v].status.phase
               => <<server[v].status.phase, server'[v].status.phase>> \in PhaseEdges]_vars
  BY PhaseStep DEF InOrder, PhaseOf
<1> QED
  BY <1>1, TypeCorrect, DeletionInvariant, PhaseLagInvariant, PTL
     DEF Spec, PhaseOrder

-----------------------------------------------------------------------------
(* The controller implements NodeLifecycle.  What the abstract life does    *)
(* not see is that phases only exist under a finalizer, so that an object   *)
(* that goes at once was still starting.                                    *)

Begun(v) ==
  /\ server[v].life = "none" => ~ server[v].finalizer
  /\ ~ server[v].finalizer /\ server[v].life \in {"none", "live"}
       => PhaseOf(server[v]) = ""

BegunInv == \A v \in VPSieNodes : Begun(v)

LEMMA PhaseNeedsFinalizer ==
  ASSUME TypeOK, NEW v \in VPSieNodes, Reconcile(v),
         PhaseOf(server'[v]) # PhaseOf(server[v])
  PROVE  cache[v].finalizer
<1>1. ~ AddFinalizer(v)
  BY SamePhase
<1>2. CASE Advance(v)
  BY <1>1, <1>2
     DEF Advance, InitializePhase, HandlePending, ProvisioningTimeout,
         HandleProvisioned, JoiningTimeout, BeginTermination, DrainAndDelete,
         Deleting, RemoveFinalizer, Handling, Terminating
<1>3. CASE CreateVPSRejected(v) \/ HandleFailed(v) \/ DeleteVPSExhausted(v)
  BY <1>3
     DEF CreateVPSRejected, MustCreate, Provisioning, HandleFailed,
         DeleteVPSExhausted, Deleting, Handling, Terminating
<1>4. ASSUME NEW m, NEW answer, NEW h, NEW out, CreateVPS(v, m, answer, h, out)
      PROVE  cache[v].finalizer
  BY <1>4 DEF CreateVPS, MustCreate, Provisioning, Handling
<1>5. ASSUME NEW m, NEW up, NEW out,
             DiscoverUnclaimed(v, m, up, out) \/ DiscoverVM(v, m, up, out)
      PROVE  cache[v].finalizer
  BY <1>5 DEF DiscoverUnclaimed, DiscoverVM, Discovering, Provisioning, Handling
<1>6. ASSUME NEW out,
             \/ CheckVPSStatus(v, out) \/ CheckJoinStatus(v, out)
             \/ DrainAndDelete(v, out) \/ SkipVPSDeletion(v, out)
             \/ DeleteVPS(v, out)
      PROVE  cache[v].finalizer
  BY <1>6
     DEF CheckVPSStatus, CheckJoinStatus, DrainAndDelete, SkipVPSDeletion,
         DeleteVPS, Provisioning, Deleting, Handling, Terminating
<1> QED
  BY <1>2, <1>3, <1>4, <1>5, <1>6 DEF Reconcile

\* How the life of an object may go on in one step.
LifeMoves(v) ==
  \/ server'[v].life = server[v].life
  \/ server[v].life = "none" /\ server'[v].life = "live"
  \/ server[v].life = "live" /\ server'[v].life = "deleting"
  \/ server[v].life = "live" /\ ~ server[v].finalizer /\ server'[v].life = "gone"
  \/ server[v].life = "deleting" /\ server'[v].life = "gone"

LEMMA LifeStep ==
  ASSUME TypeOK, NEW v \in VPSieNodes, DeletionSafe(v), Begun(v),
         Effect(v) \/ CreateVPSieNode(v)
  PROVE  /\ LifeMoves(v)
         /\ server'[v].life = "none" => server'[v] = server[v]
         /\ server[v].finalizer => server'[v].finalizer \/ server'[v].life = "gone"
<1>1. CASE server'[v] = server[v]
  BY <1>1 DEF LifeMoves
<1>2. CASE Patched(v) \/ Committed(v)
  BY <1>2 DEF Patched, Committed, Exists, Fresh, LifeMoves
<1>3. CASE Released(v)
  <2>1. server[v].life = "deleting"
    BY <1>3 DEF Released, Finished, Exists, DeletionSafe, Ending
  <2> QED
    BY <1>3, <2>1 DEF Released, Finished, LifeMoves
<1>4. CASE AddFinalizer(v)
  BY <1>4, FieldTypes DEF AddFinalizer, Fresh, LifeMoves, TypeOK, Objects
<1>5. CASE RemoveFinalizer(v)
  BY <1>5, FieldTypes DEF RemoveFinalizer, Terminating, Fresh, LifeMoves, TypeOK, Objects
<1>6. CASE CreateVPSieNode(v) \/ DeleteVPSieNode(v)
  BY <1>6, FieldTypes DEF CreateVPSieNode, DeleteVPSieNode, LifeMoves, TypeOK, Objects
<1> QED
  BY <1>1, <1>2, <1>3, <1>4, <1>5, <1>6 DEF Effect

\* What a step does to the object it is about, and to no other.
Touches(v) ==
  /\ Others(v)
  /\ Effect(v) \/ CreateVPSieNode(v)
  /\ PhaseOf(server'[v]) # PhaseOf(server[v]) => cache[v].finalizer

LEMMA OneObjectTouched ==
  ASSUME TypeOK, Next
  PROVE  UNCHANGED server \/ \E v \in VPSieNodes : Touches(v)
<1>1. ASSUME NEW v \in VPSieNodes, CreateVPSieNode(v) \/ DeleteVPSieNode(v)
      PROVE  Touches(v)
  <2>1. Others(v)
    BY <1>1 DEF CreateVPSieNode, DeleteVPSieNode, Others, TypeOK
  <2> QED
    BY <1>1, <2>1, SamePhase DEF Touches, Effect
<1>2. ASSUME NEW v \in VPSieNodes, Reconcile(v)
      PROVE  Touches(v)
  BY <1>2, ReconcileEffect, PhaseNeedsFinalizer DEF Touches
<1>3. ASSUME NEW v \in VPSieNodes, Inform(v) \/ \E t \in Timers : Expire(v, t)
      PROVE  UNCHANGED server
  BY <1>3 DEF Inform, Expire
<1>4. ASSUME NEW m \in Machines,
             InformNode(m) \/ Boot(m) \/ Vanish(m) \/ Register(m) \/ Unregister(m)
      PROVE  UNCHANGED server
  BY <1>4 DEF InformNode, Boot, Vanish, Register, Unregister
<1>5. CASE Environment
  BY <1>1, <1>3, <1>4, <1>5 DEF Environment
<1>6. CASE \E v \in VPSieNodes : Reconcile(v)
  BY <1>2, <1>6
<1> QED
  BY <1>5, <1>6 DEF Next

LEMMA BegunInvariant == Spec => []BegunInv
<1>1. Init => BegunInv
  <2>1. /\ NoObject.life = "none" /\ NoObject.finalizer = FALSE
        /\ NoObject.status.phase = ""
    BY DEF NoObject
  <2> QED
    BY <2>1 DEF Init, BegunInv, Begun, PhaseOf
<1>2. TypeOK /\ DeletionInv /\ BegunInv /\ [Next]_vars => BegunInv'
  <2>1. SUFFICES ASSUME TypeOK, DeletionInv, BegunInv, [Next]_vars,
                        NEW v \in VPSieNodes
                 PROVE  Begun(v)'
    BY DEF BegunInv
  <2>2. CASE server'[v] = server[v]
    BY <2>1, <2>2 DEF BegunInv, Begun, PhaseOf
  <2>3. CASE Touches(v)
    <3>1. DeletionSafe(v) /\ Begun(v)
      BY <2>1 DEF DeletionInv, BegunInv
    <3>2. /\ LifeMoves(v)
          /\ server'[v].life = "none" => server'[v] = server[v]
          /\ server[v].finalizer => server'[v].finalizer \/ server'[v].life = "gone"
      BY <2>1, <2>3, <3>1, LifeStep DEF Touches
    <3>3. PhaseOf(server'[v]) # PhaseOf(server[v])
            => server[v].finalizer \/ server[v].life = "gone"
      BY <2>3, <3>1 DEF Touches, DeletionSafe
    <3> QED
      BY <3>1, <3>2, <3>3 DEF Begun, LifeMoves, PhaseOf
  <2> QED
    BY <2>1, <2>2, <2>3, OneObjectTouched DEF vars, Others, Touches
<1> QED
  BY <1>1, <1>2, TypeCorrect, DeletionInvariant, PTL DEF Spec

Outside == [v \in VPSieNodes |-> StageOf(server[v])]

\* The moves of one VPSieNode that NodeLifecycle knows.
StageMoves(from, to) ==
  \/ from = "unborn" /\ to = "starting"
  \/ from = "starting" /\ to \in {"ready", "failed", "leaving", "gone"}
  \/ from = "ready" /\ to \in {"failed", "leaving"}
  \/ from = "failed" /\ to = "leaving"
  \/ from = "leaving" /\ to = "gone"

LEMMA StageStep ==
  ASSUME TypeOK, TypeOK', NEW v \in VPSieNodes, DeletionSafe(v), Begun(v),
         DeletionSafe(v)', PhaseLag(v)', InOrder(v), Touches(v)
  PROVE  \/ StageOf(server'[v]) = StageOf(server[v])
         \/ StageMoves(StageOf(server[v]), StageOf(server'[v]))
<1>1. /\ LifeMoves(v)
      /\ server'[v].life = "none" => server'[v] = server[v]
  BY LifeStep DEF Touches
<1>2. /\ server[v].life \in {"none", "live", "deleting", "gone"}
      /\ server[v].status.phase \in Phases
  BY FieldTypes DEF Objects, StatusFields
<1>3. CASE server'[v].life = server[v].life /\ server[v].life # "live"
  BY <1>2, <1>3 DEF StageOf
<1>4. CASE server'[v].life = "live" /\ server[v].life = "live"
  <2>1. PhaseOf(server'[v]) \notin DeletionPhases
    BY <1>4 DEF PhaseLag, DeletionSafe, Ending
  <2>2. \/ PhaseOf(server'[v]) = PhaseOf(server[v])
        \/ <<PhaseOf(server[v]), PhaseOf(server'[v])>> \in PhaseEdges
    BY DEF InOrder
  <2>3. CASE PhaseOf(server'[v]) = PhaseOf(server[v])
    BY <1>4, <2>3 DEF StageOf, PhaseOf
  <2>4. CASE <<PhaseOf(server[v]), PhaseOf(server'[v])>> \in PhaseEdges
    <3>1. StageOf(server[v]) = IF PhaseOf(server[v]) = "Ready" THEN "ready"
                               ELSE IF PhaseOf(server[v]) = "Failed" THEN "failed"
                               ELSE "starting"
      BY <1>4 DEF StageOf, PhaseOf
    <3>2. StageOf(server'[v]) = IF PhaseOf(server'[v]) = "Ready" THEN "ready"
                                ELSE IF PhaseOf(server'[v]) = "Failed" THEN "failed"
                                ELSE "starting"
      BY <1>4 DEF StageOf, PhaseOf
    <3> QED
      BY <2>1, <2>4, <3>1, <3>2 DEF PhaseEdges, StageMoves, DeletionPhases
  <2> QED
    BY <2>2, <2>3, <2>4
<1>5. CASE server[v].life = "none" /\ server'[v].life = "live"
  <2>1. PhaseOf(server[v]) = "" /\ ~ cache[v].finalizer
    BY <1>5 DEF Begun, DeletionSafe
  <2>2. PhaseOf(server'[v]) = ""
    BY <2>1 DEF Touches
  <2> QED
    BY <1>5, <2>2 DEF StageOf, StageMoves, PhaseOf
<1>6. CASE server[v].life = "live" /\ server'[v].life = "deleting"
  BY <1>6 DEF StageOf, StageMoves
<1>7. CASE /\ server[v].life = "live" /\ ~ server[v].finalizer
           /\ server'[v].life = "gone"
  BY <1>7 DEF StageOf, StageMoves, Begun, PhaseOf
<1>8. CASE server[v].life = "deleting" /\ server'[v].life = "gone"
  BY <1>8 DEF StageOf, StageMoves
<1> QED
  BY <1>1, <1>2, <1>3, <1>4, <1>5, <1>6, <1>7, <1>8 DEF LifeMoves

LEMMA LifecycleStep ==
  ASSUME NEW v \in VPSieNodes, Others(v),
         \/ StageOf(server'[v]) = StageOf(server[v])
         \/ StageMoves(StageOf(server[v]), StageOf(server'[v]))
  PROVE  Lifecycle!Next \/ Outside' = Outside
<1>1. Outside' = [Outside EXCEPT ![v] = StageOf(server'[v])]
  BY DEF Outside, Others
<1>2. Outside[v] = StageOf(server[v])
  BY DEF Outside
<1>3. CASE StageOf(server'[v]) = StageOf(server[v])
  BY <1>1, <1>2, <1>3 DEF Outside
<1>4. ASSUME StageMoves(StageOf(server[v]), StageOf(server'[v]))
      PROVE  \/ Lifecycle!Create(v) \/ Lifecycle!Settle(v)
             \/ Lifecycle!FailLate(v) \/ Lifecycle!Leave(v) \/ Lifecycle!Remove(v)
  BY <1>1, <1>2, <1>4
     DEF StageMoves, Outside, Lifecycle!Create, Lifecycle!Settle,
         Lifecycle!FailLate, Lifecycle!Leave, Lifecycle!Remove, Lifecycle!Move
<1> QED
  BY <1>3, <1>4 DEF Lifecycle!Next

\* The controller implements NodeLifecycle: a VPSieNode goes through its life
\* once and forward, for any number of VPSieNodes and machines and whatever
\* the caches show (controller.go Reconcile and reconcileDelete, phases.go).
THEOREM LifecycleImplemented == Spec => KeepsLifecycle
<1>1. Init => Lifecycle!Init
  <2>1. StageOf(NoObject) = "unborn"
    BY DEF NoObject, StageOf
  <2> QED
    BY <2>1 DEF Init, Lifecycle!Init
<1>2. /\ TypeOK /\ TypeOK' /\ DeletionInv /\ DeletionInv' /\ PhaseLagInv /\ BegunInv
      /\ [Next]_vars
      => [Lifecycle!Next]_Outside
  <2>1. SUFFICES ASSUME TypeOK, TypeOK', DeletionInv, DeletionInv', PhaseLagInv,
                        BegunInv, [Next]_vars
                 PROVE  Lifecycle!Next \/ Outside' = Outside
    OBVIOUS
  <2>2. CASE UNCHANGED server
    BY <2>2 DEF Outside
  <2>3. ASSUME NEW v \in VPSieNodes, Touches(v)
        PROVE  Lifecycle!Next \/ Outside' = Outside
    <3>1. PhaseLag(v)' /\ InOrder(v)
      BY <2>1, PhaseStep
    <3>2. \/ StageOf(server'[v]) = StageOf(server[v])
          \/ StageMoves(StageOf(server[v]), StageOf(server'[v]))
      BY <2>1, <2>3, <3>1, StageStep DEF DeletionInv, BegunInv
    <3> QED
      BY <2>3, <3>2, LifecycleStep DEF Touches
  <2> QED
    BY <2>1, <2>2, <2>3, OneObjectTouched DEF vars
<1> QED
  BY <1>1, <1>2, TypeCorrect, DeletionInvariant, PhaseLagInvariant,
     BegunInvariant, PTL
     DEF Spec, KeepsLifecycle, Lifecycle!Spec, Outside

-----------------------------------------------------------------------------
(* The Node that is drained is the machine that is deleted.  All that a     *)
(* VPSieNode whose machine was named at its creation refers to is that      *)
(* machine, and from Provisioned on, or once it has a Node, it knows the    *)
(* hostname; a pass may read a copy that knows less than the server, never  *)
(* one that knows something else.                                           *)

Identified == \A answer \in Answers : "id" \in answer

HostKnown == {"Provisioned", "Joining", "Ready"}

OneMachineOnly(o) ==
  /\ ~ o.spec.requested
  /\ o.spec.ip \in {None, o.spec.id}
  /\ o.spec.name \in {None, OwnName, o.spec.id}
  /\ o.status.host \in {None, o.spec.id}
  /\ o.status.node \in {None, o.spec.id}
  /\ o.status.node # None => o.status.host = o.spec.id
  /\ o.status.phase \in HostKnown
       => o.spec.id # None /\ o.status.host = o.spec.id

KnowsLess(v) ==
  /\ cache[v].spec.id # None => server[v].spec.id = cache[v].spec.id
  /\ cache[v].status.host # None
       => server[v].status.host = cache[v].status.host

Consistent(v) ==
  OneMachineOnly(server[v]) /\ OneMachineOnly(cache[v]) /\ KnowsLess(v)

ConsistentInv == \A v \in VPSieNodes : Consistent(v)

\* A pass that changes no more than the phase.
LEMMA ConsistentStays ==
  ASSUME NEW v \in VPSieNodes, Consistent(v), cache'[v] = cache[v],
         server'[v].spec = server[v].spec,
         server'[v].status.host = server[v].status.host,
         server'[v].status.node = server[v].status.node,
         \/ server'[v].status.phase \notin HostKnown
         \/ server'[v].status.phase = server[v].status.phase
         \/ server[v].spec.id # None /\ server[v].status.host = server[v].spec.id
  PROVE  Consistent(v)'
BY DEF Consistent, OneMachineOnly, KnowsLess

LEMMA MoveConsistent ==
  ASSUME TypeOK, NEW v \in VPSieNodes, Consistent(v), NEW p \in Phases, MoveTo(v, p),
         p \in HostKnown => PhaseOf(cache[v]) \in HostKnown,
         PhaseOf(cache[v]) # p,
         UNCHANGED cache
  PROVE  Consistent(v)'
<1>1. Patched(v) /\ PhaseOf(server'[v]) = p
  BY MoveToEffect, MoveToPhase
<1>2. p \in HostKnown
        => server[v].spec.id # None /\ server[v].status.host = server[v].spec.id
  BY DEF Consistent, OneMachineOnly, KnowsLess, PhaseOf
<1> QED
  BY <1>1, <1>2, ConsistentStays DEF Patched, PhaseOf

\* What an Update and a status patch store.
LEMMA CommitConsistent ==
  ASSUME TypeOK, NEW v \in VPSieNodes, Consistent(v), UNCHANGED cache,
         NEW spec \in SpecFields, NEW status \in StatusFields, NEW out,
         Commit(v, spec, status, out),
         cache[v].spec.id # None,
         spec.id = cache[v].spec.id, ~ spec.requested,
         spec.ip \in {None, spec.id}, spec.name \in {None, OwnName, spec.id},
         status.host = spec.id,
         status.node \in {None, spec.id}
  PROVE  Consistent(v)'
<1> DEFINE i == cache[v].spec.id
<1>1. server[v].spec.id = i
  BY DEF Consistent, KnowsLess
<1>2. CASE UNCHANGED server
  BY <1>2, ConsistentStays
<1>3. CASE /\ spec # cache[v].spec /\ Fresh(v)
           /\ server' = [server EXCEPT
                           ![v].spec = spec,
                           ![v].status = IF out = "all" THEN status ELSE @]
  <2> DEFINE new == IF out = "all" THEN status ELSE server[v].status
  <2>1. server' = [server EXCEPT ![v] = [server[v] EXCEPT !.spec = spec,
                                                        !.status = new]]
    BY <1>3 DEF TypeOK
  <2>2. server'[v].spec = spec /\ server'[v].status = new
    BY <2>1, FieldTypes DEF TypeOK, Objects
  <2>3. cache[v] = server[v] /\ cache'[v] = cache[v]
    BY <1>3 DEF Fresh
  <2> QED
    BY <1>1, <2>2, <2>3 DEF Consistent, OneMachineOnly, KnowsLess
<1>4. CASE spec = cache[v].spec /\ PatchStatus(v, status)
  <2> DEFINE new == Merge(server[v].status, cache[v].status, status)
  <2>1. server' = [server EXCEPT ![v] = [server[v] EXCEPT !.status = new]]
    BY <1>4 DEF PatchStatus, TypeOK
  <2>2. server'[v].spec = server[v].spec /\ server'[v].status = new
    BY <2>1, FieldTypes DEF TypeOK, Objects
  <2>3. new.host = i
    BY DEF Merge, Consistent, OneMachineOnly, KnowsLess
  <2>4. new.node \in {None, i}
    BY <1>1 DEF Merge, Consistent, OneMachineOnly
  <2> QED
    BY <1>1, <2>2, <2>3, <2>4 DEF Consistent, OneMachineOnly, KnowsLess
<1> QED
  BY <1>2, <1>3, <1>4 DEF Commit

\* The creation of the machine is recorded only on a copy that is fresh.
LEMMA CreateConsistent ==
  ASSUME TypeOK, Identified, NEW v \in VPSieNodes, Consistent(v),
         NEW m \in Machines, NEW answer \in Answers, NEW h \in {m, None}, NEW out,
         CreateVPS(v, m, answer, h, out)
  PROVE  Consistent(v)'
<1> DEFINE spec == AfterCreate(cache[v].spec, m, answer, h)
           status == [cache[v].status EXCEPT !.host = h]
           new == IF out = "all" THEN status ELSE server[v].status
<1>1. /\ cache[v].spec.id = None /\ ~ cache[v].spec.requested
      /\ PhaseOf(cache[v]) = "Provisioning" /\ cache' = cache
      /\ Commit(v, spec, status, out)
  BY DEF CreateVPS, MustCreate, Provisioning, Handling, PhaseOf, Identified
<1>2. cache[v].spec \in SpecFields /\ cache[v].status \in StatusFields
  BY FieldTypes
<1>3. /\ spec.id = m /\ spec.ip = None /\ ~ spec.requested
      /\ spec.name \in {None, OwnName, m}
  BY <1>1, <1>2 DEF AfterCreate, SpecFields, Identified, Consistent, OneMachineOnly
<1>4. spec # cache[v].spec
  BY <1>1, <1>3, ConstantsAssumption
<1>5. CASE UNCHANGED server
  BY <1>1, <1>5, ConsistentStays
<1>6. CASE Fresh(v) /\ server' = [server EXCEPT
                           ![v].spec = spec,
                           ![v].status = IF out = "all" THEN status ELSE @]
  <2>1. server' = [server EXCEPT ![v] = [server[v] EXCEPT !.spec = spec,
                                                        !.status = new]]
    BY <1>6 DEF TypeOK
  <2>2. server'[v].spec = spec /\ server'[v].status = new
    BY <2>1, FieldTypes DEF TypeOK, Objects
  <2>3. cache[v] = server[v] /\ cache'[v] = cache[v]
    BY <1>1, <1>6 DEF Fresh
  <2>4. /\ status.host = h /\ status.node = cache[v].status.node
        /\ status.phase = "Provisioning"
    BY <1>1, <1>2 DEF StatusFields, PhaseOf
  <2>5. cache[v].status.host = None /\ cache[v].status.node = None
    BY <1>1 DEF Consistent, OneMachineOnly
  <2>6. /\ new.host \in {None, m} /\ new.node = None
        /\ new.phase = "Provisioning"
    BY <1>1, <2>3, <2>4, <2>5 DEF PhaseOf
  <2>7. OneMachineOnly(server'[v])
    BY <1>3, <2>2, <2>6 DEF OneMachineOnly, HostKnown
  <2> QED
    BY <1>1, <2>3, <2>5, <2>7 DEF Consistent, KnowsLess
<1> QED
  BY <1>1, <1>4, <1>5, <1>6 DEF Commit

LEMMA CheckVPSStatusConsistent ==
  ASSUME TypeOK, NEW v \in VPSieNodes, Consistent(v), NEW out, CheckVPSStatus(v, out)
  PROVE  Consistent(v)'
<1> DEFINE m == cache[v].spec.id
           found == [cache[v].status EXCEPT !.host = m]
           spec == [cache[v].spec EXCEPT !.ip = m]
           status == IF vps[m] = "running"
                     THEN [found EXCEPT !.phase = "Provisioned"] ELSE found
<1>1. m # None /\ PhaseOf(cache[v]) = "Provisioning" /\ UNCHANGED cache
  BY DEF CheckVPSStatus, Provisioning, Handling, PhaseOf
<1>2. CASE MoveTo(v, "Failed")
  BY <1>1, <1>2, MoveConsistent DEF HostKnown, Phases
<1>3. CASE Commit(v, spec, status, out)
  <2>1. /\ spec \in SpecFields /\ spec.id = m /\ spec.ip = m
        /\ spec.requested = cache[v].spec.requested
        /\ spec.name = cache[v].spec.name
    BY FieldTypes DEF SpecFields
  <2>2. /\ status \in StatusFields /\ status.host = m
        /\ status.node = cache[v].status.node
    BY FieldTypes DEF StatusFields, SpecFields, Phases
  <2> QED
    BY <1>1, <1>3, <2>1, <2>2, CommitConsistent DEF Consistent, OneMachineOnly
<1> QED
  BY <1>2, <1>3 DEF CheckVPSStatus

LEMMA CheckJoinStatusConsistent ==
  ASSUME TypeOK, NEW v \in VPSieNodes, Consistent(v), NEW out, CheckJoinStatus(v, out)
  PROVE  Consistent(v)'
<1> DEFINE m == FindKubernetesNode(cache[v])
           spec == [cache[v].spec EXCEPT !.name = IF @ = None THEN m ELSE @]
           named == [cache[v].status EXCEPT !.node = m]
           joined == IF seen[m].state = "ready"
                     THEN [named EXCEPT !.phase = "Ready"] ELSE named
<1>1. PhaseOf(cache[v]) = "Joining" /\ m # None /\ UNCHANGED cache
  BY DEF CheckJoinStatus, Handling, PhaseOf
<1>2. cache[v].spec.id # None /\ cache[v].status.host = cache[v].spec.id
  BY <1>1 DEF Consistent, OneMachineOnly, HostKnown, PhaseOf
<1>3. m \in Machines
  BY <1>1, FieldTypes, FindKubernetesNodeType
<1>4. m = cache[v].spec.id
  BY <1>1, <1>3, ConstantsAssumption
     DEF FindKubernetesNode, InCluster, Consistent, OneMachineOnly
<1>5. /\ spec \in SpecFields /\ spec.id = cache[v].spec.id
      /\ spec.requested = cache[v].spec.requested
      /\ spec.ip = cache[v].spec.ip /\ spec.name \in {cache[v].spec.name, m}
  BY <1>3, FieldTypes DEF SpecFields, Names
<1>6. ASSUME NEW status \in {named, joined}
      PROVE  /\ status \in StatusFields /\ status.node = m
             /\ status.host = cache[v].status.host
  BY <1>3, FieldTypes DEF StatusFields, Phases
<1>7. /\ ~ cache[v].spec.requested
      /\ cache[v].spec.ip \in {None, cache[v].spec.id}
      /\ cache[v].spec.name \in {None, OwnName, cache[v].spec.id}
  BY DEF Consistent, OneMachineOnly
<1>8. PICK status \in {named, joined} : Commit(v, spec, status, out)
  BY DEF CheckJoinStatus
<1>9. status \in StatusFields /\ status.node = m /\ status.host = spec.id
  BY <1>2, <1>5, <1>6
<1>10. /\ ~ spec.requested /\ spec.ip \in {None, spec.id}
       /\ spec.name \in {None, OwnName, spec.id}
  BY <1>4, <1>5, <1>7
<1> HIDE DEF spec, named, joined, m
<1> QED
  BY <1>1, <1>2, <1>4, <1>5, <1>8, <1>9, <1>10, CommitConsistent

\* A pass that leaves spec and status of the object alone, or its own phase.
LEMMA DeletionConsistent ==
  ASSUME TypeOK, NEW v \in VPSieNodes, Consistent(v), NEW out,
         \/ BeginTermination(v) \/ DrainAndDelete(v, out) \/ DeleteVPSExhausted(v)
         \/ SkipVPSDeletion(v, out) \/ DeleteVPS(v, out)
  PROVE  Consistent(v)'
<1>1. UNCHANGED cache
  BY DEF BeginTermination, DrainAndDelete, DeleteVPSExhausted, SkipVPSDeletion,
         DeleteVPS
<1>2. CASE UNCHANGED server
  BY <1>1, <1>2, ConsistentStays
<1>3. CASE BeginTermination(v)
  BY <1>1, <1>3, MoveConsistent
     DEF BeginTermination, DeletionPhases, HostKnown, Phases, PhaseOf
<1>4. CASE DrainAndDelete(v, out)
  BY <1>1, <1>2, <1>4, MoveConsistent
     DEF DrainAndDelete, Deleting, HostKnown, Phases, PhaseOf
<1>5. CASE DeleteVPSExhausted(v)
  BY <1>1, <1>5, MoveConsistent
     DEF DeleteVPSExhausted, Deleting, HostKnown, Phases, PhaseOf
<1>6. CASE SkipVPSDeletion(v, out) \/ DeleteVPS(v, out)
  <2>1. UNCHANGED server \/ Finished(v)
    BY <1>6, DeletionEffect DEF Released
  <2>2. PhaseOf(server'[v]) = PhaseOf(server[v])
    BY <1>6, FinishDeletionPhase DEF SkipVPSDeletion, DeleteVPS
  <2> QED
    BY <1>1, <1>2, <2>1, <2>2, ConsistentStays DEF Finished, PhaseOf
<1> QED
  BY <1>3, <1>4, <1>5, <1>6

LEMMA SameFields ==
  ASSUME TypeOK, NEW v \in VPSieNodes, NEW w \in VPSieNodes, Consistent(v),
         CreateVPSieNode(w) \/ DeleteVPSieNode(w) \/ AddFinalizer(w) \/ RemoveFinalizer(w)
  PROVE  Consistent(v)'
<1>1. UNCHANGED cache
  BY DEF CreateVPSieNode, DeleteVPSieNode, AddFinalizer, RemoveFinalizer
<1>2. server'[v].spec = server[v].spec /\ server'[v].status = server[v].status
  BY FieldTypes
     DEF CreateVPSieNode, DeleteVPSieNode, AddFinalizer, RemoveFinalizer,
         TypeOK, Objects
<1> QED
  BY <1>1, <1>2, ConsistentStays

LEMMA ReconcileConsistent ==
  ASSUME TypeOK, Identified, NEW v \in VPSieNodes, Consistent(v), Reconcile(v)
  PROVE  Consistent(v)'
<1>1. ASSUME NEW p \in Phases, NEW q, Handling(v, q), MoveTo(v, p), UNCHANGED cache,
             p # q, p \in HostKnown => q \in HostKnown
      PROVE  Consistent(v)'
  BY <1>1, MoveConsistent DEF Handling, PhaseOf
<1>2. CASE AddFinalizer(v) \/ RemoveFinalizer(v) \/ HandleFailed(v)
  BY <1>2, SameFields DEF HandleFailed
<1>3. CASE \/ InitializePhase(v) \/ HandlePending(v) \/ ProvisioningTimeout(v)
           \/ CreateVPSRejected(v) \/ HandleProvisioned(v) \/ JoiningTimeout(v)
  BY <1>1, <1>3
     DEF InitializePhase, HandlePending, ProvisioningTimeout, CreateVPSRejected,
         HandleProvisioned, JoiningTimeout, MustCreate, Provisioning, Phases,
         HostKnown
<1>4. ASSUME NEW m \in Machines, NEW answer \in Answers, NEW h \in {m, None},
             NEW out, CreateVPS(v, m, answer, h, out)
      PROVE  Consistent(v)'
  BY <1>4, CreateConsistent
<1>5. ASSUME NEW m, NEW up, NEW out,
             DiscoverUnclaimed(v, m, up, out) \/ DiscoverVM(v, m, up, out)
      PROVE  FALSE
  BY <1>5
     DEF DiscoverUnclaimed, DiscoverVM, Discovering, Consistent, OneMachineOnly
<1>6. ASSUME NEW out, CheckVPSStatus(v, out) \/ CheckJoinStatus(v, out)
      PROVE  Consistent(v)'
  BY <1>6, CheckVPSStatusConsistent, CheckJoinStatusConsistent
<1>7. ASSUME NEW out,
             \/ BeginTermination(v) \/ DrainAndDelete(v, out)
             \/ DeleteVPSExhausted(v) \/ SkipVPSDeletion(v, out)
             \/ DeleteVPS(v, out)
      PROVE  Consistent(v)'
  BY <1>7, DeletionConsistent
<1> QED
  BY <1>2, <1>3, <1>4, <1>5, <1>6, <1>7 DEF Reconcile, Advance

LEMMA ConsistentStep ==
  ASSUME TypeOK, Identified, [Next]_vars, NEW v \in VPSieNodes, Consistent(v)
  PROVE  Consistent(v)'
<1>1. CASE UNCHANGED <<server, cache>>
  BY <1>1, ConsistentStays
<1>2. ASSUME NEW w \in VPSieNodes, CreateVPSieNode(w) \/ DeleteVPSieNode(w)
      PROVE  Consistent(v)'
  BY <1>2, SameFields
<1>3. ASSUME NEW w \in VPSieNodes, Inform(w)
      PROVE  Consistent(v)'
  BY <1>3 DEF Inform, TypeOK, Consistent, KnowsLess
<1>4. ASSUME NEW w \in VPSieNodes, Reconcile(w)
      PROVE  Consistent(v)'
  <2>1. CASE w = v
    BY <1>4, <2>1, ReconcileConsistent
  <2>2. CASE w # v
    BY <1>4, <2>2, ReconcileEffect, ConsistentStays DEF Others
  <2> QED
    BY <2>1, <2>2
<1> QED
  BY <1>1, <1>2, <1>3, <1>4
     DEF vars, Next, Environment, Expire, InformNode, Boot, Vanish, Register,
         Unregister

LEMMA ConsistentInvariant == Identified => (Spec => []ConsistentInv)
<1> SUFFICES ASSUME Identified PROVE Spec => []ConsistentInv
  OBVIOUS
<1>1. Init => ConsistentInv
  <2>1. NoObject.status.phase \notin HostKnown
    BY DEF NoObject, HostKnown
  <2>2. OneMachineOnly(NoObject)
    BY <2>1 DEF OneMachineOnly, NoObject
  <2> QED
    BY <2>2 DEF Init, ConsistentInv, Consistent, KnowsLess
<1>2. TypeOK /\ ConsistentInv /\ [Next]_vars => ConsistentInv'
  BY ConsistentStep DEF ConsistentInv
<1> QED
  BY <1>1, <1>2, TypeCorrect, PTL DEF Spec

\* While the provider names the machine in its answer, the Node that is drained
\* for a VPSieNode is the one whose machine its deletion looks up, whatever
\* updates are rejected, repeated or lost (joiner.go findKubernetesNode,
\* provisioner.go Delete).
THEOREM DrainsWhatItDeletes == Identified => (Spec => []DrainedIsDeleted)
<1> SUFFICES ASSUME Identified PROVE Spec => []DrainedIsDeleted
  OBVIOUS
<1>1. ConsistentInv => DrainedIsDeleted
  BY DEF ConsistentInv, Consistent, OneMachineOnly, DrainedIsDeleted, Hostname
<1> QED
  BY <1>1, ConsistentInvariant, PTL

-----------------------------------------------------------------------------
(* Several VPSieNodes do not share machines.  The machine that an object,   *)
(* or a copy of it however stale, refers to was built for its own request,  *)
(* and a machine is built once.                                             *)

OwnMachine(v) ==
  \A o \in {server[v], cache[v]} :
    /\ o.spec.ident \in {None, o.spec.id}
    /\ o.spec.id # None => requester[o.spec.id] = v

BuiltOnce == \A m \in Machines : requester[m] # None => vps[m] # "free"

OwnershipInv == BuiltOnce /\ \A v \in VPSieNodes : OwnMachine(v)

RequestersStay == \A m \in Machines : requester[m] # None => requester'[m] = requester[m]

SameIds(v) ==
  /\ server'[v].spec.id = server[v].spec.id
  /\ server'[v].spec.ident = server[v].spec.ident

\* Requests take machines that are free, and nothing makes a machine free again.
LEMMA BuiltOnceStep ==
  ASSUME TypeOK, BuiltOnce, [Next]_vars
  PROVE  BuiltOnce' /\ RequestersStay
<1>1. ASSUME UNCHANGED requester,
             \A m \in Machines : vps[m] # "free" => vps'[m] # "free"
      PROVE  BuiltOnce' /\ RequestersStay
  BY <1>1 DEF BuiltOnce, RequestersStay
<1>2. CASE UNCHANGED <<requester, vps>>
  BY <1>1, <1>2
<1>3. CASE Environment
  BY <1>1, <1>3
     DEF Environment, CreateVPSieNode, DeleteVPSieNode, Inform, Expire, InformNode,
         Boot, Vanish, Register, Unregister, TypeOK
<1>4. ASSUME NEW v \in VPSieNodes, NEW n \in Machines, NEW answer, NEW h, NEW out,
             CreateVPS(v, n, answer, h, out)
      PROVE  BuiltOnce' /\ RequestersStay
  <2>1. /\ vps[n] = "free" /\ vps' = [vps EXCEPT ![n] = "building"]
        /\ requester' = [requester EXCEPT ![n] = v]
    BY <1>4 DEF CreateVPS
  <2> QED
    BY <2>1 DEF BuiltOnce, RequestersStay, TypeOK
<1>5. ASSUME NEW v \in VPSieNodes, NEW out,
             DeleteVPS(v, out) \/ DeleteVPSExhausted(v)
      PROVE  BuiltOnce' /\ RequestersStay
  BY <1>1, <1>5 DEF DeleteVPS, DeleteVPSExhausted, TypeOK
<1>6. ASSUME NEW v \in VPSieNodes, Reconcile(v)
      PROVE  BuiltOnce' /\ RequestersStay
  <2>1. CASE Advance(v)
    BY <1>2, <2>1
       DEF Advance, AddFinalizer, InitializePhase, HandlePending,
           ProvisioningTimeout, HandleProvisioned, JoiningTimeout,
           BeginTermination, DrainAndDelete, RemoveFinalizer
  <2>2. CASE CreateVPSRejected(v) \/ HandleFailed(v)
    BY <1>2, <2>2 DEF CreateVPSRejected, HandleFailed, DeleteVPSieNode
  <2>3. ASSUME NEW n, NEW out, NEW up,
               DiscoverUnclaimed(v, n, up, out) \/ DiscoverVM(v, n, up, out)
        PROVE  BuiltOnce' /\ RequestersStay
    BY <1>2, <2>3 DEF DiscoverUnclaimed, DiscoverVM
  <2>4. ASSUME NEW out,
               \/ CheckVPSStatus(v, out) \/ CheckJoinStatus(v, out)
               \/ DrainAndDelete(v, out) \/ SkipVPSDeletion(v, out)
        PROVE  BuiltOnce' /\ RequestersStay
    BY <1>2, <2>4
       DEF CheckVPSStatus, CheckJoinStatus, DrainAndDelete, SkipVPSDeletion
  <2> QED
    BY <1>4, <1>5, <1>6, <2>1, <2>2, <2>3, <2>4 DEF Reconcile
<1>7. CASE UNCHANGED vars
  BY <1>2, <1>7 DEF vars
<1> QED
  BY <1>3, <1>6, <1>7 DEF Next

LEMMA OwnMachineStays ==
  ASSUME TypeOK, NEW v \in VPSieNodes, OwnMachine(v), RequestersStay,
         cache'[v] = cache[v], SameIds(v)
  PROVE  OwnMachine(v)'
<1>1. /\ server[v].spec.id \in Machines \cup {None}
      /\ cache[v].spec.id \in Machines \cup {None}
  BY FieldTypes DEF SpecFields
<1>2. v # None
  BY ConstantsAssumption
<1> QED
  BY <1>1, <1>2 DEF OwnMachine, SameIds, RequestersStay

\* A write of a spec whose identifiers are those that were read.
LEMMA CommitIds ==
  ASSUME TypeOK, NEW v \in VPSieNodes, NEW spec, NEW status, NEW out,
         Commit(v, spec, status, out),
         spec.id = cache[v].spec.id, spec.ident = cache[v].spec.ident
  PROVE  SameIds(v)
<1>1. CASE UNCHANGED server
  BY <1>1 DEF SameIds
<1>2. CASE Fresh(v) /\ server' = [server EXCEPT
                           ![v].spec = spec,
                           ![v].status = IF out = "all" THEN status ELSE @]
  <2>1. server'[v].spec = spec
    BY <1>2, FieldTypes DEF TypeOK, Objects
  <2> QED
    BY <1>2, <2>1 DEF SameIds, Fresh
<1>3. CASE PatchStatus(v, status)
  <2>1. server'[v].spec = server[v].spec
    BY <1>3, FieldTypes DEF PatchStatus, TypeOK, Objects
  <2> QED
    BY <2>1 DEF SameIds
<1> QED
  BY <1>1, <1>2, <1>3 DEF Commit

LEMMA CreateOwn ==
  ASSUME TypeOK, Identified, NEW v \in VPSieNodes, OwnMachine(v), RequestersStay,
         NEW m \in Machines, NEW answer \in Answers, NEW h \in {m, None}, NEW out,
         CreateVPS(v, m, answer, h, out)
  PROVE  OwnMachine(v)'
<1> DEFINE spec == AfterCreate(cache[v].spec, m, answer, h)
           status == [cache[v].status EXCEPT !.host = h]
<1>1. /\ cache[v].spec.id = None /\ cache' = cache
      /\ requester' = [requester EXCEPT ![m] = v]
      /\ Commit(v, spec, status, out)
  BY DEF CreateVPS, MustCreate, Identified
<1>2. cache[v].spec.ident = None
  BY <1>1 DEF OwnMachine
<1>3. spec.id = m /\ spec.ident \in {None, m}
  BY <1>2, FieldTypes DEF AfterCreate, SpecFields, Identified
<1>4. spec # cache[v].spec
  BY <1>1, <1>3, ConstantsAssumption
<1>5. CASE UNCHANGED server
  BY <1>1, <1>5, OwnMachineStays DEF SameIds
<1>6. CASE server' = [server EXCEPT
                           ![v].spec = spec,
                           ![v].status = IF out = "all" THEN status ELSE @]
  <2>1. server'[v].spec = spec
    BY <1>6, FieldTypes DEF TypeOK, Objects
  <2>2. requester'[m] = v
    BY <1>1 DEF TypeOK
  <2> HIDE DEF spec
  <2>3. server'[v].spec.id = m /\ server'[v].spec.ident \in {None, m}
    BY <1>3, <2>1
  <2>4. cache'[v].spec.id = None /\ cache'[v].spec.ident = None
    BY <1>1, <1>2
  <2> QED
    BY <2>2, <2>3, <2>4 DEF OwnMachine
<1> QED
  BY <1>1, <1>4, <1>5, <1>6 DEF Commit

LEMMA ReconcileIds ==
  ASSUME TypeOK, NEW v \in VPSieNodes, Consistent(v), Reconcile(v)
  PROVE  \/ SameIds(v)
         \/ \E m \in Machines, answer \in Answers, out \in Outcomes :
              \E h \in {m, None} : CreateVPS(v, m, answer, h, out)
<1>1. ASSUME NEW p \in Phases, MoveTo(v, p)
      PROVE  SameIds(v)
  BY <1>1, MoveToEffect DEF Patched, SameIds
<1>2. CASE AddFinalizer(v) \/ RemoveFinalizer(v) \/ HandleFailed(v)
  BY <1>2, FieldTypes
     DEF AddFinalizer, RemoveFinalizer, HandleFailed, DeleteVPSieNode, SameIds,
         TypeOK, Objects
<1>3. CASE \/ InitializePhase(v) \/ HandlePending(v) \/ ProvisioningTimeout(v)
           \/ CreateVPSRejected(v) \/ HandleProvisioned(v) \/ JoiningTimeout(v)
           \/ BeginTermination(v) \/ DeleteVPSExhausted(v)
  BY <1>1, <1>3
     DEF InitializePhase, HandlePending, ProvisioningTimeout, CreateVPSRejected,
         HandleProvisioned, JoiningTimeout, BeginTermination, DeleteVPSExhausted,
         Phases
<1>4. ASSUME NEW m, NEW up, NEW out,
             DiscoverUnclaimed(v, m, up, out) \/ DiscoverVM(v, m, up, out)
      PROVE  FALSE
  BY <1>4
     DEF DiscoverUnclaimed, DiscoverVM, Discovering, Consistent, OneMachineOnly
<1>5. ASSUME NEW out, CheckVPSStatus(v, out)
      PROVE  SameIds(v)
  <2>1. CASE MoveTo(v, "Failed")
    BY <1>1, <2>1 DEF Phases
  <2>2. ASSUME NEW status,
               Commit(v, [cache[v].spec EXCEPT !.ip = cache[v].spec.id], status, out)
        PROVE  SameIds(v)
    BY <2>2, CommitIds, FieldTypes DEF SpecFields
  <2> QED
    BY <1>5, <2>1, <2>2 DEF CheckVPSStatus
<1>6. ASSUME NEW out, CheckJoinStatus(v, out)
      PROVE  SameIds(v)
  <2> DEFINE spec == [cache[v].spec EXCEPT
                        !.name = IF @ = None THEN FindKubernetesNode(cache[v]) ELSE @]
  <2>1. spec.id = cache[v].spec.id /\ spec.ident = cache[v].spec.ident
    BY FieldTypes DEF SpecFields
  <2>2. PICK status : Commit(v, spec, status, out)
    BY <1>6 DEF CheckJoinStatus
  <2> QED
    BY <2>1, <2>2, CommitIds
<1>7. ASSUME NEW out, DrainAndDelete(v, out)
      PROVE  SameIds(v)
  BY <1>1, <1>7 DEF DrainAndDelete, Phases, SameIds
<1>8. ASSUME NEW out, SkipVPSDeletion(v, out) \/ DeleteVPS(v, out)
      PROVE  SameIds(v)
  BY <1>8, DeletionEffect DEF Released, Finished, SameIds
<1> QED
  BY <1>2, <1>3, <1>4, <1>5, <1>6, <1>7, <1>8 DEF Reconcile, Advance

LEMMA OwnershipStep ==
  ASSUME TypeOK, Identified, ConsistentInv, OwnershipInv, [Next]_vars
  PROVE  OwnershipInv'
<1>1. BuiltOnce' /\ RequestersStay
  BY BuiltOnceStep DEF OwnershipInv
<1> SUFFICES ASSUME NEW v \in VPSieNodes PROVE OwnMachine(v)'
  BY <1>1 DEF OwnershipInv
<1>2. OwnMachine(v) /\ Consistent(v)
  BY DEF OwnershipInv, ConsistentInv
<1>3. CASE UNCHANGED <<server, cache>>
  BY <1>1, <1>2, <1>3, OwnMachineStays DEF SameIds
<1>4. ASSUME NEW w \in VPSieNodes, CreateVPSieNode(w) \/ DeleteVPSieNode(w)
      PROVE  OwnMachine(v)'
  <2>1. PICK life : server' = [server EXCEPT ![w] = [server[w] EXCEPT !.life = life]]
    BY <1>4 DEF CreateVPSieNode, DeleteVPSieNode, TypeOK
  <2>2. server'[v].spec = server[v].spec
    BY <2>1, FieldTypes DEF TypeOK, Objects
  <2>3. UNCHANGED cache
    BY <1>4 DEF CreateVPSieNode, DeleteVPSieNode
  <2> QED
    BY <1>1, <1>2, <2>2, <2>3, OwnMachineStays DEF SameIds
<1>5. ASSUME NEW w \in VPSieNodes, Inform(w)
      PROVE  OwnMachine(v)'
  BY <1>2, <1>5 DEF Inform, TypeOK, OwnMachine
<1>6. ASSUME NEW w \in VPSieNodes, Reconcile(w)
      PROVE  OwnMachine(v)'
  <2>1. CASE w # v
    BY <1>1, <1>2, <1>6, <2>1, ReconcileEffect, OwnMachineStays DEF Others, SameIds
  <2>2. CASE w = v
    <3>1. UNCHANGED cache
      BY <1>6, ReconcileEffect
    <3>2. CASE SameIds(v)
      BY <1>1, <1>2, <3>1, <3>2, OwnMachineStays
    <3>3. ASSUME NEW m \in Machines, NEW answer \in Answers, NEW out \in Outcomes,
                 NEW h \in {m, None}, CreateVPS(v, m, answer, h, out)
          PROVE  OwnMachine(v)'
      BY <1>1, <1>2, <3>3, CreateOwn
    <3> QED
      BY <1>2, <1>6, <2>2, <3>2, <3>3, ReconcileIds
  <2> QED
    BY <2>1, <2>2
<1> QED
  BY <1>3, <1>4, <1>5, <1>6
     DEF vars, Next, Environment, Expire, InformNode, Boot, Vanish, Register,
         Unregister

LEMMA OwnershipInvariant == Identified => (Spec => []OwnershipInv)
<1> SUFFICES ASSUME Identified PROVE Spec => []OwnershipInv
  OBVIOUS
<1>1. Init => OwnershipInv
  <2>1. NoObject.spec.id = None /\ NoObject.spec.ident = None
    BY DEF NoObject
  <2> QED
    BY <2>1 DEF Init, OwnershipInv, BuiltOnce, OwnMachine
<1>2. TypeOK /\ ConsistentInv /\ OwnershipInv /\ [Next]_vars => OwnershipInv'
  BY OwnershipStep
<1> QED
  BY <1>1, <1>2, TypeCorrect, ConsistentInvariant, PTL DEF Spec

\* What an object refers to is the machine its own request built.
LEMMA RefersToOwn ==
  ASSUME OwnershipInv, ConsistentInv, NEW v \in VPSieNodes, NEW m \in Machines,
         RefersTo(server[v], m)
  PROVE  requester[m] = v
<1>1. m # None /\ m # OwnName
  BY ConstantsAssumption
<1>2. m = server[v].spec.id
  BY <1>1
     DEF RefersTo, OwnershipInv, OwnMachine, ConsistentInv, Consistent,
         OneMachineOnly
<1> QED
  BY <1>1, <1>2 DEF OwnershipInv, OwnMachine

\* No machine belongs to two VPSieNodes: none is drained, joined or deleted
\* on behalf of another one, whatever requests are repeated and whichever of
\* their records are lost (provisioner.go createVPS, joiner.go, terminator.go).
MachinesApart ==
  \A v, w \in VPSieNodes, m \in Machines :
    RefersTo(server[v], m) /\ RefersTo(server[w], m) => v = w

\* For any number of VPSieNodes and machines, while the provider's answer names
\* the machine (provisioner.go createVPS).
THEOREM MachinesNotShared == Identified => (Spec => []MachinesApart)
<1> SUFFICES ASSUME Identified PROVE Spec => []MachinesApart
  OBVIOUS
<1>1. OwnershipInv /\ ConsistentInv => MachinesApart
  BY RefersToOwn DEF MachinesApart
<1> QED
  BY <1>1, OwnershipInvariant, ConsistentInvariant, PTL

\* The controller deletes a machine only for the VPSieNode whose request built
\* it, and only while that one is being deleted (provisioner.go Delete).
DeletedByOwner ==
  [][\A m \in Machines \ Vanishing :
       vps[m] # "gone" /\ vps'[m] = "gone"
         => /\ requester[m] \in VPSieNodes
            /\ server[requester[m]].life \in {"deleting", "gone"}]_vars

\* The same hypothesis as for MachinesNotShared, any number of VPSieNodes.
THEOREM MachinesDeletedByOwner == Identified => (Spec => DeletedByOwner)
<1> SUFFICES ASSUME Identified PROVE Spec => DeletedByOwner
  OBVIOUS
<1>1. OwnershipInv /\ ConsistentInv
      /\ [\A m \in Machines \ Vanishing :
            vps[m] # "gone" /\ vps'[m] = "gone"
              => \E v \in VPSieNodes :
                   server[v].life \in {"deleting", "gone"}
                     /\ RefersTo(server[v], m)]_vars
      => [\A m \in Machines \ Vanishing :
            vps[m] # "gone" /\ vps'[m] = "gone"
              => /\ requester[m] \in VPSieNodes
                 /\ server[requester[m]].life \in {"deleting", "gone"}]_vars
  BY RefersToOwn
<1> QED
  BY <1>1, MachinesDeletedForAReason, OwnershipInvariant, ConsistentInvariant, PTL
     DEF DeletedForAReason, DeletedByOwner

=============================================================================
