---------------------------- MODULE ScaleUp_proofs ----------------------------
(***************************************************************************)
(* Theorems about ScaleUp, for any pods, replicas, templates and offers.   *)
(***************************************************************************)
EXTENDS ScaleUp, TLAPS


LEMMA InitType == Init => TypeOK
<1> SUFFICES ASSUME Init PROVE TypeOK
  OBVIOUS
<1>1. Existing = {}
  BY DEF Init, Existing
<1>2. nodeGroup \in [Existing -> NodeGroups]
  BY <1>1 DEF Init, Existing
<1>3. \A w \in Watchers : buffer[w] = <<>> /\ <<>> \in Seq(BOOLEAN) /\ Len(<<>>) = 0
  BY DEF Init
<1> QED BY <1>1, <1>2, <1>3, ConstantsAssumption DEF Init, TypeOK, Idle, Rounds

\* HandleScaleUp keeps the type of the round.
LEMMA HandleType ==
  ASSUME TypeOK, NEW w \in Watchers, Handle(w)
  PROVE  round' \in [Watchers -> Rounds]
<1>1. Pending \subseteq Pods
  BY DEF Pending
<1>2. Decisions(w, MatchingGroups(Pending)) \in SUBSET (Existing \X (1..MaxNodes))
  <2> SUFFICES ASSUME NEW h \in MatchingGroups(Pending), nodeGroup[h].desired < MaxNodes
               PROVE  h \in Existing /\ nodeGroup[h].desired + 1 \in 1..MaxNodes
    BY DEF Decisions
  <2>1. h \in Existing
    BY DEF MatchingGroups
  <2>2. nodeGroup[h].desired \in 0..MaxNodes
    BY <2>1 DEF TypeOK, NodeGroups
  <2> QED BY <2>1, <2>2, ConstantsAssumption
<1> DEFINE r == [step |-> IF MatchingGroups(Pending) = {} THEN "create" ELSE "execute",
                 pods |-> Pending, decisions |-> Decisions(w, MatchingGroups(Pending))]
<1>3. r \in Rounds /\ Idle \in Rounds
  BY <1>1, <1>2 DEF Rounds, Idle
<1>4. round' = [round EXCEPT ![w] = IF Pending = {} THEN Idle ELSE r]
  BY DEF Handle
<1> HIDE DEF r
<1> QED BY <1>3, <1>4 DEF TypeOK

\* Events that are appended, dropped or age leave a buffer of the right length.
LEMMA BufferType ==
  ASSUME NEW s \in Seq(BOOLEAN), Len(s) <= BufferSize
  PROVE  /\ Append(IF Len(s) >= BufferSize THEN Tail(s) ELSE s, TRUE) \in Seq(BOOLEAN)
         /\ Len(Append(IF Len(s) >= BufferSize THEN Tail(s) ELSE s, TRUE)) <= BufferSize
<1>1. CASE Len(s) >= BufferSize
  <2>1. s # <<>> /\ Len(s) = BufferSize
    BY <1>1, ConstantsAssumption
  <2>2. Tail(s) \in Seq(BOOLEAN) /\ Len(Tail(s)) = Len(s) - 1
    BY <2>1
  <2> QED BY <1>1, <2>1, <2>2, ConstantsAssumption
<1>2. CASE ~ Len(s) >= BufferSize
  BY <1>2, ConstantsAssumption
<1> QED BY <1>1, <1>2

LEMMA AgeType ==
  ASSUME NEW s \in Seq(BOOLEAN), NEW n \in Nat
  PROVE  /\ [i \in DOMAIN s |-> s[i] /\ i > n] \in Seq(BOOLEAN)
         /\ Len([i \in DOMAIN s |-> s[i] /\ i > n]) = Len(s)
<1> DEFINE a == [i \in DOMAIN s |-> s[i] /\ i > n]
<1>1. DOMAIN s = 1..Len(s) /\ Len(s) \in Nat
  OBVIOUS
<1>2. a \in [1..Len(s) -> BOOLEAN]
  BY <1>1
<1>3. a \in Seq(BOOLEAN) /\ Len(a) = Len(s)
  BY <1>1, <1>2
<1> QED BY <1>3

LEMMA StepType == TypeOK /\ [Next]_vars => TypeOK'
<1> SUFFICES ASSUME TypeOK, [Next]_vars PROVE TypeOK'
  OBVIOUS
<1>0. ASSUME UNCHANGED nodeGroup
      PROVE  /\ nodeGroup' \in [Existing' -> NodeGroups] /\ Existing' \subseteq Groups
             /\ Existing' = Existing /\ Rounds' = Rounds
  BY <1>0 DEF TypeOK, Existing, Rounds
<1>1. ASSUME NEW w \in Watchers, NEW p \in Pods, HandleEvent(w, p) PROVE TypeOK'
  <2>1. buffer' \in [Watchers -> Seq(BOOLEAN)]
        /\ \A v \in Watchers : Len(buffer'[v]) <= BufferSize
    BY <1>1, BufferType DEF HandleEvent, TypeOK
  <2> QED BY <1>0, <1>1, <2>1 DEF HandleEvent, TypeOK
<1>2. ASSUME NEW w \in Watchers, NEW n \in 1..BufferSize, Age(w, n) PROVE TypeOK'
  <2>1. buffer' \in [Watchers -> Seq(BOOLEAN)]
        /\ \A v \in Watchers : Len(buffer'[v]) <= BufferSize
    <3>1. n \in Nat /\ buffer[w] \in Seq(BOOLEAN) /\ Len(buffer[w]) <= BufferSize
      BY ConstantsAssumption DEF TypeOK
    <3> DEFINE a == [i \in DOMAIN buffer[w] |-> buffer[w][i] /\ i > n]
    <3>2. a \in Seq(BOOLEAN) /\ Len(a) = Len(buffer[w])
      BY <3>1, AgeType
    <3>3. buffer' = [buffer EXCEPT ![w] = a]
      BY <1>2 DEF Age
    <3> HIDE DEF a
    <3> QED BY <3>1, <3>2, <3>3 DEF TypeOK
  <2> QED BY <1>0, <1>2, <2>1 DEF Age, TypeOK
<1>3. ASSUME NEW w \in Watchers, ProcessEvents(w) PROVE TypeOK'
  <2>1. buffer' \in [Watchers -> Seq(BOOLEAN)]
        /\ \A v \in Watchers : Len(buffer'[v]) <= BufferSize
    <3>1. <<>> \in Seq(BOOLEAN) /\ Len(<<>>) = 0
      OBVIOUS
    <3> QED BY <1>3, <3>1, ConstantsAssumption DEF ProcessEvents, TypeOK
  <2>2. round' \in [Watchers -> Rounds]
    BY <1>3, HandleType DEF ProcessEvents, TypeOK
  <2> QED BY <1>0, <1>3, <2>1, <2>2 DEF ProcessEvents, TypeOK
<1>4. ASSUME NEW w \in Watchers, CreateFails(w) \/ EndRound(w) PROVE TypeOK'
  <2>1. Idle \in Rounds
    BY DEF Idle, Rounds
  <2>2. round' = [round EXCEPT ![w] = Idle] /\ UNCHANGED <<place, buffer, cooling, nodeGroup>>
    BY <1>4 DEF CreateFails, EndRound
  <2>3. round' \in [Watchers -> Rounds]
    BY <2>1, <2>2 DEF TypeOK
  <2>4. Rounds' = Rounds
    BY <1>0, <2>2 DEF Rounds
  <2> QED BY <1>0, <2>2, <2>3, <2>4 DEF TypeOK
<1>5. ASSUME NEW w \in Watchers, NEW p \in Pods, NEW g \in Groups, CreateNodeGroup(w, p, g)
      PROVE  TypeOK'
  <2>1. PICK size \in Offers : nodeGroup' = Overlay(nodeGroup, [h \in {g} |->
         [pod |-> p, by |-> w, labels |-> NodeGroupSpec(p).labels,
          taints |-> NodeGroupSpec(p).taints, size |-> size, vpsie |-> FALSE,
          desired |-> 0, ready |-> 0, peak |-> 0]])
    <3>1. KubeSizes(p, UsedSizes) \cup FallbackSizes(p) \subseteq Offers
      BY ConstantsAssumption DEF KubeSizes, FallbackSizes, Cheapest
    <3> QED BY <1>5, <3>1 DEF CreateNodeGroup
  <2> DEFINE new == [pod |-> p, by |-> w, labels |-> NodeGroupSpec(p).labels,
          taints |-> NodeGroupSpec(p).taints, size |-> size, vpsie |-> FALSE,
          desired |-> 0, ready |-> 0, peak |-> 0]
  <2>2. new \in NodeGroups
    BY ConstantsAssumption DEF NodeGroups
  <2>3. nodeGroup' = [h \in Existing \cup {g} |-> IF h \in Existing THEN nodeGroup[h] ELSE new]
    BY <2>1 DEF Overlay, Existing
  <2> HIDE DEF new
  <2>4. Existing' = Existing \cup {g}
    BY <2>3 DEF Existing
  <2>5. nodeGroup' \in [Existing' -> NodeGroups] /\ Existing' \subseteq Groups
    BY <2>2, <2>3, <2>4 DEF TypeOK
  <2>6. place' \in [Pods -> {"away", "pending"} \cup Existing']
    BY <1>5, <2>4 DEF TypeOK, CreateNodeGroup
  <2>7. round' \in [Watchers -> Rounds']
    <3>1. Rounds \subseteq Rounds'
      BY <2>4 DEF Rounds
    <3>2. <<g, 1>> \in Existing' \X (1..MaxNodes)
      BY <2>4, ConstantsAssumption
    <3>3. round \in [Watchers -> Rounds']
      BY <3>1 DEF TypeOK
    <3> DEFINE D == IF /\ g \notin cooling[w]
                       /\ \E q \in round[w].pods : Matches(q, NodeGroupSpec(p))
                    THEN {<<g, 1>>} ELSE {}
    <3>4. [step |-> "execute", pods |-> {}, decisions |-> D] \in Rounds'
      BY <3>2 DEF Rounds
    <3>5. round' = [round EXCEPT ![w] = [step |-> "execute", pods |-> {}, decisions |-> D]]
      BY <1>5 DEF CreateNodeGroup
    <3> HIDE DEF D
    <3> QED BY <3>3, <3>4, <3>5
  <2> QED BY <1>5, <2>5, <2>6, <2>7 DEF TypeOK, CreateNodeGroup
<1>6. ASSUME NEW w \in Watchers, NEW d \in round[w].decisions,
             ExecuteScaleUp(w, d) \/ ExecuteFails(w, d) PROVE TypeOK'
  <2>1. d[1] \in Existing /\ d[2] \in 1..MaxNodes
    BY DEF TypeOK, Rounds
  <2>2. nodeGroup' \in [Existing -> NodeGroups] /\ Existing' = Existing
    <3>1. CASE ExecuteFails(w, d)
      BY <1>0, <3>1 DEF ExecuteFails
    <3>2. CASE ExecuteScaleUp(w, d)
      <4>1. nodeGroup' = [nodeGroup EXCEPT ![d[1]].desired = IF @ >= d[2] THEN @ ELSE d[2]]
        BY <3>2 DEF ExecuteScaleUp
      <4>2. nodeGroup \in [Existing -> NodeGroups]
        BY DEF TypeOK
      <4>3. d[2] \in 0..MaxNodes
        BY <2>1, ConstantsAssumption
      <4>4. nodeGroup' \in [Existing -> NodeGroups]
        BY <2>1, <4>1, <4>2, <4>3 DEF NodeGroups
      <4>5. DOMAIN nodeGroup' = DOMAIN nodeGroup
        BY <4>1
      <4> QED BY <4>4, <4>5 DEF Existing
    <3> QED BY <1>6, <3>1, <3>2
  <2>3. round' \in [Watchers -> Rounds]
    <3>1. [round[w] EXCEPT !.decisions = @ \ {d}] \in Rounds
      BY DEF TypeOK, Rounds
    <3>2. round' = [round EXCEPT ![w] = [round[w] EXCEPT !.decisions = @ \ {d}]]
      BY <1>6 DEF ExecuteScaleUp, ExecuteFails, Done
    <3> QED BY <3>1, <3>2 DEF TypeOK
  <2>4. cooling' \in [Watchers -> SUBSET Groups]
    <3>1. d[1] \in Groups
      BY <2>1 DEF TypeOK
    <3>2. CASE UNCHANGED cooling
      BY <3>2 DEF TypeOK
    <3>3. CASE cooling' = [cooling EXCEPT ![w] = @ \cup {d[1]}]
      BY <3>1, <3>3 DEF TypeOK
    <3> QED BY <1>6, <3>2, <3>3 DEF ExecuteScaleUp, ExecuteFails
  <2>6. Rounds' = Rounds
    BY <2>2 DEF Rounds
  <2>5. UNCHANGED <<place, buffer>>
    BY <1>6 DEF ExecuteScaleUp, ExecuteFails
  <2> QED BY <2>2, <2>3, <2>4, <2>5, <2>6 DEF TypeOK
<1>7. ASSUME NEW w \in Watchers, NEW g \in Groups, Expire(w, g) PROVE TypeOK'
  BY <1>0, <1>7 DEF Expire, TypeOK
<1>8. ASSUME NEW g \in Existing,
             \/ EnsureVPSieNodeGroup(g) \/ RaiseToMinimum(g) \/ NodeReady(g) \/ NodeLost(g)
             \/ \E n \in MinNodes..MaxNodes : LowerDesired(g, n)
      PROVE  TypeOK'
  <2>1. nodeGroup' \in [Existing -> NodeGroups]
    <3>1. nodeGroup \in [Existing -> NodeGroups] /\ nodeGroup[g] \in NodeGroups
      BY DEF TypeOK
    <3>2. ASSUME NEW new \in NodeGroups, nodeGroup' = [nodeGroup EXCEPT ![g] = new]
          PROVE  nodeGroup' \in [Existing -> NodeGroups]
      BY <3>1, <3>2
    <3>3. CASE EnsureVPSieNodeGroup(g)
      <4>1. [nodeGroup[g] EXCEPT !.vpsie = TRUE] \in NodeGroups
        BY <3>1 DEF NodeGroups
      <4> QED BY <3>2, <3>3, <4>1 DEF EnsureVPSieNodeGroup
    <3>4. CASE RaiseToMinimum(g)
      <4>1. [nodeGroup[g] EXCEPT !.desired = MinNodes] \in NodeGroups
        BY <3>1, ConstantsAssumption DEF NodeGroups
      <4> QED BY <3>2, <3>4, <4>1 DEF RaiseToMinimum
    <3>5. CASE NodeReady(g)
      <4> DEFINE count == nodeGroup[g].ready + 1
                 new == [nodeGroup[g] EXCEPT !.ready = count,
                           !.peak = IF nodeGroup[g].peak < count THEN count ELSE nodeGroup[g].peak]
      <4>1. count \in 0..MaxNodes
        BY <3>1, <3>5, ConstantsAssumption DEF NodeReady, NodeGroups
      <4>2. new \in NodeGroups
        BY <3>1, <4>1 DEF NodeGroups
      <4>3. nodeGroup' = [nodeGroup EXCEPT ![g] = new]
        BY <3>5 DEF NodeReady
      <4> HIDE DEF new
      <4> QED BY <3>2, <4>2, <4>3
    <3>6. ASSUME NEW n \in MinNodes..MaxNodes, LowerDesired(g, n)
          PROVE  nodeGroup' \in [Existing -> NodeGroups]
      <4>1. [nodeGroup[g] EXCEPT !.desired = n] \in NodeGroups
        BY <3>1, ConstantsAssumption DEF NodeGroups
      <4> QED BY <3>2, <3>6, <4>1 DEF LowerDesired
    <3>7. CASE NodeLost(g)
      <4>1. nodeGroup[g].ready - 1 \in 0..MaxNodes
        BY <3>1, <3>7, ConstantsAssumption DEF NodeLost, NodeGroups
      <4>2. [nodeGroup[g] EXCEPT !.ready = @ - 1] \in NodeGroups
        BY <3>1, <4>1 DEF NodeGroups
      <4> QED BY <3>2, <3>7, <4>2 DEF NodeLost
    <3> QED BY <1>8, <3>3, <3>4, <3>5, <3>6, <3>7
  <2>2. Existing' = Existing
    BY <1>8 DEF EnsureVPSieNodeGroup, RaiseToMinimum, NodeReady, LowerDesired, NodeLost, Existing
  <2>3. UNCHANGED <<buffer, round, cooling>>
    BY <1>8 DEF EnsureVPSieNodeGroup, RaiseToMinimum, NodeReady, LowerDesired, NodeLost
  <2>5. place' \in [Pods -> {"away", "pending"} \cup Existing]
    <3>1. place \in [Pods -> {"away", "pending"} \cup Existing]
      BY DEF TypeOK
    <3>2. CASE NodeLost(g)
      BY <3>1, <3>2 DEF NodeLost, On
    <3>3. CASE UNCHANGED place
      BY <3>1, <3>3
    <3> QED BY <1>8, <3>2, <3>3 DEF EnsureVPSieNodeGroup, RaiseToMinimum, NodeReady, LowerDesired
  <2>4. Rounds' = Rounds
    BY <2>2 DEF Rounds
  <2> QED BY <2>1, <2>2, <2>3, <2>4, <2>5 DEF TypeOK
<1>9. ASSUME NEW p \in Pods, Arrive(p) \/ Leave(p) PROVE TypeOK'
  BY <1>0, <1>9 DEF Arrive, Leave, Move, TypeOK
<1>10. ASSUME NEW p \in Pods, NEW g \in Existing, Schedule(p, g) PROVE TypeOK'
  BY <1>0, <1>10 DEF Schedule, Move, TypeOK
<1>11. CASE UNCHANGED vars
  BY <1>0, <1>11 DEF vars, TypeOK
<1> QED BY <1>1, <1>2, <1>3, <1>4, <1>5, <1>6, <1>7, <1>8, <1>9, <1>10, <1>11
        DEF Next, Watcher

\* Rounds refer to NodeGroups there are, and counts stay within the maximum, for any
\* pods, replicas and templates.
THEOREM TypeCorrect == Spec => []TypeOK
  BY InitType, StepType, PTL DEF Spec

-----------------------------------------------------------------------------
(* What a step does to the NodeGroups.                                     *)

\* Who has created a NodeGroup, for whom and how, never changes; another one comes
\* only by CreateNodeGroup.
LEMMA GroupsKept ==
  ASSUME TypeOK, [Next]_vars,
         ~ \E w \in Watchers, p \in Pods, g \in Groups : CreateNodeGroup(w, p, g)
  PROVE  /\ Existing' = Existing
         /\ \A g \in Existing :
              /\ nodeGroup'[g].pod = nodeGroup[g].pod /\ nodeGroup'[g].by = nodeGroup[g].by
              /\ nodeGroup'[g].labels = nodeGroup[g].labels
              /\ nodeGroup'[g].taints = nodeGroup[g].taints
              /\ nodeGroup'[g].peak >= nodeGroup[g].peak
<1> DEFINE Kept ==
      /\ Existing' = Existing
      /\ \A g \in Existing :
           /\ nodeGroup'[g].pod = nodeGroup[g].pod /\ nodeGroup'[g].by = nodeGroup[g].by
           /\ nodeGroup'[g].labels = nodeGroup[g].labels
           /\ nodeGroup'[g].taints = nodeGroup[g].taints
           /\ nodeGroup'[g].peak >= nodeGroup[g].peak
<1>0. \A g \in Existing : nodeGroup[g] \in NodeGroups /\ nodeGroup[g].peak \in 0..MaxNodes
  BY DEF TypeOK, NodeGroups
<1>1. CASE UNCHANGED nodeGroup
  BY <1>0, <1>1, ConstantsAssumption DEF Existing
<1>u. ASSUME NEW h \in Existing, NEW new, nodeGroup' = [nodeGroup EXCEPT ![h] = new],
             new.pod = nodeGroup[h].pod, new.by = nodeGroup[h].by,
             new.labels = nodeGroup[h].labels, new.taints = nodeGroup[h].taints,
             new.peak >= nodeGroup[h].peak
      PROVE  Kept
  <2>1. \A g \in Existing : nodeGroup'[g] = IF g = h THEN new ELSE nodeGroup[g]
    BY <1>u DEF Existing
  <2>2. Existing' = Existing
    BY <1>u DEF Existing
  <2> QED BY <1>0, <1>u, <2>1, <2>2, ConstantsAssumption
<1>2. ASSUME NEW h \in Existing, NEW n \in 0..MaxNodes,
             nodeGroup' = [nodeGroup EXCEPT ![h].desired = n] PROVE Kept
  <2> DEFINE new == [nodeGroup[h] EXCEPT !.desired = n]
  <2>1. /\ new.pod = nodeGroup[h].pod /\ new.by = nodeGroup[h].by
        /\ new.labels = nodeGroup[h].labels /\ new.taints = nodeGroup[h].taints
        /\ new.peak = nodeGroup[h].peak
    BY <1>0 DEF NodeGroups
  <2>2. nodeGroup' = [nodeGroup EXCEPT ![h] = new]
    BY <1>2
  <2> HIDE DEF new
  <2>3. new.peak >= nodeGroup[h].peak
    BY <1>0, <2>1, ConstantsAssumption
  <2> QED BY <1>u, <2>1, <2>2, <2>3, Zenon
<1>3. ASSUME NEW h \in Existing, nodeGroup' = [nodeGroup EXCEPT ![h].vpsie = TRUE] PROVE Kept
  <2> DEFINE new == [nodeGroup[h] EXCEPT !.vpsie = TRUE]
  <2>1. /\ new.pod = nodeGroup[h].pod /\ new.by = nodeGroup[h].by
        /\ new.labels = nodeGroup[h].labels /\ new.taints = nodeGroup[h].taints
        /\ new.peak = nodeGroup[h].peak
    BY <1>0 DEF NodeGroups
  <2>2. nodeGroup' = [nodeGroup EXCEPT ![h] = new]
    BY <1>3
  <2> HIDE DEF new
  <2>3. new.peak >= nodeGroup[h].peak
    BY <1>0, <2>1, ConstantsAssumption
  <2> QED BY <1>u, <2>1, <2>2, <2>3, Zenon
<1>4. ASSUME NEW h \in Existing, NodeReady(h) PROVE Kept
  <2> DEFINE count == nodeGroup[h].ready + 1
             new == [nodeGroup[h] EXCEPT !.ready = count,
                       !.peak = IF nodeGroup[h].peak < count THEN count ELSE nodeGroup[h].peak]
  <2>1. /\ new.pod = nodeGroup[h].pod /\ new.by = nodeGroup[h].by
        /\ new.labels = nodeGroup[h].labels /\ new.taints = nodeGroup[h].taints
        /\ new.peak = IF nodeGroup[h].peak < count THEN count ELSE nodeGroup[h].peak
    BY <1>0 DEF NodeGroups
  <2>2. nodeGroup' = [nodeGroup EXCEPT ![h] = new]
    BY <1>4 DEF NodeReady
  <2>4. count \in Nat
    BY ConstantsAssumption DEF TypeOK, NodeGroups
  <2> HIDE DEF new, count
  <2>3. new.peak >= nodeGroup[h].peak
    BY <1>0, <2>1, <2>4, ConstantsAssumption
  <2> QED BY <1>u, <2>1, <2>2, <2>3, Zenon
<1>9. ASSUME NEW h \in Existing, NodeLost(h) PROVE Kept
  <2> DEFINE new == [nodeGroup[h] EXCEPT !.ready = @ - 1]
  <2>1. /\ new.pod = nodeGroup[h].pod /\ new.by = nodeGroup[h].by
        /\ new.labels = nodeGroup[h].labels /\ new.taints = nodeGroup[h].taints
        /\ new.peak = nodeGroup[h].peak
    BY <1>0 DEF NodeGroups
  <2>2. nodeGroup' = [nodeGroup EXCEPT ![h] = new]
    BY <1>9 DEF NodeLost
  <2> HIDE DEF new
  <2>3. new.peak >= nodeGroup[h].peak
    BY <1>0, <2>1, ConstantsAssumption
  <2> QED BY <1>u, <2>1, <2>2, <2>3, Zenon
<1>5. ASSUME NEW w \in Watchers, NEW d \in round[w].decisions, ExecuteScaleUp(w, d) PROVE Kept
  <2>1. d[1] \in Existing /\ d[2] \in 0..MaxNodes
    BY ConstantsAssumption DEF TypeOK, Rounds
  <2>2. (IF nodeGroup[d[1]].desired >= d[2] THEN nodeGroup[d[1]].desired ELSE d[2]) \in 0..MaxNodes
    BY <1>0, <2>1 DEF NodeGroups
  <2>3. nodeGroup' = [nodeGroup EXCEPT ![d[1]].desired =
          IF nodeGroup[d[1]].desired >= d[2] THEN nodeGroup[d[1]].desired ELSE d[2]]
    BY <1>5, <2>1 DEF ExecuteScaleUp
  <2> QED BY <1>2, <2>1, <2>2, <2>3
<1>6. ASSUME NEW h \in Existing, EnsureVPSieNodeGroup(h) \/ RaiseToMinimum(h) PROVE Kept
  BY <1>2, <1>3, <1>6, ConstantsAssumption DEF EnsureVPSieNodeGroup, RaiseToMinimum
<1>10. ASSUME NEW h \in Existing, NEW n \in MinNodes..MaxNodes, LowerDesired(h, n) PROVE Kept
  <2>1. n \in 0..MaxNodes /\ nodeGroup' = [nodeGroup EXCEPT ![h].desired = n]
    BY <1>10, ConstantsAssumption DEF LowerDesired
  <2> QED BY <1>2, <2>1
<1>7. ASSUME NEW w \in Watchers, Watcher(w) PROVE Kept
  <2>1. CASE \E d \in round[w].decisions : ExecuteScaleUp(w, d)
    BY <1>5, <2>1
  <2>2. CASE ~ \E d \in round[w].decisions : ExecuteScaleUp(w, d)
    <3>1. UNCHANGED nodeGroup
      BY <1>7, <2>2 DEF Watcher, HandleEvent, Age, ProcessEvents, CreateFails, EndRound,
         ExecuteFails, Expire
    <3> QED BY <1>1, <3>1
  <2> QED BY <2>1, <2>2
<1>8. ASSUME NEW p \in Pods, Arrive(p) \/ Leave(p) \/ \E g \in Existing : Schedule(p, g)
      PROVE  Kept
  BY <1>1, <1>8 DEF Arrive, Leave, Schedule, Move
<1> QED BY <1>1, <1>4, <1>6, <1>7, <1>8, <1>9, <1>10 DEF Next, vars

-----------------------------------------------------------------------------
(* One NodeGroup per watcher and pod.                                      *)

\* A watcher that is about to create a NodeGroup has seen none that matches one of
\* its pods, and only it creates in its name.
CreationInv ==
  /\ OneNodeGroupPerWatcher
  /\ \A g \in Existing : nodeGroup[g].labels = NodeGroupSpec(nodeGroup[g].pod).labels
                         /\ nodeGroup[g].taints = NodeGroupSpec(nodeGroup[g].pod).taints
  /\ \A w \in Watchers : round[w].step = "create" =>
       \A g \in Existing : nodeGroup[g].by = w /\ Matches(nodeGroup[g].pod, nodeGroup[g])
                            => nodeGroup[g].pod \notin round[w].pods

\* Only ProcessEvents makes a watcher want to create a NodeGroup.
LEMMA CreateStarts ==
  ASSUME TypeOK, [Next]_vars, NEW w \in Watchers, round'[w].step = "create"
  PROVE  round'[w] = round[w] \/ (ProcessEvents(w) /\ Handle(w))
<1>1. ASSUME NEW v \in Watchers, Watcher(v) PROVE round'[w] = round[w] \/ (ProcessEvents(w) /\ Handle(w))
  <2>1. CASE ProcessEvents(v)
    BY <2>1 DEF ProcessEvents, Handle, TypeOK
  <2>2. CASE CreateFails(v) \/ EndRound(v)
    BY <2>2 DEF CreateFails, EndRound, TypeOK, Idle
  <2>3. ASSUME NEW p \in Pods, NEW g \in Groups, CreateNodeGroup(v, p, g)
        PROVE  round'[w] = round[w]
    BY <2>3 DEF CreateNodeGroup, TypeOK
  <2>4. ASSUME NEW d \in round[v].decisions, ExecuteScaleUp(v, d) \/ ExecuteFails(v, d)
        PROVE  round'[w] = round[w]
    <3>1. round[v].step = "execute" /\ Done(v, d)
      BY <2>4 DEF ExecuteScaleUp, ExecuteFails
    <3>2. CASE v = w
      BY <3>1, <3>2 DEF Done, TypeOK, Rounds
    <3>3. CASE v # w
      BY <3>1, <3>3 DEF Done, TypeOK
    <3> QED BY <3>2, <3>3
  <2>5. ASSUME UNCHANGED round PROVE round'[w] = round[w]
    BY <2>5
  <2> QED BY <1>1, <2>1, <2>2, <2>3, <2>4, <2>5 DEF Watcher, HandleEvent, Age, Expire
<1>2. CASE UNCHANGED round
  BY <1>2
<1> QED BY <1>1, <1>2 DEF Next, vars, EnsureVPSieNodeGroup, RaiseToMinimum, NodeReady,
        NodeLost, LowerDesired, Arrive, Leave, Schedule, Move

LEMMA StepCreation == TypeOK /\ CreationInv /\ [Next]_vars => CreationInv'
<1> SUFFICES ASSUME TypeOK, CreationInv, [Next]_vars PROVE CreationInv'
  OBVIOUS
<1>0. \A g \in Existing : nodeGroup[g].pod \in Pods /\ nodeGroup[g].by \in Watchers
  BY DEF TypeOK, NodeGroups
<1>b. ASSUME NEW w \in Watchers, ProcessEvents(w), Handle(w), round'[w].step = "create"
      PROVE  \A g \in Existing : Matches(nodeGroup[g].pod, nodeGroup[g])
                                  => nodeGroup[g].pod \notin round'[w].pods
  <2>1. round'[w] = IF Pending = {} THEN Idle
                    ELSE [step |-> IF MatchingGroups(Pending) = {} THEN "create" ELSE "execute",
                          pods |-> Pending, decisions |-> Decisions(w, MatchingGroups(Pending))]
    BY <1>b DEF Handle, TypeOK
  <2>2. MatchingGroups(Pending) = {} /\ round'[w].pods = Pending
    BY <1>b, <2>1 DEF Idle
  <2> QED BY <1>0, <2>2 DEF MatchingGroups
<1>1. ASSUME ~ \E w \in Watchers, p \in Pods, g \in Groups : CreateNodeGroup(w, p, g)
      PROVE  CreationInv'
  <2>1. /\ Existing' = Existing
        /\ \A g \in Existing :
             /\ nodeGroup'[g].pod = nodeGroup[g].pod /\ nodeGroup'[g].by = nodeGroup[g].by
             /\ nodeGroup'[g].labels = nodeGroup[g].labels
             /\ nodeGroup'[g].taints = nodeGroup[g].taints
    BY <1>1, GroupsKept
  <2>4. \A g \in Existing : Matches(nodeGroup'[g].pod, nodeGroup'[g])
                             = Matches(nodeGroup[g].pod, nodeGroup[g])
    BY <2>1 DEF Matches
  <2>2. OneNodeGroupPerWatcher'
    BY <2>1, <2>4 DEF CreationInv, OneNodeGroupPerWatcher
  <2>3. \A w \in Watchers : round'[w].step = "create" =>
          \A g \in Existing : nodeGroup[g].by = w /\ Matches(nodeGroup[g].pod, nodeGroup[g])
                               => nodeGroup[g].pod \notin round'[w].pods
    BY <1>b, CreateStarts DEF CreationInv
  <2> QED BY <2>1, <2>2, <2>3, <2>4 DEF CreationInv
<1>2. ASSUME NEW w \in Watchers, NEW p \in Pods, NEW g \in Groups, CreateNodeGroup(w, p, g)
      PROVE  CreationInv'
  <2>1. PICK new : /\ nodeGroup' = [h \in Existing \cup {g} |->
                         IF h \in Existing THEN nodeGroup[h] ELSE new]
                   /\ new.pod = p /\ new.by = w
                   /\ new.labels = NodeGroupSpec(p).labels
                   /\ new.taints = NodeGroupSpec(p).taints
    <3>1. PICK size : nodeGroup' = Overlay(nodeGroup, [h \in {g} |->
            [pod |-> p, by |-> w, labels |-> NodeGroupSpec(p).labels,
             taints |-> NodeGroupSpec(p).taints, size |-> size, vpsie |-> FALSE,
             desired |-> 0, ready |-> 0, peak |-> 0]])
      BY <1>2 DEF CreateNodeGroup
    <3> DEFINE new == [pod |-> p, by |-> w, labels |-> NodeGroupSpec(p).labels,
             taints |-> NodeGroupSpec(p).taints, size |-> size, vpsie |-> FALSE,
             desired |-> 0, ready |-> 0, peak |-> 0]
    <3>2. /\ new.pod = p /\ new.by = w /\ new.labels = NodeGroupSpec(p).labels
          /\ new.taints = NodeGroupSpec(p).taints
      OBVIOUS
    <3>3. nodeGroup' = Overlay(nodeGroup, [h \in {g} |-> new])
      BY <3>1
    <3> HIDE DEF new
    <3> QED BY <3>2, <3>3 DEF Overlay, Existing
  <2>2. /\ Existing' = Existing \cup {g} /\ g \notin Existing
        /\ nodeGroup'[g] = new /\ \A h \in Existing : nodeGroup'[h] = nodeGroup[h]
    BY <1>2, <2>1 DEF Existing, CreateNodeGroup
  <2>3. \A h \in Existing : ~ (/\ nodeGroup[h].by = w /\ nodeGroup[h].pod = p
                               /\ Matches(nodeGroup[h].pod, nodeGroup[h]))
    BY <1>2 DEF CreateNodeGroup, CreationInv
  <2>7. \A h \in Existing : nodeGroup[h].pod = p /\ Matches(p, new) => Matches(p, nodeGroup[h])
    BY <2>1 DEF CreationInv, Matches
  <2>8. \A h \in Existing : /\ nodeGroup'[h] = nodeGroup[h] /\ h # g
                            /\ Matches(nodeGroup'[h].pod, nodeGroup'[h])
                               = Matches(nodeGroup[h].pod, nodeGroup[h])
    BY <2>2
  <2>4. OneNodeGroupPerWatcher'
    <3> SUFFICES ASSUME NEW h \in Existing', NEW k \in Existing',
                        nodeGroup'[h].pod = nodeGroup'[k].pod, nodeGroup'[h].by = nodeGroup'[k].by,
                        Matches(nodeGroup'[h].pod, nodeGroup'[h])
                 PROVE  h = k
      BY DEF OneNodeGroupPerWatcher
    <3>1. CASE h \in Existing /\ k \in Existing
      BY <2>8, <3>1 DEF CreationInv, OneNodeGroupPerWatcher
    <3>2. CASE h \in Existing /\ k = g
      BY <2>1, <2>2, <2>3, <2>8, <3>2
    <3>3. CASE h = g /\ k \in Existing
      BY <2>1, <2>2, <2>3, <2>7, <2>8, <3>3
    <3> QED BY <2>2, <3>1, <3>2, <3>3
  <2>5. \A h \in Existing' : nodeGroup'[h].labels = NodeGroupSpec(nodeGroup'[h].pod).labels
                             /\ nodeGroup'[h].taints = NodeGroupSpec(nodeGroup'[h].pod).taints
    BY <2>1, <2>2 DEF CreationInv
  <2>6. ASSUME NEW v \in Watchers, round'[v].step = "create", NEW h \in Existing',
               nodeGroup'[h].by = v, Matches(nodeGroup'[h].pod, nodeGroup'[h])
        PROVE  nodeGroup'[h].pod \notin round'[v].pods
    <3>1. v # w /\ round'[v] = round[v]
      BY <1>2, <2>6 DEF CreateNodeGroup, TypeOK
    <3>2. h # g
      BY <2>1, <2>2, <2>6, <3>1
    <3> QED BY <2>2, <2>6, <3>1, <3>2 DEF CreationInv
  <2> QED BY <2>4, <2>5, <2>6 DEF CreationInv
<1> QED BY <1>1, <1>2

\* For any number of pods and replicas, and however their rounds interleave, no replica
\* creates two NodeGroups for one pod, unless what it creates does not match the pod.
THEOREM NoRepeatedCreation == Spec => []OneNodeGroupPerWatcher
<1>1. Init => CreationInv
  BY DEF Init, CreationInv, OneNodeGroupPerWatcher, Existing, Idle
<1>2. CreationInv => OneNodeGroupPerWatcher
  BY DEF CreationInv
<1> QED BY InitType, StepType, StepCreation, <1>1, <1>2, PTL DEF Spec

\* The taints that a NodeGroup created for p has on account of the toleration t.
Wish(t) == [key |-> t.key, value |-> IF t.op = "Equal" THEN t.value ELSE "", effect |-> t.effect]

\* Exactly when what is created for a pod matches it: the pod has a selector or the
\* template no labels; it tolerates the taints of the template; and of its tolerations
\* with a value, each that does not say "Equal" is helped out by another one.
THEOREM CreatedNodeGroupMatches ==
  ASSUME NEW p \in Pods
  PROVE  Matches(p, NodeGroupSpec(p))
         <=> /\ DOMAIN Selector[p] # {} \/ DOMAIN TemplateLabels = {}
             /\ Tolerates(p, TemplateTaints)
             /\ \A t \in Tolerations[p] :
                  \/ t.key = "" \/ t.key \in SystemKeys
                  \/ t.op \in {"Equal", "Exists"} \/ (t.op = "" /\ t.value = "")
                  \/ \E u \in Tolerations[p] \ {t} : ToleratesTaint(u, Wish(t))
<1>1. DOMAIN Selector[p] = {} => (DOMAIN NodeGroupSpec(p).labels = {} <=> DOMAIN TemplateLabels = {})
  BY DEF NodeGroupSpec, Overlay
<1>2. Selects(p, NodeGroupSpec(p).labels)
  BY DEF Selects, NodeGroupSpec, Overlay
<1>3. RequiredTaints(p) = {Wish(t) : t \in {u \in Tolerations[p] : u.key # "" /\ u.key \notin SystemKeys}}
  BY DEF RequiredTaints, Wish
<1>4. ASSUME NEW t \in Tolerations[p]
      PROVE  ToleratesTaint(t, Wish(t))
             <=> t.op \in {"Equal", "Exists"} \/ (t.op = "" /\ t.value = "")
  BY DEF ToleratesTaint, Wish
<1>5. Tolerates(p, NodeGroupSpec(p).taints)
      <=> Tolerates(p, TemplateTaints) /\ Tolerates(p, RequiredTaints(p))
  BY DEF Tolerates, NodeGroupSpec
<1>6. Tolerates(p, RequiredTaints(p))
      <=> \A t \in Tolerations[p] : \/ t.key = "" \/ t.key \in SystemKeys
                                    \/ \E u \in Tolerations[p] : ToleratesTaint(u, Wish(t))
  BY <1>3 DEF Tolerates
<1> QED BY <1>1, <1>2, <1>4, <1>5, <1>6 DEF Matches

-----------------------------------------------------------------------------
(* One node at a time.                                                     *)

\* A decision asks for one node more than were ready when it was made, and as many have
\* been ready once.
DecisionInv ==
  /\ \A g \in Existing : nodeGroup[g].ready <= nodeGroup[g].peak
  /\ \A w \in Watchers : \A d \in round[w].decisions : d[2] <= nodeGroup[d[1]].peak + 1

\* Where the decisions of a round come from.
LEMMA DecisionOrigin ==
  ASSUME TypeOK, [Next]_vars, NEW w \in Watchers, NEW d \in round'[w].decisions
  PROVE  \/ d \in round[w].decisions
         \/ d[1] \in Existing /\ nodeGroup[d[1]].desired <= nodeGroup[d[1]].ready
            /\ d[2] = nodeGroup[d[1]].desired + 1
         \/ \E p \in Pods : CreateNodeGroup(w, p, d[1]) /\ d = <<d[1], 1>> /\ d[1] \in Groups
<1> DEFINE Goal ==
      \/ d \in round[w].decisions
      \/ d[1] \in Existing /\ nodeGroup[d[1]].desired <= nodeGroup[d[1]].ready
         /\ d[2] = nodeGroup[d[1]].desired + 1
      \/ \E p \in Pods : CreateNodeGroup(w, p, d[1]) /\ d = <<d[1], 1>> /\ d[1] \in Groups
<1>1. ASSUME NEW v \in Watchers, Watcher(v) PROVE Goal
  <2>1. CASE ProcessEvents(v) /\ Handle(v) /\ v = w
    <3>1. round'[w] = IF Pending = {} THEN Idle
                    ELSE [step |-> IF MatchingGroups(Pending) = {} THEN "create" ELSE "execute",
                          pods |-> Pending, decisions |-> Decisions(w, MatchingGroups(Pending))]
      BY <2>1 DEF Handle, TypeOK
    <3>2. d \in Decisions(w, MatchingGroups(Pending))
      BY <3>1 DEF Idle
    <3> QED BY <3>2 DEF Decisions, MatchingGroups
  <2>2. CASE CreateFails(v) \/ EndRound(v)
    <3>1. round' = [round EXCEPT ![v] = Idle] /\ Idle.decisions = {}
      BY <2>2 DEF CreateFails, EndRound, Idle
    <3>2. v # w
      BY <3>1 DEF TypeOK
    <3> QED BY <3>1, <3>2 DEF TypeOK
  <2>3. ASSUME NEW p \in Pods, NEW g \in Groups, CreateNodeGroup(v, p, g) PROVE Goal
    <3>1. CASE v # w
      BY <2>3, <3>1 DEF CreateNodeGroup, TypeOK
    <3>2. CASE v = w
      <4>1. round'[w].decisions \subseteq {<<g, 1>>}
        BY <2>3, <3>2 DEF CreateNodeGroup, TypeOK
      <4>2. d = <<g, 1>> /\ d[1] = g
        BY <4>1
      <4> QED BY <2>3, <3>2, <4>2
    <3> QED BY <3>1, <3>2
  <2>4. ASSUME NEW e \in round[v].decisions, ExecuteScaleUp(v, e) \/ ExecuteFails(v, e)
        PROVE  Goal
    <3>1. Done(v, e)
      BY <2>4 DEF ExecuteScaleUp, ExecuteFails
    <3>2. round'[w].decisions \subseteq round[w].decisions
      <4>1. CASE v = w
        BY <3>1, <4>1 DEF Done, TypeOK, Rounds
      <4>2. CASE v # w
        BY <3>1, <4>2 DEF Done, TypeOK
      <4> QED BY <4>1, <4>2
    <3> QED BY <3>2
  <2>5. CASE UNCHANGED round
    BY <2>5
  <2>6. CASE ProcessEvents(v) /\ Handle(v) /\ v # w
    BY <2>6 DEF Handle, TypeOK
  <2> QED BY <1>1, <2>1, <2>2, <2>3, <2>4, <2>5, <2>6 DEF Watcher, HandleEvent, Age, Expire,
          ProcessEvents
<1>2. CASE UNCHANGED round
  BY <1>2
<1> QED BY <1>1, <1>2 DEF Next, vars, EnsureVPSieNodeGroup, RaiseToMinimum, NodeReady,
        NodeLost, LowerDesired, Arrive, Leave, Schedule, Move

\* The peak is not less than the count of the nodes that are ready.
LEMMA PeakKept ==
  ASSUME TypeOK, [Next]_vars, \A g \in Existing : nodeGroup[g].ready <= nodeGroup[g].peak,
         ~ \E w \in Watchers, p \in Pods, g \in Groups : CreateNodeGroup(w, p, g)
  PROVE  \A g \in Existing : nodeGroup'[g].ready <= nodeGroup'[g].peak
<1> SUFFICES ASSUME NEW g \in Existing PROVE nodeGroup'[g].ready <= nodeGroup'[g].peak
  OBVIOUS
<1> DEFINE Goal == nodeGroup'[g].ready <= nodeGroup'[g].peak
<1>a. nodeGroup \in [Existing -> NodeGroups] /\ nodeGroup[g] \in NodeGroups
  BY DEF TypeOK
<1>b. ASSUME NEW r \in NodeGroups PROVE r.ready \in Nat /\ r.peak \in Nat
  BY <1>b, ConstantsAssumption DEF NodeGroups
<1>0. /\ nodeGroup \in [Existing -> NodeGroups] /\ nodeGroup[g] \in NodeGroups
      /\ nodeGroup[g].ready \in Nat /\ nodeGroup[g].peak \in Nat
  BY <1>a, <1>b
<1>1. ASSUME NEW h \in Existing, NodeReady(h) PROVE Goal
  <2> DEFINE count == nodeGroup[h].ready + 1
             new == [nodeGroup[h] EXCEPT !.ready = count,
                       !.peak = IF nodeGroup[h].peak < count THEN count ELSE nodeGroup[h].peak]
  <2>0. nodeGroup[h] \in NodeGroups
    BY <1>a
  <2>1. count \in Nat /\ nodeGroup[h].peak \in Nat
    BY <1>b, <2>0
  <2>2. new.ready = count /\ new.peak = IF nodeGroup[h].peak < count THEN count ELSE nodeGroup[h].peak
    BY DEF TypeOK, NodeGroups
  <2>3. nodeGroup' = [nodeGroup EXCEPT ![h] = new]
    BY <1>1 DEF NodeReady
  <2> HIDE DEF new, count
  <2>4. new.ready <= new.peak
    BY <2>1, <2>2
  <2> QED BY <1>0, <2>3, <2>4
<1>2. ASSUME NEW h \in Existing, NodeLost(h) PROVE Goal
  <2>1. \/ nodeGroup'[g] = nodeGroup[g]
        \/ nodeGroup'[g] = [nodeGroup[g] EXCEPT !.ready = nodeGroup[g].ready - 1]
    BY <1>0, <1>2 DEF NodeLost
  <2>2. [nodeGroup[g] EXCEPT !.ready = nodeGroup[g].ready - 1].ready = nodeGroup[g].ready - 1
        /\ [nodeGroup[g] EXCEPT !.ready = nodeGroup[g].ready - 1].peak = nodeGroup[g].peak
    BY <1>0 DEF NodeGroups
  <2>3. nodeGroup[g].ready <= nodeGroup[g].peak /\ nodeGroup[g].ready - 1 <= nodeGroup[g].peak
    BY <1>0
  <2>4. CASE nodeGroup'[g] = nodeGroup[g]
    BY <2>3, <2>4
  <2>5. CASE nodeGroup'[g] = [nodeGroup[g] EXCEPT !.ready = nodeGroup[g].ready - 1]
    BY <2>2, <2>3, <2>5
  <2> QED BY <2>1, <2>4, <2>5
<1>3. ASSUME nodeGroup'[g].ready = nodeGroup[g].ready, nodeGroup'[g].peak = nodeGroup[g].peak
      PROVE  Goal
  BY <1>3
<1>4. ASSUME NEW h \in Existing,
             \/ EnsureVPSieNodeGroup(h) \/ RaiseToMinimum(h)
             \/ \E n \in MinNodes..MaxNodes : LowerDesired(h, n)
      PROVE  Goal
  <2>1. nodeGroup[h] \in NodeGroups /\ h \in DOMAIN nodeGroup
    BY DEF TypeOK, Existing
  <2>2. CASE EnsureVPSieNodeGroup(h)
    BY <1>0, <1>3, <2>1, <2>2 DEF EnsureVPSieNodeGroup, NodeGroups
  <2>3. ASSUME NEW n, nodeGroup' = [nodeGroup EXCEPT ![h].desired = n] PROVE Goal
    BY <1>0, <1>3, <2>1, <2>3 DEF NodeGroups
  <2> QED BY <1>4, <2>2, <2>3 DEF RaiseToMinimum, LowerDesired
<1>5. ASSUME NEW w \in Watchers, NEW d \in round[w].decisions, ExecuteScaleUp(w, d) PROVE Goal
  <2>1. d[1] \in Existing /\ nodeGroup[d[1]] \in NodeGroups
    BY DEF TypeOK, Rounds
  <2>2. PICK n : nodeGroup' = [nodeGroup EXCEPT ![d[1]].desired = n]
    BY <1>5 DEF ExecuteScaleUp
  <2> QED BY <1>0, <1>3, <2>1, <2>2 DEF NodeGroups
<1>6. CASE UNCHANGED nodeGroup
  BY <1>3, <1>6
<1>7. ASSUME NEW w \in Watchers, Watcher(w), ~ UNCHANGED nodeGroup PROVE Goal
  <2>1. \E d \in round[w].decisions : ExecuteScaleUp(w, d)
    BY <1>7 DEF Watcher, HandleEvent, Age, ProcessEvents, CreateFails, EndRound, ExecuteFails, Expire
  <2> QED BY <1>5, <2>1
<1> QED BY <1>1, <1>2, <1>4, <1>6, <1>7 DEF Next, vars, Arrive, Leave, Schedule, Move

LEMMA StepWay ==
  TypeOK /\ OneBeyondPeak /\ DecisionInv /\ [Next]_vars => (OneBeyondPeak /\ DecisionInv)'
<1> SUFFICES ASSUME TypeOK, OneBeyondPeak, DecisionInv, [Next]_vars
             PROVE  OneBeyondPeak' /\ DecisionInv'
  OBVIOUS
<1>0. \A g \in Existing : /\ nodeGroup[g].desired \in Nat /\ nodeGroup[g].ready \in Nat
                          /\ nodeGroup[g].peak \in Nat
  BY ConstantsAssumption DEF TypeOK, NodeGroups
<1>00. /\ TypeOK'
       /\ \A g \in Existing' : /\ nodeGroup'[g].desired \in Nat /\ nodeGroup'[g].ready \in Nat
                                /\ nodeGroup'[g].peak \in Nat
       /\ \A v \in Watchers : \A d \in round[v].decisions : d[1] \in Existing /\ d[2] \in Nat
  BY StepType, ConstantsAssumption DEF TypeOK, NodeGroups, Rounds
<1>1. CASE ~ \E w \in Watchers, p \in Pods, g \in Groups : CreateNodeGroup(w, p, g)
  <2>1. Existing' = Existing /\ \A g \in Existing : nodeGroup'[g].peak >= nodeGroup[g].peak
    BY <1>1, GroupsKept
  <2>2. ASSUME NEW w \in Watchers, NEW d \in round'[w].decisions
        PROVE  d[2] <= nodeGroup'[d[1]].peak + 1
    <3>1. \/ d \in round[w].decisions
          \/ d[1] \in Existing /\ nodeGroup[d[1]].desired <= nodeGroup[d[1]].ready
             /\ d[2] = nodeGroup[d[1]].desired + 1
      BY <1>1, DecisionOrigin
    <3>2. CASE d \in round[w].decisions
      BY <1>0, <1>00, <2>1, <3>2 DEF DecisionInv
    <3>3. CASE d[1] \in Existing /\ nodeGroup[d[1]].desired <= nodeGroup[d[1]].ready
               /\ d[2] = nodeGroup[d[1]].desired + 1
      BY <1>0, <1>00, <2>1, <3>3 DEF DecisionInv
    <3> QED BY <3>1, <3>2, <3>3
  <2>3. ASSUME NEW g \in Existing
        PROVE  nodeGroup'[g].desired <= nodeGroup'[g].peak + 1
               \/ nodeGroup'[g].desired <= MinNodes
    <3> DEFINE Goal == nodeGroup'[g].desired <= nodeGroup'[g].peak + 1
                       \/ nodeGroup'[g].desired <= MinNodes
    <3>1. ASSUME nodeGroup'[g].desired = nodeGroup[g].desired PROVE Goal
      BY <1>0, <1>00, <2>1, <3>1, ConstantsAssumption DEF OneBeyondPeak
    <3>2. ASSUME NEW w \in Watchers, NEW d \in round[w].decisions, ExecuteScaleUp(w, d)
          PROVE  Goal
      <4>1. nodeGroup'[g].desired = nodeGroup[g].desired
            \/ (d[1] = g /\ nodeGroup'[g].desired = d[2])
        <5>1. nodeGroup[g] \in NodeGroups /\ g \in DOMAIN nodeGroup
          BY DEF TypeOK, Existing
        <5>2. nodeGroup' = [nodeGroup EXCEPT ![d[1]].desired = IF @ >= d[2] THEN @ ELSE d[2]]
          BY <3>2 DEF ExecuteScaleUp
        <5>3. CASE d[1] = g
          BY <5>1, <5>2, <5>3 DEF NodeGroups
        <5>4. CASE d[1] # g
          BY <5>1, <5>2, <5>4
        <5> QED BY <5>3, <5>4
      <4>2. d[2] <= nodeGroup[d[1]].peak + 1
        BY DEF DecisionInv
      <4> QED BY <1>0, <1>00, <2>1, <3>1, <4>1, <4>2
    <3>3. ASSUME NEW h \in Existing, RaiseToMinimum(h) PROVE Goal
      <4>1. nodeGroup'[g].desired = nodeGroup[g].desired \/ nodeGroup'[g].desired = MinNodes
        BY <3>3 DEF RaiseToMinimum, TypeOK, NodeGroups, Existing
      <4> QED BY <3>1, <4>1, ConstantsAssumption
    <3>4. ASSUME NEW h \in Existing, EnsureVPSieNodeGroup(h) \/ NodeReady(h) PROVE Goal
      <4>1. nodeGroup'[g].desired = nodeGroup[g].desired
        <5>1. nodeGroup \in [Existing -> NodeGroups] /\ nodeGroup[h] \in NodeGroups
          BY DEF TypeOK
        <5>2. CASE EnsureVPSieNodeGroup(h)
          <6>1. [nodeGroup[h] EXCEPT !.vpsie = TRUE].desired = nodeGroup[h].desired
            BY <5>1 DEF NodeGroups
          <6> QED BY <5>1, <5>2, <6>1 DEF EnsureVPSieNodeGroup
        <5>3. CASE NodeReady(h)
          <6> DEFINE count == nodeGroup[h].ready + 1
                     new == [nodeGroup[h] EXCEPT !.ready = count,
                       !.peak = IF nodeGroup[h].peak < count THEN count ELSE nodeGroup[h].peak]
          <6>1. new.desired = nodeGroup[h].desired
            BY <5>1 DEF NodeGroups
          <6>2. nodeGroup' = [nodeGroup EXCEPT ![h] = new]
            BY <5>3 DEF NodeReady
          <6> HIDE DEF new
          <6> QED BY <5>1, <6>1, <6>2
        <5> QED BY <3>4, <5>2, <5>3
      <4> QED BY <3>1, <4>1
    <3>7. ASSUME NEW h \in Existing, NodeLost(h) PROVE Goal
      <4>1. nodeGroup'[g].desired = nodeGroup[g].desired
        BY <3>7 DEF NodeLost, TypeOK, NodeGroups, Existing
      <4> QED BY <3>1, <4>1
    <3>8. ASSUME NEW h \in Existing, NEW n \in MinNodes..MaxNodes, LowerDesired(h, n) PROVE Goal
      <4>1. \/ nodeGroup'[g].desired = nodeGroup[g].desired
            \/ n < nodeGroup[g].desired /\ nodeGroup'[g].desired = n
        BY <3>8 DEF LowerDesired, TypeOK, NodeGroups, Existing
      <4> QED BY <1>0, <1>00, <2>1, <3>1, <4>1, ConstantsAssumption DEF OneBeyondPeak
    <3>5. CASE UNCHANGED nodeGroup
      BY <3>1, <3>5
    <3>6. ASSUME NEW w \in Watchers, Watcher(w), ~ UNCHANGED nodeGroup PROVE Goal
      <4>1. \E d \in round[w].decisions : ExecuteScaleUp(w, d)
        BY <1>1, <3>6 DEF Watcher, HandleEvent, Age, ProcessEvents, CreateFails, EndRound,
           ExecuteFails, Expire
      <4> QED BY <3>2, <4>1
    <3> QED BY <3>3, <3>4, <3>5, <3>6, <3>7, <3>8 DEF Next, vars, Arrive, Leave, Schedule, Move
  <2>4. ASSUME NEW g \in Existing PROVE nodeGroup'[g].ready <= nodeGroup'[g].peak
    BY <1>1, <2>1, PeakKept DEF DecisionInv
  <2> QED BY <2>1, <2>2, <2>3, <2>4 DEF OneBeyondPeak, DecisionInv
<1>2. ASSUME NEW w \in Watchers, NEW p \in Pods, NEW g \in Groups, CreateNodeGroup(w, p, g)
      PROVE  OneBeyondPeak' /\ DecisionInv'
  <2>1. PICK new : /\ nodeGroup' = [h \in Existing \cup {g} |->
                         IF h \in Existing THEN nodeGroup[h] ELSE new]
                   /\ new.desired = 0 /\ new.ready = 0 /\ new.peak = 0
    <3>1. PICK size : nodeGroup' = Overlay(nodeGroup, [h \in {g} |->
            [pod |-> p, by |-> w, labels |-> NodeGroupSpec(p).labels,
             taints |-> NodeGroupSpec(p).taints, size |-> size, vpsie |-> FALSE,
             desired |-> 0, ready |-> 0, peak |-> 0]])
      BY <1>2 DEF CreateNodeGroup
    <3> DEFINE new == [pod |-> p, by |-> w, labels |-> NodeGroupSpec(p).labels,
             taints |-> NodeGroupSpec(p).taints, size |-> size, vpsie |-> FALSE,
             desired |-> 0, ready |-> 0, peak |-> 0]
    <3>2. new.desired = 0 /\ new.ready = 0 /\ new.peak = 0
      OBVIOUS
    <3>3. nodeGroup' = Overlay(nodeGroup, [h \in {g} |-> new])
      BY <3>1
    <3> HIDE DEF new
    <3> QED BY <3>2, <3>3 DEF Overlay, Existing
  <2>2. /\ Existing' = Existing \cup {g} /\ g \notin Existing
        /\ nodeGroup'[g] = new /\ \A h \in Existing : nodeGroup'[h] = nodeGroup[h]
    BY <1>2, <2>1 DEF Existing, CreateNodeGroup
  <2>3. OneBeyondPeak'
    BY <1>0, <2>1, <2>2 DEF OneBeyondPeak
  <2>4. ASSUME NEW v \in Watchers, NEW d \in round'[v].decisions
        PROVE  d[2] <= nodeGroup'[d[1]].peak + 1
    <3>1. d \in round[v].decisions \/ d = <<g, 1>>
      BY <1>2 DEF CreateNodeGroup, TypeOK
    <3>2. CASE d \in round[v].decisions
      BY <1>00, <2>2, <3>2 DEF DecisionInv
    <3>3. CASE d = <<g, 1>>
      BY <2>1, <2>2, <3>3
    <3> QED BY <3>1, <3>2, <3>3
  <2>5. \A h \in Existing' : nodeGroup'[h].ready <= nodeGroup'[h].peak
    BY <2>1, <2>2 DEF DecisionInv
  <2> QED BY <2>3, <2>4, <2>5 DEF DecisionInv
<1> QED BY <1>1, <1>2

\* Whatever replicas have listed before and execute late, and whatever fails or is scaled
\* down meanwhile, they never ask for more than one node beyond what has been ready.
THEOREM SequentialScaling == Spec => []OneBeyondPeak
<1>1. Init => OneBeyondPeak /\ DecisionInv
  BY DEF Init, OneBeyondPeak, DecisionInv, Existing, Idle
<1> QED BY InitType, StepType, StepWay, <1>1, PTL DEF Spec
=============================================================================
