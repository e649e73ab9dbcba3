------------------------------- MODULE MCScaleUp -------------------------------
(***************************************************************************)
(* Constants of the instances of ScaleUp that TLC checks: a template with  *)
(* a label and a taint; a pod that overrides the label, one that tolerates *)
(* a second taint, one like the first, and one whose own NodeGroup does    *)
(* not match it, because its toleration has a value and no operator.  The  *)
(* second pod and the last need a dearer size.                             *)
(***************************************************************************)
EXTENDS ScaleUp, TLC

CONSTANTS p1, p2, p3, p4, w1, w2, g1, g2, g3

ThreePods == {p1, p2, p3}
SimilarPods == {p1, p3}
FitAndUnfit == {p1, p4}
OneWatcher == {w1}
TwoWatchers == {w1, w2}
OneGroup == {g1}
TwoGroups == {g1, g2}
ThreeGroups == {g1, g2, g3}
Nothing == {}

Labels == [pool |-> "general"]
Taint == [key |-> "autoscaled", value |-> "", effect |-> "NoSchedule"]
Taints == {Taint}

Tolerated(key, value, op) ==
  [key |-> key, op |-> op, value |-> value, effect |-> "NoSchedule"]

Selectors ==
  (p1 :> [pool |-> "batch"]) @@ (p2 :> [disk |-> "ssd"]) @@ (p3 :> [pool |-> "batch"])
  @@ (p4 :> [disk |-> "ssd"])
TolerationsOf ==
  (p1 :> {Tolerated("autoscaled", "", "Exists"), Tolerated("not-ready", "", "Exists")})
  @@ (p2 :> {Tolerated("autoscaled", "", "Exists"), Tolerated("gpu", "yes", "Equal")})
  @@ (p3 :> {Tolerated("autoscaled", "", "Exists")})
  @@ (p4 :> {Tolerated("autoscaled", "", "Exists"), Tolerated("gpu", "yes", "")})
Requests == [p \in Pods |-> IF p \in {p2, p4} THEN 2 ELSE 1]
System == {"not-ready"}

Sizes == {10, 20}
OneSize == {10}
Capacities == [o \in Offers |-> o \div 10]
Prices == [o \in Offers |-> IF o = 10 THEN 5 ELSE 8]

Interchangeable == Permutations(Watchers) \cup Permutations(Groups)
=============================================================================
