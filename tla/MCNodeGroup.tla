---------------------------- MODULE MCNodeGroup ----------------------------
(***************************************************************************)
(* Constants of the instances of NodeGroup that TLC checks.                *)
(***************************************************************************)
EXTENDS NodeGroup, TLC

CONSTANTS n1, n2, n3, w1, w2

TwoVPSieNodes == {n1, n2}
ThreeVPSieNodes == {n1, n2, n3}
OneWatcher == {w1}
TwoWatchers == {w1, w2}
Nobody == {}

Interchangeable ==
  Permutations(VPSieNodes) \cup Permutations(Watchers)
=============================================================================
