----------------------------- MODULE NodeLifecycle -----------------------------
(***************************************************************************)
(* What the VPSieNode controller promises the controllers and users that   *)
(* create and delete VPSieNodes: the life of each of them seen from the    *)
(* outside, without phases, caches, machines and failed attempts.          *)
(*                                                                         *)
(* A VPSieNode is "starting" until it turns out "ready" or "failed"; once  *)
(* its deletion is asked for it is "leaving" until it is "gone", and       *)
(* nothing leads back.                                                     *)
(***************************************************************************)

CONSTANT VPSieNodes

VARIABLE stage

Stages == {"unborn", "starting", "ready", "failed", "leaving", "gone"}

Init == stage = [v \in VPSieNodes |-> "unborn"]

Move(v, from, to) ==
  /\ stage[v] \in from
  /\ \E s \in to : stage' = [stage EXCEPT ![v] = s]

Create(v) == Move(v, {"unborn"}, {"starting"})

Settle(v) == Move(v, {"starting"}, {"ready", "failed"})

\* A timeout that is noticed late fails a VPSieNode that has become ready.
FailLate(v) == Move(v, {"ready"}, {"failed"})

Leave(v) == Move(v, {"starting", "ready", "failed"}, {"leaving"})

\* The end of a deletion, or a deletion before there was anything to clean up.
Remove(v) == Move(v, {"starting", "leaving"}, {"gone"})

Next ==
  \E v \in VPSieNodes :
    Create(v) \/ Settle(v) \/ FailLate(v) \/ Leave(v) \/ Remove(v)

Spec == Init /\ [][Next]_stage

\* No VPSieNode is starting for ever, and one that leaves ends.
Progress ==
  \A v \in VPSieNodes :
    /\ stage[v] = "starting" ~> stage[v] # "starting"
    /\ stage[v] = "leaving" ~> stage[v] = "gone"

=============================================================================
