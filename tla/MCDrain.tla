-------------------------------- MODULE MCDrain --------------------------------
(***************************************************************************)
(* Instances of Drain for TLC: a pod of a Deployment, one of a StatefulSet *)
(* and one that belongs to the Node.                                       *)
(***************************************************************************)
EXTENDS Drain

CONSTANTS web, db, agent

AllPods == {web, db, agent}
TheAgent == {agent}
TheDatabase == {db}
Nothing == {}
=============================================================================
