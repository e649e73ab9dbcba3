------------------------------ MODULE MCRebalance ------------------------------
(***************************************************************************)
(* Instances of Rebalance for TLC: Nodes a1, a2 and a3 of the dear         *)
(* offering, b and c of another one.                                       *)
(***************************************************************************)
EXTENDS Rebalance, TLC

CONSTANTS a1, a2, a3, b, c, p, q

FourNodes == {a1, a2, a3, b}
ThreeReady == {a1, a2, b}
TwoPods == {p, q}
RequestsOf == (p :> 1) @@ (q :> 1)
Capacities == (a1 :> 2) @@ (a2 :> 1) @@ (a3 :> 1) @@ (b :> 3)
OfferingOf == (a1 :> "dear") @@ (a2 :> "dear") @@ (a3 :> "dear") @@ (b :> "other")

\* What the others have left is enough for the large pod, but not in one piece.
ThreeNodes == {a1, b, c}
OnePod == {p}
LargeRequest == p :> 4
SmallCapacities == (a1 :> 4) @@ (b :> 3) @@ (c :> 3)
OfferingOfThree == (a1 :> "dear") @@ (b :> "other") @@ (c :> "other")

Local == {q}
Nothing == {}
Windows == {{"Monday"}}
Week == {"Monday", "Tuesday"}
OneOrTwo == {1, 2}
One == {1}
=============================================================================
