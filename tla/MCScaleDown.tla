----------------------------- MODULE MCScaleDown -----------------------------
(***************************************************************************)
(* Constants of the instance of ScaleDown that TLC checks.                 *)
(***************************************************************************)
EXTENDS ScaleDown

CONSTANTS n1, n2, n3, p1, p2, p3

TwoNodes == {n1, n2}
OneForeign == {n3}
ThreePods == {p1, p2, p3}
SmallAndLarge == [p \in ThreePods |-> IF p = p3 THEN 5 ELSE 2]
TwoSpread == {p1, p2}
OnlyP2 == {p2}
OnlyP3 == {p3}
NoPods == {}
OnlyN1 == {n1}
OnlyN3 == {n3}
OvernightOfN2 == [n \in {n1, n2, n3} |-> IF n = n2 THEN <<1, 0>> ELSE <<0, 2>>]
=============================================================================
