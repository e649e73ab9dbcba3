-------------------------- MODULE MCCircuitBreaker --------------------------
(***************************************************************************)
(* Constants of the instances of CircuitBreaker that TLC checks.           *)
(***************************************************************************)
EXTENDS CircuitBreaker

CONSTANTS c1, c2, c3

ThreeCallers == {c1, c2, c3}
=============================================================================
