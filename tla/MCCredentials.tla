---------------------------- MODULE MCCredentials ----------------------------
(***************************************************************************)
(* Instances of Credentials for TLC.                                       *)
(***************************************************************************)
EXTENDS Credentials

CONSTANTS p1, p2, t1, r1, q1, q2

TwoPairs == {p1, p2}
OneToken == {t1}
OneRotation == {r1}
TwoRequests == {q1, q2}
=============================================================================
