---------------------------- MODULE MCVPSieNode ----------------------------
(***************************************************************************)
(* Constants of the instances of VPSieNode that TLC checks.                *)
(***************************************************************************)
EXTENDS VPSieNode

CONSTANTS v1, m1, m2

OneNode == {v1}
TwoMachines == {m1, m2}
OneMachine == {m1}
OnlyM1 == {m1}
NoMatches == {}
M1IsNamedAfterV1 == {<<v1, m1>>}
AllAnswers == SUBSET {"id", "ident"}
Sync == {{"id"}, {"id", "ident"}}
=============================================================================
