--------------------------- MODULE MCApprovalNode ---------------------------
(***************************************************************************)
(* Three approvers and two goroutines: enough for an electorate with a     *)
(* majority and a minority, a sequence with a middle, and a second drive   *)
(* beside the one in the gate.                                             *)
(***************************************************************************)
EXTENDS ApprovalNode, TLC

CONSTANTS a1, a2, a3, p1, p2

MCApprover == {a1, a2, a3}
MCOrder == <<a1, a2, a3>>
MCCaller == {p1, p2}

Majority == [type |-> "majority", value |-> 0]
Percent60 == [type |-> "percent", value |-> 60]
Count1 == [type |-> "count", value |-> 1]
MCRules == {Majority, Percent60, Count1}
=============================================================================
