--------------------------- MODULE MCInstanceFlow ---------------------------
(***************************************************************************)
(* Four process definitions: a fork of a branch with two user tasks and    *)
(* one with one; a fork of a user task and a branch that never waits; an   *)
(* inclusive gateway; and a sub-process followed by a user task.  The      *)
(* child's process is one user task.                                       *)
(***************************************************************************)
EXTENDS InstanceFlow

CONSTANTS p, c1, c2, a, a2, b, t, log, sub, end, cu

Fork2 == [gateway |-> "fork", branches |-> {<<a, a2>>, <<b>>}, tail |-> <<t, end>>]
ForkSync == [gateway |-> "fork", branches |-> {<<a>>, <<log>>}, tail |-> <<t, end>>]
Inclusive == [gateway |-> "inclusive", branches |-> {<<a>>, <<b>>}, tail |-> <<end>>]
Call == [gateway |-> "none", branches |-> {}, tail |-> <<sub, t, end>>]

MCChild == {c1, c2}
MCUserTask == {a, a2, b, t, cu}
MCAuto == {log}
MCSubProcess == {sub}
MCFlows == {Fork2, ForkSync, Inclusive, Call}
MCChildFlow == [gateway |-> "none", branches |-> {}, tail |-> <<cu, end>>]
MCRescue == [f \in MCFlows \cup {MCChildFlow} |->
               IF f = Call THEN {"ReDrive", "Restore"} ELSE {"ReDrive", "ForceResume"}]
MCSuspendable == [f \in MCFlows |-> IF f = Call THEN {} ELSE {p}]
MCTerminable == [f \in MCFlows |-> IF f = Call THEN {p, c1} ELSE {p}]
=============================================================================
