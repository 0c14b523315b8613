----------------------------- MODULE MCExecGate -----------------------------
(***************************************************************************)
(* Three goroutines, a child instance and its parent: the child's drive    *)
(* may call back into the child itself and, when the child completes, into *)
(* the parent (CompleteProcessInstance resumes the parent's node).         *)
(***************************************************************************)
EXTENDS ExecGate, TLC

CONSTANTS p1, p2, p3, child, parent, g1, g2, g3

MCGoroutine == {p1, p2, p3}
MCInstance == {child, parent}
MCGate == {g1, g2, g3}
MCNest == {<<child, child>>, <<child, parent>>}

(* The key of a gate nobody has stored yet is never read: one initial      *)
(* value is enough.                                                        *)
MCInit == /\ Init
          /\ key = [g \in Gate |-> child]

MCSpec == MCInit /\ [][Next]_vars /\ \A p \in Goroutine : WF_vars(Progress(p))
=============================================================================
