---------------------------- MODULE MCDriveGates ----------------------------
(***************************************************************************)
(* Two drives, on one replica or on two, and two executions of the end     *)
(* node, of one drive or of two.  The gate's lease lives for two renewal   *)
(* intervals, the end node's for one: in the order of the code's three     *)
(* and two minutes.                                                        *)
(***************************************************************************)
EXTENDS DriveGates

CONSTANTS p1, p2, e1, e2, r1, r2, gateKey, endKey

MCDrive == {p1, p2}
MCEndExec == {e1, e2}
MCClient == MCDrive \cup MCEndExec
MCKey == {gateKey, endKey}
MCKeyOf == [c \in MCClient |-> IF c \in MCDrive THEN gateKey ELSE endKey]
MCTtl == [k \in MCKey |-> IF k = gateKey THEN 2 ELSE 1]
MCLease == MCClient \X {1, 2}
MCDrawn == [c \in MCClient |-> {c} \X {1, 2}]
MCReplica == {r1, r2}
=============================================================================
