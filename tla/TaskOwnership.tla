---------------------------- MODULE TaskOwnership ----------------------------
(***************************************************************************)
(* Who a task belongs to: claiming from a pool and giving back, candidates,*)
(* assignment by an administrator, delegation and its return, transfer and *)
(* reassignment (service/task_service_claim.go, _candidates, _assignment,  *)
(* _reassign).  A repeated call that finds its work done changes nothing   *)
(* and has no action.  Listener events and trace rows are left out.        *)
(***************************************************************************)
EXTENDS TaskRows

Change(i, row) == task' = [task EXCEPT ![i] = row]
Unmoved == UNCHANGED <<def, inst, answered, driveVars, histVars>>

(* An empty pool lets every user claim. *)
Candidate(i, u) == task[i].pool = {} \/ u \in task[i].pool
Claimable(i, u) == /\ task[i].status = "pending"
                   /\ task[i].assignee = Nobody
                   /\ Candidate(i, u)

(* The other tasks of the node that wait to be claimed are closed, in the  *)
(* round of this claim; a round the task closed before is forgotten.       *)
OthersOnly(i) == {j \in AtNode(task[i].node) \ {i} : task[j].status = "pending"}
Claim(u, i) ==
  /\ Uses("Claim")
  /\ inst = "active"
  /\ Claimable(i, u)
  /\ task' = [j \in Ids |->
                IF j = i
                  THEN [task[i] EXCEPT !.assignee = u, !.status = "active", !.claimed = TRUE]
                ELSE IF j \in OthersOnly(i)
                  THEN [task[j] EXCEPT !.status = "terminated", !.reason = "claimed_by_other",
                                       !.closedBy = i]
                ELSE [task[j] EXCEPT !.closedBy = IF @ = i THEN NoId ELSE @]]
  /\ Unmoved

(* A delegated task goes back to its owner, a claimed one to the pool with *)
(* the tasks its claim had closed.                                         *)
Undelegates(i) == task[i].owner # Nobody
Unclaimable(i, u) == /\ Active(i)
                     /\ task[i].assignee = u
                     /\ Undelegates(i) \/ task[i].claimed
SameClaimRound(i) == {j \in AtNode(task[i].node) : task[j].closedBy = i}
Unclaim(u, i) ==
  /\ Uses("Claim")
  /\ inst = "active"
  /\ Unclaimable(i, u)
  /\ IF Undelegates(i)
     THEN Change(i, [task[i] EXCEPT !.assignee = task[i].owner, !.owner = Nobody])
     ELSE task' = [j \in Ids |->
                     IF j = i THEN [task[i] EXCEPT !.assignee = Nobody, !.status = "pending",
                                                   !.claimed = FALSE]
                     ELSE IF j \in SameClaimRound(i)
                     THEN [task[j] EXCEPT !.status = "pending", !.reason = "none", !.closedBy = NoId]
                     ELSE task[j]]
  /\ Unmoved

-----------------------------------------------------------------------------
(* The administrator.                                                      *)

SetAssignee(i, u) ==
  /\ Uses("SetAssignee")
  /\ inst = "active"
  /\ Open(i)
  /\ task[i].assignee # u
  /\ Change(i, [task[i] EXCEPT !.assignee = u,
                               !.status = IF u = Nobody THEN "pending" ELSE "active"])
  /\ Unmoved

SetOwner(i, u) ==
  /\ Uses("SetOwner")
  /\ inst = "active"
  /\ Open(i)
  /\ task[i].owner # u
  /\ Change(i, [task[i] EXCEPT !.owner = u])
  /\ Unmoved

AddCandidates(i, us) ==
  /\ Uses("Candidates")
  /\ inst = "active"
  /\ Open(i)
  /\ Change(i, [task[i] EXCEPT !.pool = @ \cup us])
  /\ Unmoved

RemoveCandidates(i, us) ==
  /\ Uses("Candidates")
  /\ inst = "active"
  /\ Open(i)
  /\ Change(i, [task[i] EXCEPT !.pool = @ \ us])
  /\ Unmoved

Reassign(i, u) ==
  /\ Uses("Reassign")
  /\ inst = "active"
  /\ Active(i)
  /\ Change(i, [task[i] EXCEPT !.assignee = u, !.owner = Nobody])
  /\ Unmoved

-----------------------------------------------------------------------------
(* The assignee.                                                           *)

(* The first delegator stays the owner however often the task goes on. *)
Delegated(i, u) ==
  [task[i] EXCEPT !.assignee = u,
                  !.owner = IF @ = Nobody THEN task[i].assignee ELSE @]
MayDelegate(i, u, to) == Active(i) /\ task[i].assignee = u /\ u # to
Delegate(u, i, to) ==
  /\ Uses("Delegate")
  /\ inst = "active"
  /\ MayDelegate(i, u, to)
  /\ Change(i, Delegated(i, to))
  /\ Unmoved

(* The delegate, the owner or an administrator ends a delegation. *)
Resolve(u, i) ==
  /\ Uses("Resolve")
  /\ inst = "active"
  /\ u \in {task[i].assignee, task[i].owner}
  /\ task[i].owner # Nobody
  /\ Active(i)
  /\ Change(i, [task[i] EXCEPT !.assignee = task[i].owner, !.owner = Nobody])
  /\ Unmoved

MayTransfer(i, u, to) == Active(i) /\ task[i].assignee = u /\ u # to
Transfer(u, i, to) ==
  /\ Uses("Transfer")
  /\ inst = "active"
  /\ MayTransfer(i, u, to)
  /\ Change(i, [task[i] EXCEPT !.assignee = to, !.owner = Nobody])
  /\ Unmoved

Ownership ==
  \E i \in Ids :
    \/ \E u \in People :
         \/ Claim(u, i)
         \/ Unclaim(u, i)
         \/ SetOwner(i, u)
         \/ Reassign(i, u)
         \/ Resolve(u, i)
         \/ \E to \in People : Delegate(u, i, to) \/ Transfer(u, i, to)
    \/ \E u \in People \cup {Nobody} : SetAssignee(i, u)
    \/ \E u \in People : AddCandidates(i, {u}) \/ RemoveCandidates(i, {u})
=============================================================================
