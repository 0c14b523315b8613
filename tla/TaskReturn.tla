------------------------------ MODULE TaskReturn ------------------------------
(***************************************************************************)
(* Going back: the starter withdraws the instance, an approver returns the *)
(* task to an earlier node (service/task_service_withdraw.go, the target   *)
(* checks in _action_permissions), and a voter recalls the own last answer *)
(* while the instance waits, or reopens it after its end (_recall).  The   *)
(* recall window of a completed instance and the trace rows are left out.  *)
(***************************************************************************)
EXTENDS TaskSigning

(* The starter, or an administrator, ends the running instance; before the *)
(* first task exists the instance alone.                                   *)
Withdraw ==
  /\ Uses("Withdraw")
  /\ inst = "active"
  /\ EndInstance("terminated")
  /\ UNCHANGED <<def, driveVars>>

-----------------------------------------------------------------------------
(* Return.                                                                 *)

NodePool(n) == UNION {task[j].pool : j \in AtNode(n)}
IsReturnOperator(u, i) == task[i].assignee = u \/ u \in NodePool(task[i].node)
HasCompletedTaskAtNode(n) == \E j \in AtNode(n) : Completed(j)
RequireReturnTarget(u, i, target) ==
  /\ IsReturnOperator(u, i)
  /\ target \in Nodes
  /\ Place(target) < Place(task[i].node)
  /\ HasCompletedTaskAtNode(target)

(* The rows of the nodes that run again go, answered or not; the other     *)
(* open rows of the node go even when their node were not among these.     *)
ReturnRegion(target, i) == {j \in Ids : task[j].node \in Region(target, task[i].node)}
Return(u, i, target) ==
  /\ Uses("Return")
  /\ inst = "active"
  /\ Active(i)
  /\ RequireReturnTarget(u, i, target)
  /\ Archive(ReturnRegion(target, i))
  /\ Ask(target)
  /\ UNCHANGED <<def, inst, at, auto, resets, histVars>>

-----------------------------------------------------------------------------
(* Recall.                                                                 *)

AnswersOf(u) == {i \in Ids : Completed(i) /\ task[i].assignee = u}
IsRecallable(u, t) == /\ t \in AnswersOf(u)
                      /\ \A i \in AnswersOf(u) : EndOf(i) <= EndOf(t)

(* Votes on one parent are one round, and so is the parent's own end. *)
InSameCountersignRound(t, x) ==
  /\ task[t].parent # NoId
  /\ x = task[t].parent \/ task[x].parent = task[t].parent
RecallGuard(t) ==
  /\ task[t].by = "assignee"
  /\ \A x \in Ids \ {t} :
       Completed(x) /\ EndOf(x) > EndOf(t) => InSameCountersignRound(t, x)
  /\ \E x \in Ids : Open(x)

(* What was created since the answer goes, except the signers of a fellow  *)
(* voter whose own task stays.                                             *)
NoFrontier(t) == {}                                                    \* slip
Late(t) == {x \in Ids : Open(x) /\ task[x].born >= EndOf(t)}
Frontier(t) ==
  LET late == Late(t)
      Fellow(x) == /\ task[x].parent \in Ids \ late
                   /\ task[task[x].parent].node = task[t].node
  IN  {x \in late : ~Fellow(x)}

(* The parent that the vote had closed opens again, with the fellow voters *)
(* that its end had cut off.                                               *)
NeverReopens(t) == {}                                                  \* slip
Reopened(t) == {p \in Ids : p = task[t].parent /\ Completed(p)}
LeavesTheCutOff(t) == {}                                               \* slip
CutOff(t) == {x \in Ids : /\ Reopened(t) # {}
                          /\ task[x].parent = task[t].parent
                          /\ task[x].reason = "threshold"}
RecalledTask(u, t) ==
  [NewRow(task[t].node, task[t].parent, "active", u, {}) EXCEPT
     !.owner = task[t].owner,
     !.fallback = task[t].fallback,
     !.born = Len(Unanswer({t} \cup Reopened(t)))]

OneTooMany == recalls > MaxRecall                                      \* slip
RecallCountExhausted == recalls >= MaxRecall
Recall(u, t) ==
  /\ Uses("Recall")
  /\ inst = "active"
  /\ ~RecallCountExhausted
  /\ IsRecallable(u, t)
  /\ RecallGuard(t)
  /\ RoomFor(1)
  /\ LET unsaid == {t} \cup Reopened(t)
         open == Reopened(t) \cup CutOff(t)
         Kept(i) == [task[i] EXCEPT
                       !.status = IF i \in open THEN "active" ELSE @,
                       !.reason = IF i \in open THEN "none" ELSE @,
                       !.closedBy = IF @ \in Frontier(t) \cup {t} THEN NoId ELSE @,
                       !.born = Earlier(@, unsaid)]
     IN  /\ task' = WithNew([i \in Ids \ (Frontier(t) \cup {t}) |-> Kept(i)],
                            <<RecalledTask(u, t)>>)
         /\ answered' = Unanswer(unsaid)
  /\ recalls' = recalls + 1
  /\ past' = past \cup {<<task[t].node, u>>}
  /\ UNCHANGED <<def, inst, driveVars, last>>

(* A completed instance runs its last node again: the caller drives it     *)
(* itself, and an instance that has ended before it gets the gate is left. *)
RecallCompleted(u) ==
  /\ Uses("Recall")
  /\ inst = "completed"
  /\ ~RecallCountExhausted
  /\ <<last, u>> \in past
  /\ inst' = "active"
  /\ recalls' = recalls + 1
  /\ Ask(last)
  /\ UNCHANGED <<def, rowVars, at, auto, resets, past, last>>

Returning ==
  \/ Withdraw
  \/ \E u \in People : RecallCompleted(u)
  \/ \E i \in Ids, u \in People : Recall(u, i)
  \/ \E i \in Ids, u \in People, n \in Nodes : Return(u, i, n)
=============================================================================
