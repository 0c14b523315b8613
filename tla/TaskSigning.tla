----------------------------- MODULE TaskSigning -----------------------------
(***************************************************************************)
(* The answers (service/task_service_complete.go), also on behalf of an    *)
(* absent user (_proxy), and the signers that are added to a task and      *)
(* taken off it (_sign).  An open task with an assignee may get sub-tasks  *)
(* of its own: its assignee answers after all of them.                     *)
(***************************************************************************)
EXTENDS TaskOwnership

Vote == {"approved", "rejected"}

(* Row i with an answer. *)
Answer(rows, i, verdict, by) ==
  [rows EXCEPT ![i].status = "completed", ![i].reason = verdict, ![i].by = by]

(* Open rows that the decision of their node takes with it. *)
Terminate(rows, those, why) ==
  [j \in DOMAIN rows |->
     IF j \in those THEN [rows[j] EXCEPT !.status = "terminated", !.reason = why] ELSE rows[j]]
OpenIn(rows, j) == rows[j].status \in {"pending", "active"}

(* The vote of sub-task i is in rows.  One rejection decides a task that   *)
(* wants all approvals; otherwise the votes are counted, and a task with   *)
(* an assignee of its own waits for its assignee.                          *)
Vetoes(rows, i) == /\ rows[i].reason = "rejected"
                   /\ RuleOf(i).type = "all"
ParentEnded(i) == task[i].parent \notin Ids \/ Completed(task[i].parent)
WaitsForAssignee(i) == task[task[i].parent].assignee # Nobody

CloseParent(rows, i, verdict) ==
  LET p == task[i].parent
      left == {j \in DOMAIN rows : rows[j].parent = p /\ OpenIn(rows, j)}
  IN  /\ task' = Terminate(Answer(rows, p, verdict, "assignee"), left, "threshold")
      /\ answered' = answered \o <<i, p>>
      /\ Ask(task[p].node)

CompleteSubTask(i, rows) ==
  LET p == task[i].parent
  IN  IF ~ParentEnded(i) /\ Vetoes(rows, i)
        THEN CloseParent(rows, i, "rejected")
      ELSE IF ~ParentEnded(i) /\ ~Vetoes(rows, i) /\ Decided(rows, p) /\ ~WaitsForAssignee(i)
        THEN CloseParent(rows, i, IF Favours(rows, p) THEN "approved" ELSE "rejected")
      ELSE task' = rows /\ answered' = Append(answered, i) /\ UNCHANGED asks

(* The first answer on an or-sign node ends the other active tasks. *)
CompleteMainTask(i, rows) ==
  LET others == {j \in AtNode(task[i].node) \ {i} : Active(j) /\ Mode(i) = "any"}
  IN  /\ task' = Terminate(rows, others, "sibling")
      /\ answered' = Append(answered, i)
      /\ Ask(task[i].node)

(* A delegate's answer only returns the task to its owner.                 *)
ResolveDelegatedApproval(i) ==
  /\ task' = [task EXCEPT ![i].assignee = task[i].owner, ![i].owner = Nobody]
  /\ UNCHANGED <<answered, asks>>

Complete(i, vote, by) ==
  LET rows == Answer(task, i, vote, by)
  IN  IF Main(i) THEN CompleteMainTask(i, rows) ELSE CompleteSubTask(i, rows)
NoOpenSigner(i) == ~Main(i) \/ \A j \in Subs(i) : ~Open(j)

(* An aggregate parent has no assignee: only its sub-tasks are answered.   *)
CompleteWithApproval(u, i, vote) ==
  /\ inst = "active"
  /\ Active(i)
  /\ task[i].assignee = u
  /\ IF task[i].owner # Nobody
       THEN ResolveDelegatedApproval(i)
       ELSE /\ NoOpenSigner(i)
            /\ Complete(i, vote, "assignee")
  /\ UNCHANGED <<def, inst, at, auto, resets, histVars>>

(* An administrator answers for the assignee, never on a delegated task.   *)
MayProxy(i) == Active(i) /\ task[i].assignee # Nobody /\ task[i].owner = Nobody
ProxyAudit(i, vote) ==
  /\ Uses("ProxyAudit")
  /\ inst = "active"
  /\ MayProxy(i)
  /\ NoOpenSigner(i)
  /\ Complete(i, vote, "proxy")
  /\ UNCHANGED <<def, inst, at, auto, resets, histVars>>

(* After the creation the drive approves, as the system, what is the       *)
(* starter's: every task with automatic self-approval, a fallback's        *)
(* otherwise.  A refusal leaves the task to the starter.                   *)
ToApprove(n) == {i \in AtNode(n) : /\ Active(i)
                                   /\ task[i].assignee = def.starter
                                   /\ def.self[n] = "autoApprove" \/ task[i].fallback}
ApprovedForStarter(n) ==
  \E i \in ToApprove(n) :
    /\ NoOpenSigner(i)
    /\ IF task[i].owner # Nobody THEN ResolveDelegatedApproval(i)
                                 ELSE Complete(i, "approved", "system")
AutoApproveTasks ==
  /\ auto # NoNode
  /\ auto' = NoNode
  /\ IF inst = "active" /\ \E i \in ToApprove(auto) : NoOpenSigner(i)
     THEN ApprovedForStarter(auto)
     ELSE UNCHANGED <<rowVars, asks>>
  /\ UNCHANGED <<def, inst, at, resets, histVars>>

-----------------------------------------------------------------------------
(* Signers.                                                                *)

(* Adding and taking off is for those who take part in the task. *)
Participant(u, m) == u = task[m].assignee \/ \E j \in Subs(m) : task[j].assignee = u
MaySign(u, m) == Main(m) /\ Active(m) /\ Participant(u, m)

(* addSignInternal: who is in the electorate already is skipped, who is    *)
(* named twice gets two tasks.  A signer is judged by the rule of the task *)
(* it signs, a vote in the starter's name included.                        *)
SignersOf(m, us) == us \ ({task[m].assignee} \cup {task[j].assignee : j \in Subs(m)})
SignTask(u, m, to) ==
  [NewRow(task[m].node, m, "active", to, {})
     EXCEPT !.owner = task[m].owner, !.addedBy = u,
            !.fallback = task[m].fallback /\ ByVotes(task[m].node)]
AddSign(u, m, us, twice) ==
  LET who == SetToSeq(SignersOf(m, us)) \o SetToSeq(SignersOf(m, twice))
  IN  /\ Uses("AddSign") /\ (twice # {} => Uses("AddTwice"))
      /\ inst = "active"
      /\ MaySign(u, m)
      /\ SignersOf(m, us) # {}
      /\ RoomFor(Len(who))
      /\ task' = WithNew(task, [k \in DOMAIN who |-> SignTask(u, m, who[k])])
      /\ Unmoved

(* reduceSignInternal: who added a signer takes that signer off; a voter   *)
(* of the definition may be taken off by any participant.                  *)
ReducedBy(m, us) == {j \in Subs(m) : Active(j) /\ task[j].assignee \in us}
MayReduce(u, m, us) == \A j \in ReducedBy(m, us) : task[j].addedBy \in {Nobody, u}

(* The votes that are left are counted again: without a voter left the     *)
(* instance ends, and a decided task completes.                            *)
ReduceSign(u, m, us) ==
  /\ Uses("ReduceSign")
  /\ inst = "active"
  /\ MaySign(u, m)
  /\ ReducedBy(m, us) # {}
  /\ MayReduce(u, m, us)
  /\ LET gone == ReducedBy(m, us)
         rows == Without(task, gone)
     IN  IF ByVotes(task[m].node) /\ Electorate(rows, m) = {}
           THEN EndInstance("terminated") /\ UNCHANGED asks
         ELSE IF ByVotes(task[m].node) /\ Decided(rows, m)
           THEN /\ task' = Answer(rows, m, IF Favours(rows, m) THEN "approved" ELSE "rejected", "assignee")
                /\ answered' = Append(answered, m)
                /\ Ask(task[m].node)
                /\ UNCHANGED <<inst, histVars>>
         ELSE Archive(gone) /\ UNCHANGED <<inst, asks, histVars>>
  /\ UNCHANGED <<def, at, auto, resets>>

Signing ==
  \/ AutoApproveTasks
  \/ \E i \in Ids :
       \/ \E u \in People, vote \in Vote : CompleteWithApproval(u, i, vote)
       \/ \E vote \in Vote : ProxyAudit(i, vote)
       \/ \E u \in People, us \in SUBSET People \ {{}} :
            ReduceSign(u, i, us) \/ \E twice \in SUBSET us : AddSign(u, i, us, twice)
=============================================================================
