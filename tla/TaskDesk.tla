------------------------------- MODULE TaskDesk -------------------------------
(***************************************************************************)
(* All that people and administrators do to the tasks of one instance,     *)
(* interleaved with the drives their answers ask for, and what the detail  *)
(* page offers a user (service/runtime_instance_detail.go).                *)
(***************************************************************************)
EXTENDS TaskReturn

Init == RowsInit
Next == Drive \/ Ownership \/ Signing \/ Returning
Spec == Init /\ [][Next]_vars

Driving == asks # {} \/ at # NoNode \/ resets # <<>>
Waiting == inst = "active" /\ ~Driving

-----------------------------------------------------------------------------
(* The detail page: the user's task is an active one, else one to claim.   *)

OfferedAnswer(u, i) == inst = "active" /\ Active(i) /\ task[i].assignee = u
IsUserCandidate(u, i) == LET pool == NodePool(task[i].node) IN pool = {} \/ u \in pool
OfferedClaim(u, i) == /\ inst = "active"
                      /\ \A j \in Ids : ~OfferedAnswer(u, j)
                      /\ task[i].status = "pending"
                      /\ IsUserCandidate(u, i)
OfferedUnclaim(u, i) == OfferedAnswer(u, i) /\ task[i].claimed
ReturnableNodes(i) == {n \in Nodes : /\ Place(n) < Place(task[i].node)
                                     /\ \E j \in AtNode(n) : Completed(j)}
OfferedProxyAudit(i) == /\ inst = "active" /\ Active(i)
                        /\ task[i].assignee # Nobody /\ task[i].owner = Nobody
-----------------------------------------------------------------------------
(* Definitions on which no two of the operations mix that stand in each    *)
(* other's way: a signer or another assignee on an or-sign, whose answer   *)
(* counts at once; a recall past an or-sign, whose other tasks stay        *)
(* terminated; signers taken off where one vote may decide; an             *)
(* administrator's hand on a countersign, or signers on other than a       *)
(* countersign, where answers are recalled.                                *)
Apart(f) ==
  LET nodes == ToSet(f.nodes)
      votes == {n \in nodes : f.mode[n] \in {"countersign", "vote"}}
      asked == {n \in nodes : ResolveAssignees(f.approver[n], f.self[n], f.starter) # <<>>}
      orSigned == {n \in nodes : f.mode[n] = "any" /\ ~HasPool(f.approver[n])}
  IN  /\ orSigned # {} => f.uses \cap {"AddSign", "SetAssignee"} = {}
      /\ "Recall" \in f.uses => orSigned \subseteq {f.nodes[1]}
      /\ "ReduceSign" \in f.uses => \A n \in votes : f.mode[n] = "countersign" /\ n \in asked
      /\ "Recall" \in f.uses /\ votes # {} => f.uses \cap {"SetAssignee", "SetOwner", "Reassign"} = {}
      /\ {"Recall", "AddSign"} \subseteq f.uses => nodes \subseteq votes \cap asked

(* Those on which the voters of a node are the ones it asked and the ones *)
(* it was given: no claim of an unassigned voter's task, which closes the  *)
(* others; no recall of a vote that was passed on; no rule that asks for   *)
(* more approvals than there are voters.                                   *)
Counted(f) ==
  LET nodes == ToSet(f.nodes)
      votes == {n \in nodes : f.mode[n] \in {"countersign", "vote"}}
      Voters(n) == Len(ResolveAssignees(f.approver[n], f.self[n], f.starter))
      asked == {n \in nodes : Voters(n) > 0}
  IN  /\ votes # {} => ~({"Claim", "SetAssignee"} \subseteq f.uses)
      /\ "Recall" \in f.uses /\ votes # {} => f.uses \cap {"Delegate", "Transfer"} = {}
      /\ \A n \in votes \cap asked :
           f.mode[n] = "vote" /\ f.rule[n].type = "count" => f.rule[n].value <= Voters(n)

(* Those on which the pool of a node is its main task's, whatever becomes  *)
(* of the tasks: candidates on nodes without sub-tasks alone, and nobody   *)
(* taken off a task that waits for signers, nor a sole voter off the vote. *)
Offered(f) ==
  LET nodes == ToSet(f.nodes)
      votes == {n \in nodes : f.mode[n] \in {"countersign", "vote"}}
  IN  /\ "Candidates" \in f.uses => votes = {} /\ "AddSign" \notin f.uses
      /\ "SetAssignee" \in f.uses =>
           /\ "AddSign" \notin f.uses
           /\ votes # {} => \A u \in User : User # {u}

-----------------------------------------------------------------------------
(* Properties.                                                             *)

(* Rows, drive and history are of their types, and the completed rows are *)
(* the ones that the order of answers lists, each once: what Archive and  *)
(* Recall take out of the one they take out of the other.                 *)
TypeOK ==
  /\ def \in Flows
  /\ inst \in {"active", "completed", "terminated"}
  /\ Ids \subseteq Id
  /\ \A i \in Ids : task[i] \in Row(task[i].node) /\ task[i].node \in Nodes
  /\ answered \in Seq(Id) /\ IsInjective(answered)
  /\ ToSet(answered) = {i \in Ids : Completed(i)}
  /\ asks \subseteq Nodes
  /\ at \in Nodes \cup {End, NoNode}
  /\ auto \in Nodes \cup {NoNode}
  /\ resets \in Seq(Nodes)
  /\ recalls \in 0..MaxRecall
  /\ past \subseteq Nodes \X User
  /\ last \in Nodes \cup {NoNode}

(* A chain is at one place: while a drive is due or under way nobody has   *)
(* an open task, and otherwise all open tasks are of one node.  A return,  *)
(* rejection or recall that left a task behind, or drove a node beside the *)
(* one that waits, would have two nodes worked on at once.                 *)
OneRound ==
  /\ Driving => \A i \in Ids : ~Open(i)
  /\ Waiting => Cardinality({task[i].node : i \in {j \in Ids : Open(j)}}) = 1

(* No task is older than an answer of an earlier node: what was said after *)
(* a node had moved on never stands before it again, however often the    *)
(* instance went back by a return, a rejection or a recall.                *)
OrderKept ==
  \A i, j \in Ids :
    /\ Place(task[i].node) < Place(task[j].node)
    /\ Completed(i)
    => EndOf(i) <= task[j].born

(* A recall takes one answer back, and besides it only open tasks of other *)
(* nodes; no other answer changes, but the end of the parent that the vote *)
(* had closed (header of task_service_recall.go: peer votes stay intact).  *)
RecallSparesOthers ==
  [][recalls' > recalls /\ inst = "active" =>
       \E t \in Ids \ DOMAIN task' :
         /\ Completed(t)
         /\ \A i \in Ids \ (DOMAIN task' \cup {t}) : Open(i) /\ task[i].node # task[t].node
         /\ \A i \in Ids \cap DOMAIN task' :
              Completed(i) /\ i # task[t].parent => task'[i].reason = task[i].reason]_vars

(* A vote is judged by the whole electorate, whoever was added, taken off, *)
(* cut off or recalled on the way: while the parent is open somebody is    *)
(* asked, nobody is cut off, and the missing votes can still change the    *)
(* result, unless a vote that had been recalled is awaited; when it has    *)
(* ended, no vote of those cut off could have changed it and nobody is     *)
(* asked any more.                                                         *)
VotesOn(p, reasons) == {j \in Subs(p) : task[j].reason \in reasons}
ElectorateWhole ==
  \A p \in Ids :
    Main(p) /\ ByVotes(task[p].node) /\ task[p].assignee = Nobody =>
      LET open == VotesOn(p, {"none"})
          cut == VotesOn(p, {"threshold"})
          yes == Cardinality(VotesOn(p, {"approved"}))
          total == Cardinality(Subs(p))
          Result(approvals) == Outcome(RuleOf(p), total, approvals)
      IN  /\ Active(p) => /\ cut = {}
                          /\ open # {}
                          /\ \/ Result(yes) # Result(yes + Cardinality(open))
                             \/ \E j \in open : <<task[p].node, task[j].assignee>> \in past
          /\ Completed(p) => /\ open = {}
                             /\ Result(yes) = Approved(p)
                             /\ Result(yes + Cardinality(cut)) = Approved(p)

(* Nobody is sent away: an instance that waits offers somebody an answer   *)
(* or a claim that the service takes, and the claims, returns and proxy   *)
(* answers that a page offers pass the checks of the operation they call.  *)
OffersHonoured ==
  /\ Waiting => \E u \in User, i \in Ids :
       \/ OfferedAnswer(u, i) /\ NoOpenSigner(i)
       \/ OfferedClaim(u, i) /\ Claimable(i, u)
       \/ task[i].status = "pending" /\ task[i].pool = Placeholder
  /\ \A u \in User, i \in Ids :
       /\ OfferedClaim(u, i) => Claimable(i, u)
       /\ OfferedUnclaim(u, i) => Unclaimable(i, u)
       /\ OfferedProxyAudit(i) => MayProxy(i)
       /\ OfferedAnswer(u, i) =>
            \A n \in ReturnableNodes(i) : RequireReturnTarget(u, i, n)
=============================================================================
