------------------------------ MODULE TaskRows ------------------------------
(***************************************************************************)
(* The rows of wf_task of one running instance whose definition is a chain *)
(* of user tasks, and the drive that walks the chain: it creates the tasks *)
(* of a node, judges them after an answer, and goes on, back or to the     *)
(* end.                                                                    *)
(*                                                                         *)
(* An operation of the task service is one transaction on the instance row *)
(* (WithInstanceTx) and so one action; the drive it asks for runs after    *)
(* the commit.  Module ApprovalNode looks inside the drive of one node and *)
(* at suspensions and crashes; here a visit of a node is one action and    *)
(* the interest is in what the operations do to each other's rows.         *)
(*                                                                         *)
(* A time is a place in the order of the answers: answered holds the       *)
(* completed rows, oldest first, and born counts the answers that were     *)
(* there when a row was created, so that "created after the end of t" is   *)
(* born >= place of t.                                                     *)
(***************************************************************************)
EXTENDS CountersignRule, Approvers

CONSTANTS Flows,       \* process definitions looked at
          End, NoNode, \* the end node; no node
          MaxRows,     \* bound: rows of the instance at a time
          MaxRecall    \* MaxRecallCountPerInstance

ModeType == {"single", "any", "countersign", "vote"}
Strategy == {"terminate", "toPrev", "toStarter"}

(* A definition with its starter and the administrators of its tenant: the *)
(* user tasks in order, their approval mode, approver, policies for a      *)
(* starter among the approvers and for none, vote rule and reject strategy,*)
(* and the people and the operations that meet on it (a bound on the      *)
(* model).                                                                 *)
ASSUME FlowAssumption ==
  \A f \in Flows :
    /\ f.nodes \in Seq(ToSet(f.nodes)) /\ f.nodes # <<>> /\ IsInjective(f.nodes)
    /\ \A i \in DOMAIN f.nodes :
         LET n == f.nodes[i]
         IN  /\ n \notin {End, NoNode}
             /\ f.mode[n] \in ModeType
             /\ ValidRule(f.rule[n])
             /\ f.reject[n] \in Strategy
             /\ f.approver[n] \in Approver
             /\ f.self[n] \in SelfApproval
             /\ f.empty[n] \in EmptyPolicy
    /\ f.starter \in User
    /\ f.admins \subseteq User
    /\ f.people \subseteq User /\ IsFiniteSet(f.people)
    /\ f.uses \subseteq STRING
ASSUME NodeAssumption == End # NoNode
ASSUME RowBounds == MaxRows \in Nat /\ MaxRecall \in Nat

(* The resolver answers with a list of users. *)
ASSUME ResolverAssumption ==
  \A f \in Flows : \A n \in ToSet(f.nodes) :
    ResolveAssignees(f.approver[n], f.self[n], f.starter) \in Seq(User)

VARIABLES def,       \* the definition of the instance
          inst,      \* wf_instance.status; ended instances are archived
          task,      \* wf_task: the rows of the instance by id
          answered,  \* ids of completed rows, in the order they ended
          asks,      \* nodes that a committed transaction wants driven
          at,        \* the node the drive in the gate is at
          auto,      \* the node whose new tasks the drive may answer itself
          resets,    \* what a rejecting drive has yet to clear, then its target
          recalls,   \* the instance's recall count
          past,      \* archived votes of people: <<node, user>>
          last       \* node of the last answer of a completed instance

rowVars == <<task, answered>>
driveVars == <<asks, at, auto, resets>>
histVars == <<recalls, past, last>>
vars == <<def, inst, rowVars, driveVars, histVars>>

NoId == 0
Id == 1..MaxRows
RowStatus == {"pending", "active", "completed", "terminated"}
Reason == {"none", "approved", "rejected", "claimed_by_other", "threshold", "sibling"}
AnswerBy == {"assignee", "proxy", "system"}
Row(node) == [node : {node}, parent : Id \cup {NoId}, pool : SUBSET (User \cup {Nobody}),
              assignee : User \cup {Nobody}, owner : User \cup {Nobody},
              claimed : BOOLEAN, closedBy : Id \cup {NoId},
              status : RowStatus, reason : Reason,
              addedBy : User \cup {Nobody}, by : AnswerBy, fallback : BOOLEAN, \* to approve for the starter
              born : 0..MaxRows]

-----------------------------------------------------------------------------
(* Nodes and rows.                                                         *)

Nodes == ToSet(def.nodes)
Place(n) == CHOOSE i \in DOMAIN def.nodes : def.nodes[i] = n
After(n) == IF Place(n) = Len(def.nodes) THEN End ELSE def.nodes[Place(n) + 1]
Region(from, to) == {n \in Nodes : Place(from) <= Place(n) /\ Place(n) <= Place(to)}
Uses(op) == op \in def.uses
People == def.people

Ids == DOMAIN task
Main(i) == task[i].parent = NoId
MainRows(n) == {i \in Ids : task[i].node = n /\ Main(i)}
Subs(i) == {j \in Ids : task[j].parent = i}
AtNode(n) == {i \in Ids : task[i].node = n}
Open(i) == task[i].status \in {"pending", "active"}
Active(i) == task[i].status = "active"
Completed(i) == task[i].status = "completed"
Approved(i) == Completed(i) /\ task[i].reason = "approved"
Rejected(i) == Completed(i) /\ task[i].reason = "rejected"
Mode(i) == def.mode[task[i].node]
NodeRule(n) == IF def.mode[n] = "vote" THEN def.rule[n] ELSE [type |-> "all", value |-> 0]
RuleOf(i) == IF task[i].fallback THEN [type |-> "any", value |-> 0] ELSE NodeRule(task[i].node)
ByVotes(n) == def.mode[n] \in {"countersign", "vote"}
EndOf(i) == IF Completed(i) THEN CHOOSE k \in DOMAIN answered : answered[k] = i ELSE 0

(* Ids are never used twice: one that a row still refers to is not free. *)
Nth(ids, k) == CHOOSE i \in ids : Cardinality({j \in ids : j <= i}) = k
Free == {i \in Id : i \notin Ids /\ \A j \in Ids : i \notin {task[j].parent, task[j].closedBy}}
RoomFor(k) == Cardinality(Free) >= k
Fresh(k) == Nth(Free, k)
WithNew(rows, new) ==
  LET id == [k \in DOMAIN new |-> Fresh(k)]
  IN  [i \in DOMAIN rows \cup Range(id) |->
         IF i \in DOMAIN rows THEN rows[i] ELSE new[CHOOSE k \in DOMAIN new : id[k] = i]]

NewRow(n, parent, status, assignee, pool) ==
  [node |-> n, parent |-> parent, pool |-> pool, assignee |-> assignee, owner |-> Nobody,
   claimed |-> FALSE, closedBy |-> NoId, status |-> status, reason |-> "none",
   addedBy |-> Nobody, by |-> "assignee", fallback |-> FALSE, born |-> Len(answered)]

(* Rows leave wf_task, or take their answer back: the order of the other   *)
(* answers stays.                                                          *)
Staying(gone) == {k \in DOMAIN answered : answered[k] \notin gone}
Unanswer(gone) == [k \in 1..Cardinality(Staying(gone)) |-> answered[Nth(Staying(gone), k)]]
Earlier(born, gone) == born - Cardinality({k \in 1..born : answered[k] \in gone})
Without(rows, gone) ==
  [i \in DOMAIN rows \ gone |->
     [rows[i] EXCEPT !.born = Earlier(@, gone),
                     !.closedBy = IF @ \in gone THEN NoId ELSE @]]
Archive(gone) == task' = Without(task, gone) /\ answered' = Unanswer(gone)

(* checkCountersignSubTaskCompletion over the sub-tasks of p in rows. *)
Electorate(rows, p) == {j \in DOMAIN rows : rows[j].parent = p /\ rows[j].status # "terminated"}
VotesIn(rows, p) == {j \in Electorate(rows, p) : rows[j].status = "completed"}
Approvals(rows, p) == {j \in VotesIn(rows, p) : rows[j].reason = "approved"}
Tally(rows, p) == [total |-> Cardinality(Electorate(rows, p)),
                   voted |-> Cardinality(VotesIn(rows, p)),
                   yes |-> Cardinality(Approvals(rows, p))]
DecidedBy(rule, rows, p) == LET t == Tally(rows, p)
                            IN  t.total > 0 /\ Decides(rule, t.total, t.voted, t.yes)
Decided(rows, p) == DecidedBy(RuleOf(p), rows, p)
Favours(rows, p) == LET t == Tally(rows, p)
                    IN  Approves(RuleOf(p), t.total, t.voted, t.yes)

-----------------------------------------------------------------------------
(* The drive.                                                              *)

(* A transaction commits the rows and asks for a drive of node n. *)
Ask(n) == asks' = asks \cup {n}

(* ExecuteNext has the gate: an ended instance is left alone. *)
GateFree == at = NoNode /\ auto = NoNode /\ resets = <<>>
ExecuteNext(n) ==
  /\ GateFree
  /\ n \in asks
  /\ asks' = asks \ {n}
  /\ at' = IF inst = "active" THEN n ELSE NoNode
  /\ UNCHANGED <<def, inst, rowVars, auto, resets, histVars>>

(* OnMsg finds no task of the node and creates its tasks: one to claim for *)
(* a pool, one for the first approver, one each for or-sign, and a parent  *)
(* without an assignee with a sub-task each for countersign and vote.      *)
Asked(n) == ResolveAssignees(def.approver[n], def.self[n], def.starter)
Assigned(n, u) == NewRow(n, NoId, "active", u, {})
ToClaim(n, pool) == NewRow(n, NoId, "pending", Nobody, pool)
ForAll(n, who) ==
  <<Assigned(n, Nobody)>> \o [i \in DOMAIN who |-> NewRow(n, Fresh(1), "active", who[i], {})]
ApproverTasks(n, who) ==
  IF ByVotes(n) THEN ForAll(n, who)
  ELSE IF HasPool(def.approver[n]) THEN <<ToClaim(n, ToSet(who))>>
  ELSE IF def.mode[n] = "any" THEN [i \in DOMAIN who |-> Assigned(n, who[i])]
  ELSE <<Assigned(n, who[1])>>

(* Without an approver.  The administrator gets a single task on a node of *)
(* votes too, whose parent then lacks sub-tasks when it is judged.         *)
FallbackTasks(n) ==
  LET fallback == HandleEmptyApprovers(def.empty[n], def.approver[n], def.starter, def.admins)
      one == CHOOSE u \in fallback.people : TRUE
      rows == CASE fallback.kind = "pool" -> <<ToClaim(n, fallback.people)>>
                [] fallback.kind = "auto" /\ ByVotes(n) -> ForAll(n, <<one>>)
                [] OTHER -> <<Assigned(n, one)>>
  IN  [k \in DOMAIN rows |-> [rows[k] EXCEPT !.fallback = fallback.kind = "auto"]]
NewTasks(n) == IF Asked(n) = <<>> THEN FallbackTasks(n) ELSE ApproverTasks(n, Asked(n))

Create(n) ==
  /\ at = n /\ n # End
  /\ inst = "active"
  /\ MainRows(n) = {}
  /\ RoomFor(Len(NewTasks(n)))
  /\ task' = WithNew(task, NewTasks(n))
  /\ at' = NoNode
  /\ auto' = IF Asked(n) = <<>> \/ def.self[n] = "autoApprove" THEN n ELSE NoNode
  /\ UNCHANGED <<def, inst, answered, asks, resets, histVars>>

(* OnMsg judges the tasks the node has.  A drive is asked for only when    *)
(* the node is decided; one that finds it undecided is in ApprovalNode.    *)
TheMain(n) == CHOOSE i \in MainRows(n) : \A j \in MainRows(n) : i <= j
NoVoters(n) == ByVotes(n) /\ Electorate(task, TheMain(n)) = {}
AllAnswered(n) ==
  CASE def.mode[n] = "single" -> \A i \in MainRows(n) : Completed(i)
    [] def.mode[n] = "any" -> \E i \in MainRows(n) : Completed(i)
    [] OTHER -> DecidedBy(NodeRule(n), task, TheMain(n))
SomeRejected(n) == \E i \in MainRows(n) : Rejected(i)
Passes(n) == /\ AllAnswered(n)
             /\ ~SomeRejected(n)
             /\ \E i \in MainRows(n) : Approved(i)
Refused(n) == \/ def.mode[n] = "countersign" /\ SomeRejected(n)
              \/ AllAnswered(n) /\ ~Passes(n)
Judged(n) == at = n /\ n # End /\ inst = "active" /\ MainRows(n) # {}

TellSuccess(n) ==
  /\ Judged(n)
  /\ ~NoVoters(n) /\ Passes(n)
  /\ at' = After(n)
  /\ UNCHANGED <<def, inst, rowVars, asks, auto, resets, histVars>>

(* An ended instance and its tasks move to the history tables; of those,   *)
(* only the votes of people matter later.                                  *)
Human(i) == Completed(i) /\ task[i].assignee # Nobody /\ task[i].by = "assignee"
EndInstance(status) ==
  /\ inst' = status
  /\ Archive(Ids)
  /\ past' = IF status = "completed"
             THEN past \cup {<<task[i].node, task[i].assignee>> : i \in {j \in Ids : Human(j)}}
             ELSE {}
  /\ last' = IF status = "completed" /\ answered # <<>>
             THEN task[answered[Len(answered)]].node ELSE NoNode
  /\ UNCHANGED recalls

(* The end node completes the instance. *)
CompleteProcessInstance ==
  /\ at = End
  /\ inst = "active"
  /\ EndInstance("completed")
  /\ at' = NoNode
  /\ UNCHANGED <<def, asks, auto, resets>>

(* handleRejection.  A jump clears the tasks of every node from its target *)
(* to the rejecting one, and runs the target on the same goroutine; to the *)
(* starter means the first user task, and a node without a previous user   *)
(* task terminates the instance like one without a strategy.               *)
JumpTarget(n) ==
  CASE def.reject[n] = "terminate" -> NoNode
    [] def.reject[n] = "toStarter" -> def.nodes[1]
    [] def.reject[n] = "toPrev" -> IF Place(n) = 1 THEN NoNode ELSE def.nodes[Place(n) - 1]
RegionWithoutSelf(from, to) == SubSeq(def.nodes, Place(from), Place(to) - 1) \* slip
RegionSeq(from, to) == SubSeq(def.nodes, Place(from), Place(to))
HandleRejection(n) ==
  /\ Judged(n)
  /\ NoVoters(n) \/ Refused(n)
  /\ \/ /\ NoVoters(n) \/ JumpTarget(n) = NoNode
        /\ EndInstance("terminated")
        /\ UNCHANGED resets
     \/ /\ ~NoVoters(n) /\ JumpTarget(n) # NoNode
        /\ resets' = RegionSeq(JumpTarget(n), n) \o <<JumpTarget(n)>>
        /\ UNCHANGED <<inst, rowVars, histVars>>
  /\ at' = NoNode
  /\ UNCHANGED <<def, asks, auto>>

(* SupersedeNodeTasks, one transaction for each node of the region; on an  *)
(* ended instance it fails, which is only logged.                          *)
SupersedeNodeTasks ==
  /\ Len(resets) > 1
  /\ resets' = Tail(resets)
  /\ IF inst = "active" THEN Archive(AtNode(Head(resets))) ELSE UNCHANGED rowVars
  /\ UNCHANGED <<def, inst, asks, at, auto, histVars>>

(* The nested ExecuteNext of the target. *)
Jump ==
  /\ Len(resets) = 1
  /\ at' = IF inst = "active" THEN resets[1] ELSE NoNode
  /\ resets' = <<>>
  /\ UNCHANGED <<def, inst, rowVars, asks, auto, histVars>>

(* The drive meets an ended instance: CreateTask and the end node refuse.  *)
StopAtEnded ==
  /\ at # NoNode
  /\ inst # "active"
  /\ at' = NoNode
  /\ UNCHANGED <<def, inst, rowVars, asks, auto, resets, histVars>>

Drive ==
  \/ \E n \in Nodes : \/ ExecuteNext(n)
                      \/ Create(n)
                      \/ TellSuccess(n)
                      \/ HandleRejection(n)
  \/ CompleteProcessInstance
  \/ SupersedeNodeTasks
  \/ Jump
  \/ StopAtEnded

RowsInit ==
  /\ def \in Flows
  /\ inst = "active"
  /\ task = <<>>
  /\ answered = <<>>
  /\ asks = {}
  /\ at = def.nodes[1]
  /\ auto = NoNode
  /\ resets = <<>>
  /\ recalls = 0
  /\ past = {}
  /\ last = NoNode
=============================================================================
