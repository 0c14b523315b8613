---------------------------- MODULE InstanceView ----------------------------
(***************************************************************************)
(* What the detail page of an instance shows to one user: the list of its  *)
(* tasks, whether the user may see it, the task the user is to act on, the *)
(* buttons of the starter, the timeline with its marks, and who has been   *)
(* asked at a node: service/runtime_instance_detail.go and                 *)
(* service/task_service_candidates.go.                                     *)
(*                                                                         *)
(* A row has an id, a parent (0: none), a type, a status, an assignee, a   *)
(* node, the times it was created and ended (0: not yet), the user who     *)
(* wrote it and the assignee before it (rows that trace a transfer or a    *)
(* reassignment), the fields of the form as they were then (NoForm: none   *)
(* can be read), whether a human completed it and how it was answered.     *)
(***************************************************************************)
EXTENDS Integers, SequencesExt, FiniteSetsExt

CONSTANTS Nobody, NoForm

Traces == {"forward", "reassign", "delegate"}
Answered(row) == row.type = "userTask" /\ row.status = "completed"

(* sort.SliceStable: rows that neither come first keep their order.        *)
Sorted(rows, Before(_, _)) ==
  LET UpTo(i) == {j \in DOMAIN rows : \/ Before(rows[j], rows[i])
                                      \/ ~Before(rows[i], rows[j]) /\ j <= i} IN
  [k \in DOMAIN rows |-> rows[CHOOSE i \in DOMAIN rows : Cardinality(UpTo(i)) = k]]

-----------------------------------------------------------------------------
(* The rows of the page. Go's append: a slice of n pointers made by one    *)
(* append has room for the next size the allocator offers.                 *)
Sizes == {1, 2, 3, 4, 6, 8, 10, 12, 14, 16}
Room(n) == IF n = 0 THEN 0 ELSE Min({s \in Sizes : s >= n})

OlderFirst(rows) == Sorted(rows, LAMBDA r, s : r.created < s.created)
IdsIn(rows) == {r.id : r \in ToSet(rows)}

(* The rows of a running instance and those in the history that are not    *)
(* among them, by creation.                                                *)
Unseen(running, history) == SelectSeq(history, LAMBDA r : r.id \notin IdsIn(running))
Timeline(running, history) == OlderFirst(running \o Unseen(running, history))

(* What the page takes for the rows of the running instance from there on: *)
(* the timeline is appended to and sorted in their own array if there is   *)
(* room for it, so that they become its first ones.                        *)
Shares(running, history) == Len(running) + Len(Unseen(running, history)) <= Room(Len(running))
RunningRows(running, history) ==
  IF Shares(running, history) THEN SubSeq(Timeline(running, history), 1, Len(running))
  ELSE running

-----------------------------------------------------------------------------
(* isInstanceVisibleToUser: the starter, whoever was asked, and whoever    *)
(* passed a task on or lost it; isPendingCandidateVisible: the members of  *)
(* the pool of an unclaimed task's node, or anybody where it has none, and *)
(* nobody where the pool cannot be told.                                   *)
IsInstanceVisibleToUser(starter, rows, u) ==
  \/ starter = u
  \/ \E r \in ToSet(rows) : \/ r.assignee = u
                            \/ r.type \in Traces /\ u \in {r.by, r.prev}
IsUserCandidate(pool, u) == pool.told /\ (pool.members = {} \/ u \in pool.members)
IsPendingCandidateVisible(rows, poolOf, u) ==
  \E r \in ToSet(rows) : r.status = "pending" /\ IsUserCandidate(poolOf[r.node], u)
IsVisible(admin, starter, rows, poolOf, u) ==
  \/ admin
  \/ u # Nobody /\ (\/ IsInstanceVisibleToUser(starter, rows, u)
                    \/ IsPendingCandidateVisible(rows, poolOf, u))

(* currentUserTask: the first of the rows the user has in hand, else has   *)
(* suspended, else may claim (0: none).                                    *)
First(rows, Test(_)) == IF \E i \in DOMAIN rows : Test(rows[i])
                        THEN rows[Min({i \in DOMAIN rows : Test(rows[i])})].id ELSE 0
CurrentUserTask(rows, poolOf, u) ==
  LET Has(status, r) == r.assignee = u /\ r.status = status
      inHand == First(rows, LAMBDA r : Has("active", r))
      asleep == First(rows, LAMBDA r : Has("suspended", r))
      claimable == First(rows, LAMBDA r : r.status = "pending" /\ IsUserCandidate(poolOf[r.node], u)) IN
  IF u = Nobody THEN 0
  ELSE CHOOSE t \in {inHand, asleep, claimable} :
         t = IF inHand # 0 THEN inHand ELSE IF asleep # 0 THEN asleep ELSE claimable

(* The row whose variables the page shows where the user has no task: the  *)
(* last one that is neither a trace nor the note of a recall.              *)
SourceRow(rows) ==
  LET real == {i \in DOMAIN rows : rows[i].type \notin Traces \cup {"recall"}} IN
  IF real = {} THEN 0 ELSE rows[Max(real)].id

(* The nodes the forecast sets out from. *)
ActiveNodes(rows) ==
  {r.node : r \in {s \in ToSet(rows) : s.status \in {"active", "pending", "suspended"}}}

-----------------------------------------------------------------------------
(* What the starter is offered by the state of the instance, and by the    *)
(* switches of the chain.                                                  *)
StarterActions(status, off) ==
  CASE status = "draft" -> {"activate", "delete"}
    [] status = "active" -> {"suspend", "withdraw", "urge"} \ off
    [] status = "suspended" -> {"activate"} \cup ({"terminate"} \ off)
    [] status = "failed" -> {"activate"} \cup ({"resubmit"} \ off)
    [] status = "terminated" -> {"resubmit"} \ off
    [] OTHER -> {}

(* What the operations allow the starter: WithdrawByInstance asks the      *)
(* nodes of all active main tasks as well, SuspendProcessInstance and      *)
(* TerminateInTx refuse drafts, DeleteProcessInstance takes any instance,  *)
(* RestartProcessInstance starts again what is still in the running table. *)
Archived == {"completed", "terminated", "deleted"}
Permitted(action, status, off, offAtNodes) ==
  CASE action = "withdraw" -> status = "active" /\ action \notin off \cup UNION offAtNodes
    [] action \in {"suspend", "terminate"} -> status \notin Archived \cup {"draft"}
    [] action \in {"activate", "resubmit"} -> status \notin Archived
    [] OTHER -> TRUE

(* Who may: an operator is a user of a tenant, an administrator of it, or  *)
(* the system; a task of nobody is for the latter two; a row without a     *)
(* tenant is anybody's, and one cascade of the engine acts for nobody.     *)
IsAdminOrSystem(operator) == operator.admin \/ operator.system
RequireInstanceOwnerAuthorized(operator, starter, cascade) ==
  \/ cascade
  \/ operator.user # Nobody /\ (IsAdminOrSystem(operator) \/ operator.user = starter)
RequireTaskOperatorAuthorized(operator, assignee) ==
  operator.user # Nobody /\ (IsAdminOrSystem(operator) \/ operator.user = assignee)
RequireAdminIdentity(operator) == operator.user # Nobody /\ IsAdminOrSystem(operator)
EnsureTenantAccess(operator, tenant) ==
  tenant = Nobody \/ operator.system \/ operator.tenant = tenant
RequireInspectionTenant(operator) ==
  RequireAdminIdentity(operator) /\ (operator.system \/ operator.tenant # Nobody)

-----------------------------------------------------------------------------
(* currentUserIsLastNodeVoter: the last node is that of the answer that    *)
(* ended last, the first of them in the list where two ended at once.      *)
LastAnswer(rows) ==
  LET done == {i \in DOMAIN rows : Answered(rows[i])}
      last == {i \in done : \A j \in done : rows[j].ended <= rows[i].ended} IN
  IF done = {} THEN 0 ELSE Min(last)
CurrentUserIsLastNodeVoter(rows, u) ==
  /\ LastAnswer(rows) # 0
  /\ \E r \in ToSet(rows) : /\ r.node = rows[LastAnswer(rows)].node
                            /\ r.status = "completed" /\ r.assignee = u /\ r.human

(* Task2ExecutionInfo, GetSubTasks: the timeline is a forest, a sub-task   *)
(* under its parent.                                                       *)
RECURSIVE Branch(_, _)
Branch(row, rows) ==
  LET subs == SelectSeq(rows, LAMBDA r : r.parent = row.id) IN
  [id |-> row.id, candidate |-> row.assignee = Nobody /\ row.status = "pending",
   subs |-> [i \in DOMAIN subs |-> Branch(subs[i], rows)]]
ApprovalList(rows) ==
  LET mains == SelectSeq(rows, LAMBDA r : r.parent = 0) IN
  [i \in DOMAIN mains |-> Branch(mains[i], rows)]

(* taskVariablesSnapshot, diffSnapshotKeys: fields of a form that differ.  *)
DiffSnapshotKeys(was, is) ==
  Cardinality({k \in DOMAIN was \cup DOMAIN is :
                 ~(k \in DOMAIN was /\ k \in DOMAIN is /\ was[k] = is[k])})

(* markFormModified: the completed rows with a readable form in the order  *)
(* they ended, each compared with the one before.                          *)
FormChain(rows) ==
  LET kept == SelectSeq(rows, LAMBDA r : /\ r.status = "completed"
                                         /\ r.type \in {"userTask", "startTask"}
                                         /\ r.form # NoForm)
      At(r) == IF r.ended = 0 THEN r.created ELSE r.ended IN
  Sorted(kept, LAMBDA r, s : \/ At(r) < At(s)
                             \/ At(r) = At(s) /\ r.created < s.created)
FormModified(rows) ==
  LET chain == FormChain(rows) IN
  [i \in {chain[k].id : k \in 2 .. Len(chain)} |->
     LET k == CHOOSE k \in 2 .. Len(chain) : chain[k].id = i IN
     [before |-> chain[k - 1].id, changed |-> DiffSnapshotKeys(chain[k - 1].form, chain[k].form)]]

-----------------------------------------------------------------------------
(* expandCandidateMembers: an entity of a pool stands for its members, for *)
(* none where they cannot be asked for; GetTaskCandidates fails there.     *)
Expand(entities, membersOf) == UNION {membersOf[e] : e \in entities \cap DOMAIN membersOf}
GetTaskCandidates(entities, membersOf) ==
  [told |-> entities \subseteq DOMAIN membersOf, members |-> Expand(entities, membersOf)]

(* GetNodeApprovalStatus: who has answered at the node of a task and who   *)
(* is asked: the completed rows of the node, the task's own sub-tasks, and *)
(* the pool of an unclaimed task.                                          *)
ApprovedList(task, rows) ==
  LET Named(r) == r.assignee # Nobody /\ r.status = "completed" IN
  SelectSeq(rows, LAMBDA r : Named(r) /\ r.node = task.node) \o
  SelectSeq(rows, LAMBDA r : Named(r) /\ r.parent = task.id)
PendingList(task, rows, pool) ==
  {r.assignee : r \in {s \in ToSet(rows) : s.parent = task.id /\ s.status # "completed"}}
    \cup (IF task.assignee = Nobody /\ pool.told THEN pool.members ELSE {})
=============================================================================
