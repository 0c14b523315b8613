-------------------------------- MODULE Inbox --------------------------------
(***************************************************************************)
(* What a user's lists show: todo, done, copies, applications, and the     *)
(* counts on their tabs (dao/instance_dao.go, runtime_service_impl.go).    *)
(*                                                                         *)
(* An instance is [id, home, status, why, starter, process]: its row is in *)
(* the running tables ("run") or in the history ("hist"), never in both;   *)
(* why is the prefix of its end reason. A task row is [inst, home, holder, *)
(* status, type, prev, copy, pool], pool the entities offered the task.    *)
(* An entity of a user is the user, a role or a department.                *)
(*                                                                         *)
(* Left out: the tenant (in every query), the keyword and the dates (a     *)
(* conjunct more on both sides), the order and the pages.                  *)
(***************************************************************************)
EXTENDS FiniteSets

CONSTANTS EntitiesOf  \* the entities a user belongs to

NoScope == [statuses |-> {}, why |-> {}, whyNot |-> {}]

(* A tab of the list, as conditions on the status and the end reason. An   *)
(* unknown tab is no condition.                                            *)
InstanceStatusScope(tab) ==
  IF tab \in {"active", "completed", "suspended", "draft"} THEN [NoScope EXCEPT !.statuses = {tab}]
  ELSE IF tab \in {"rejected", "withdrawn"}
       THEN [NoScope EXCEPT !.statuses = {"terminated"}, !.why = {tab}]
  ELSE IF tab = "terminated"
       THEN [NoScope EXCEPT !.statuses = {tab}, !.whyNot = {"rejected", "withdrawn"}]
  ELSE NoScope

InstanceStatusBuckets(withDraft) ==
  {"active", "completed", "rejected", "withdrawn", "suspended", "terminated"}
    \cup (IF withDraft THEN {"draft"} ELSE {})

InScope(instance, scope) ==
  /\ scope.statuses # {} => instance.status \in scope.statuses
  /\ scope.why # {} => instance.why \in scope.why
  /\ instance.why \notin scope.whyNot

(* A tab counts a row by its own condition, which reads the end reason     *)
(* only where the tab names statuses.                                      *)
BucketWhere(instance, scope) == scope.statuses # {} => InScope(instance, scope)

-----------------------------------------------------------------------------
(* Lists by the tasks of the instances. A query is [user, by, statuses,    *)
(* copies, scope]: by is "holder", "candidate" (also what the user may     *)
(* claim) or "trace" (also what the user handed on).                       *)
Trace(user, task) == task.type \in {"forward", "reassign"} /\ task.prev = user

(* The row a transfer, a reassignment or a delegation writes: archived at  *)
(* once, held by nobody, with the task's former holder.                    *)
ActionTraceRow(task, type, nobody) ==
  [task EXCEPT !.home = "hist", !.holder = nobody, !.status = "completed", !.type = type,
               !.prev = task.holder, !.copy = FALSE, !.pool = {}]

AssigneeMatches(q, task) ==
  \/ task.holder = q.user
  \/ q.by = "candidate" /\ task.status = "pending" /\ task.pool \cap EntitiesOf[q.user] # {}
  \/ q.by = "trace" /\ task.home = "hist" /\ Trace(q.user, task)

TaskMatches(q, task) ==
  /\ AssigneeMatches(q, task)
  /\ task.status \in q.statuses
  /\ q.copies => task.copy

(* The branches of the union: running tasks of running instances, archived *)
(* tasks of archived ones, and, for the trace alone, what was handed on in *)
(* an instance that still runs (none of the other task conditions there).  *)
Joins(q, instance, task) ==
  /\ task.inst = instance.id
  /\ \/ task.home = instance.home /\ TaskMatches(q, task)
     \/ /\ q.by = "trace"
        /\ instance.home = "run" /\ task.home = "hist"
        /\ Trace(q.user, task)

ListByTaskConditions(q, instances, tasks) ==
  {i \in instances :
     /\ i.status # "deleted"
     /\ InScope(i, q.scope)
     /\ \E t \in tasks : Joins(q, i, t)}

CountTaskInstancesByBuckets(q, tabs, instances, tasks) ==
  LET found == ListByTaskConditions(q, instances, tasks) IN
  [tab \in tabs |-> Cardinality({i \in found : BucketWhere(i, InstanceStatusScope(tab))})]

-----------------------------------------------------------------------------
(* Lists by the instances themselves: running and archived rows. Deleted   *)
(* ones are left out when no status is asked for.                          *)
GetInstancesUnion(starter, processes, scope, instances) ==
  {i \in instances :
     /\ InScope(i, scope)
     /\ scope.statuses = {} => i.status # "deleted"
     /\ starter # {} => i.starter \in starter
     /\ processes # {} => i.process \in processes}

CountInstancesUnionByBuckets(starter, tabs, instances) ==
  LET found == GetInstancesUnion(starter, {}, NoScope, instances) IN
  [tab \in tabs |-> Cardinality({i \in found : BucketWhere(i, InstanceStatusScope(tab))})]

(* A filter by key and by definition. versions: the definitions of the key *)
(* (all of them), filtered is FALSE when nothing is asked for.             *)
ResolveProcessIDFilter(key, id, versions) ==
  [ids |-> IF key = {} THEN id ELSE versions,
   noMatch |-> key # {} /\ (versions = {} \/ ~ id \subseteq versions)]

GetProcessInstanceUnionList(key, id, versions, statuses, instances) ==
  LET filter == ResolveProcessIDFilter(key, id, versions) IN
  IF filter.noMatch THEN {}
  ELSE GetInstancesUnion({}, filter.ids, [NoScope EXCEPT !.statuses = statuses], instances)

-----------------------------------------------------------------------------
(* The pages of a user.                                                    *)
TodoQuery(user) ==
  [user |-> user, by |-> "candidate", statuses |-> {"pending", "active"}, copies |-> FALSE,
   scope |-> InstanceStatusScope("active")]
DoneQuery(user, tab) ==
  [user |-> user, by |-> "trace", statuses |-> {"completed", "returned"}, copies |-> FALSE,
   scope |-> InstanceStatusScope(tab)]
CcQuery(user) ==
  [user |-> user, by |-> "holder", statuses |-> {"completed"}, copies |-> TRUE, scope |-> NoScope]

GetTodo(user, instances, tasks) == ListByTaskConditions(TodoQuery(user), instances, tasks)
GetDone(user, tab, instances, tasks) == ListByTaskConditions(DoneQuery(user, tab), instances, tasks)
GetCc(user, instances, tasks) == ListByTaskConditions(CcQuery(user), instances, tasks)
CountDoneByBuckets(user, instances, tasks) ==
  CountTaskInstancesByBuckets(DoneQuery(user, "all"), InstanceStatusBuckets(FALSE), instances, tasks)
GetMyApplications(user, tab, instances) ==
  GetInstancesUnion({user}, {}, InstanceStatusScope(tab), instances)
CountMyApplicationsByBuckets(user, instances) ==
  CountInstancesUnionByBuckets({user}, InstanceStatusBuckets(TRUE), instances)
CountMyApplications(user, instances) == Cardinality(GetMyApplications(user, "all", instances))
=============================================================================
