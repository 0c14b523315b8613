------------------------------ MODULE Approvers ------------------------------
(***************************************************************************)
(* Whom a user task asks (components/approver_resolver_builtin.go,         *)
(* user_task_assignee.go, user_task_empty_approver.go): the approvers its  *)
(* type resolves to, what becomes of the starter among them, and what is   *)
(* done when nobody is left.  The identity service answers as the host     *)
(* does; a failing one fails the node and is left out.                     *)
(***************************************************************************)
EXTENDS FiniteSetsExt, SequencesExt

CONSTANTS User,    \* users of the tenant
          Nobody,  \* no user; in a pool, the placeholder that nobody is
          Boss,    \* GetUserManagerID: the manager of a user, or nobody
          Chief    \* the manager of a user's department, or nobody
ASSUME OrganisationAssumption ==
  /\ Nobody \notin User
  /\ Boss \in [User -> User \cup {Nobody}]
  /\ Chief \in [User -> User \cup {Nobody}]

ApproverType == {"user", "role", "initiatorSelf", "manager", "multiLevelManager"}
SelfApproval == {"none", "skip", "autoApprove", "delegateToManager", "delegateToDeptManager"}
EmptyPolicy == {"tenant_admin", "auto_approve", "park"}
Approver == [type : ApproverType, ids : Seq(User), levels : Int]

(* dedupeIDs: the first of equal ones stays. *)
Dedupe(ids) == FoldLeft(LAMBDA kept, u : IF Contains(kept, u) THEN kept ELSE Append(kept, u), <<>>, ids)

(* The people above u, u being at place 0. *)
Above(u, levels) ==
  LET up[k \in 0..levels] ==
        IF k = 0 THEN u ELSE IF up[k - 1] = Nobody THEN Nobody ELSE Boss[up[k - 1]]
  IN  up

(* The manager at one level, or nobody where the organisation ends. *)
DirectManager(starter, levels) ==
  LET top == IF levels <= 0 THEN 1 ELSE levels
      manager == Above(starter, top)[top]
  IN  IF manager = Nobody THEN <<>> ELSE <<manager>>

(* Every manager up to a level, below zero all of them, each asked once:   *)
(* the chain ends at the top and where it comes back to somebody on it.    *)
MultiLevelManager(starter, levels) ==
  LET limit == IF levels < 0 THEN Cardinality(User) ELSE levels
      up == Above(starter, limit)
      Reached(k) == \A j \in 1..k : up[j] # Nobody /\ up[j] \notin {up[i] : i \in 0..(j - 1)}
      length == Max({k \in 0..limit : Reached(k)})
  IN  [k \in 1..length |-> up[k]]

ResolvedApprovers(approver, starter) ==
  CASE approver.type = "manager" -> DirectManager(starter, approver.levels)
    [] approver.type = "multiLevelManager" -> MultiLevelManager(starter, approver.levels)
    [] approver.type = "initiatorSelf" -> <<starter>>
    [] OTHER -> Dedupe(approver.ids)

(* The starter's place goes to somebody else, who is asked once.           *)
ReplaceAssignee(asked, from, to) ==
  IF Contains(asked, to) THEN SelectSeq(asked, LAMBDA u : u # from)
                         ELSE ReplaceAll(asked, from, to)
DelegateManager(u) == IF Boss[u] # Nobody THEN Boss[u] ELSE Chief[u]
HandleSelfApproval(policy, starter, asked) ==
  LET Instead(u) == IF u = Nobody THEN asked ELSE ReplaceAssignee(asked, starter, u)
  IN  CASE ~Contains(asked, starter) -> asked
        [] policy = "skip" -> SelectSeq(asked, LAMBDA u : u # starter)
        [] policy = "delegateToManager" -> Instead(DelegateManager(starter))
        [] policy = "delegateToDeptManager" -> Instead(Chief[starter])
        [] OTHER -> asked
ResolveAssignees(approver, self, starter) ==
  HandleSelfApproval(self, starter, ResolvedApprovers(approver, starter))

(* Role tasks that one person answers are claimed from a pool. *)
HasPool(approver) == approver.type = "role"

(* handleEmptyApprovers: an administrator other than the starter, the      *)
(* system in the starter's name, or a parked task, never with an empty     *)
(* pool, which anybody could claim from.                                   *)
Placeholder == {Nobody}
ParkPool(approver, admins) ==
  IF HasPool(approver) THEN IF approver.ids = <<>> THEN Placeholder ELSE ToSet(approver.ids)
  ELSE IF admins = {} THEN Placeholder
  ELSE admins
HandleEmptyApprovers(policy, approver, starter, admins) ==
  LET others == admins \ {starter}
      Fallback(kind, people) == [kind |-> kind, people |-> people]
  IN  CASE policy = "auto_approve" -> Fallback("auto", {starter})
        [] policy = "tenant_admin" /\ Cardinality(others) = 1 -> Fallback("assign", others)
        [] policy = "tenant_admin" /\ Cardinality(others) > 1 -> Fallback("pool", others)
        [] policy = "tenant_admin" /\ admins = {starter} -> Fallback("auto", {starter})
        [] OTHER -> Fallback("pool", ParkPool(approver, admins))
=============================================================================
