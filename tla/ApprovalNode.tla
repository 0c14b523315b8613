---------------------------- MODULE ApprovalNode ----------------------------
(***************************************************************************)
(* One userTask node of one running instance, from the drive that creates  *)
(* its tasks to the drive that leaves it: approvals arriving on several    *)
(* goroutines, the drives that follow their commits, suspension of tasks   *)
(* and of the instance, the rescue of stuck instances and the restore      *)
(* after a crash.                                                          *)
(*                                                                         *)
(* A transaction of WithInstanceTx holds the instance row, so each is one  *)
(* action.  What runs outside a transaction, the drive above all, is cut   *)
(* into one action per transaction or read: goroutine p is at pc[p], and   *)
(* only one is inside the execution gate (module ExecGate).                *)
(*                                                                         *)
(* A definition marked "slip" is what the next one would be with a likely  *)
(* mistake in it; the specification never uses it.                         *)
(***************************************************************************)
EXTENDS CountersignRule, FiniteSets, Sequences

CONSTANTS Caller,      \* goroutines: API requests and the rescue patrol
          Approver,    \* users the node's approver setting resolves to
          Order,       \* the same users, in the order they were resolved
          Mode,        \* approval modes looked at
          Rules,       \* vote rules looked at
          Rescue,      \* rescue operations the host runs: ReDrive, Restore
          MaxTaskSuspends, \* bound: single tasks suspended
          MaxInstSuspends, \* bound: suspensions of the instance
          MaxCrashes,  \* bound: crashes of the process
          MaxPasses    \* bound: how far "passes" counts

ModeType == {"single", "any", "sequential", "countersign", "vote"}

ASSUME OrderAssumption == /\ Order \in Seq(Approver)
                          /\ Len(Order) > 0
                          /\ \A a \in Approver : \E i \in 1..Len(Order) : Order[i] = a
                          /\ \A i, j \in 1..Len(Order) : Order[i] = Order[j] => i = j
ASSUME ModeAssumption == Mode \subseteq ModeType
ASSUME RulesAssumption == \A r \in Rules : ValidRule(r)
ASSUME RescueAssumption == Rescue \subseteq {"ReDrive", "Restore"}
ASSUME BoundsAssumption == /\ MaxTaskSuspends \in Nat
                           /\ MaxInstSuspends \in Nat
                           /\ MaxCrashes \in Nat
                           /\ MaxPasses \in Nat

VARIABLES mode,        \* approveMode of the node
          rule,        \* approval_rule stored with its tasks
          inst,        \* wf_instance.status; terminated, completed: archived
          rows,        \* assigned wf_task rows of the node, oldest first
          main,        \* the unassigned parent row of countersign and vote
          next,        \* the task of the user task that follows the node
          passes,      \* how often the node told success
          rejected,    \* the node ended the instance as rejected
          pc,          \* where a goroutine is
          seen,        \* existingTasks as the drive in the gate read them
          taskSuspends, instSuspends, crashes   \* counts for the bounds

vars == <<mode, rule, inst, rows, main, next, passes, rejected, pc, seen,
          taskSuspends, instSuspends, crashes>>
counters == <<taskSuspends, instSuspends, crashes>>

RowStatus == {"active", "suspended", "completed", "terminated"}
MainStatus == RowStatus \cup {"none", "pending"}
Vote == {"none", "approved", "rejected"}
Row == [who : Approver, status : RowStatus, vote : Vote]
MainRow == [status : MainStatus, vote : Vote]
NoMain == [status |-> "none", vote |-> "none"]
InGate == {"node", "create", "judge", "advance", "append", "pass", "reject", "fail"}

TypeOK == /\ mode \in ModeType
          /\ ValidRule(rule)
          /\ inst \in {"active", "suspended", "terminated", "completed"}
          /\ rows \in Seq(Row)
          /\ main \in MainRow
          /\ next \in {"none", "active", "suspended", "terminated", "completed"}
          /\ passes \in 0..MaxPasses
          /\ rejected \in BOOLEAN
          /\ pc \in [Caller -> {"idle", "drive"} \cup InGate]
          /\ seen \in [rows : Seq(Row), main : MainRow]
          /\ taskSuspends \in 0..MaxTaskSuspends
          /\ instSuspends \in 0..MaxInstSuspends
          /\ crashes \in 0..MaxCrashes

-----------------------------------------------------------------------------
Nothing == [rows |-> <<>>, main |-> NoMain]

Live == inst \in {"active", "suspended"}
ByVotes == mode \in {"countersign", "vote"}
NoGate == TRUE                                                         \* slip
GateFree == \A p \in Caller : pc[p] \notin InGate
Goto(p, label) == pc' = [pc EXCEPT ![p] = label]

Mapped(rs, from, to) == [i \in DOMAIN rs |->
                           IF rs[i].status \in from THEN [rs[i] EXCEPT !.status = to] ELSE rs[i]]
CancelActive(rs) == Mapped(rs, {"active"}, "terminated")
Set(rs, i, status) == [rs EXCEPT ![i].status = status]
Voted(rs, i, vote) == [rs EXCEPT ![i].status = "completed", ![i].vote = vote]
Count(rs, P(_)) == Cardinality({i \in DOMAIN rs : P(rs[i])})
IsCompleted(r) == r.status = "completed"
IsApproved(r) == r.status = "completed" /\ r.vote = "approved"
IsRejected(r) == r.status = "completed" /\ r.vote = "rejected"
IsVoter(r) == r.status # "terminated"
IsActive(r) == r.status = "active"

(* checkCountersignSubTaskCompletion over sub-task rows. *)
DecidedAtEnd(rs) == Count(rs, IsVoter) = Count(rs, IsCompleted)        \* slip
Decided(rs) == Decides(rule, Count(rs, IsVoter), Count(rs, IsCompleted), Count(rs, IsApproved))
Favours(rs) == Approves(rule, Count(rs, IsVoter), Count(rs, IsCompleted), Count(rs, IsApproved))

Init == /\ mode \in Mode
        /\ rule \in (IF mode = "vote" THEN Rules ELSE {[type |-> "all", value |-> 0]})
        /\ inst = "active"
        /\ rows = <<>>
        /\ main = NoMain
        /\ next = "none"
        /\ passes = 0
        /\ rejected = FALSE
        /\ \E p \in Caller : pc = [q \in Caller |-> IF q = p THEN "node" ELSE "idle"]
        /\ seen = Nothing
        /\ taskSuspends = 0
        /\ instSuspends = 0
        /\ crashes = 0

-----------------------------------------------------------------------------
(* Approving or rejecting a task: one transaction, then perhaps a drive.   *)

CompletableTwice(i) == rows[i].status \in {"active", "completed"} /\ inst = "active" \* slip
Completable(i) == rows[i].status = "active" /\ inst = "active"

(* The first answer to an or-signed task terminates its active siblings. *)
Answered(i, vote) ==
  IF mode = "any" THEN CancelActive(Voted(rows, i, vote)) ELSE Voted(rows, i, vote)

CompleteTask(p, i, vote) ==
  /\ ~ByVotes
  /\ pc[p] = "idle"
  /\ Completable(i)
  /\ rows' = Answered(i, vote)
  /\ Goto(p, "drive")
  /\ UNCHANGED <<mode, rule, inst, main, next, passes, rejected, seen, counters>>

(* The vote closes the parent: early veto, or the rule is decided. *)
MainNotRead == TRUE                                                    \* slip
MainOpen == main.status # "completed"
Closes(cast, vote) ==
  /\ MainOpen
  /\ \/ rule.type = "all" /\ vote = "rejected"
     \/ Decided(cast)
ClosingVote(cast, vote) ==
  IF (rule.type = "all" /\ vote = "rejected") \/ ~Favours(cast) THEN "rejected" ELSE "approved"

CompleteSubTask(p, i, vote) ==
  /\ ByVotes
  /\ pc[p] = "idle"
  /\ Completable(i)
  /\ LET cast == Voted(rows, i, vote)
     IN  \/ /\ Closes(cast, vote)
            /\ main' = [status |-> "completed", vote |-> ClosingVote(cast, vote)]
            /\ rows' = CancelActive(cast)
            /\ Goto(p, "drive")
         \/ /\ ~Closes(cast, vote)
            /\ rows' = cast
            /\ UNCHANGED <<main, pc>>
  /\ UNCHANGED <<mode, rule, inst, next, passes, rejected, seen, counters>>

-----------------------------------------------------------------------------
(* The drive: ExecuteNext, then UserTaskNode.OnMsg on the same goroutine.  *)

(* ExecuteNext has the gate and looks at the instance: an archived one is  *)
(* left alone, a suspended one refused, and the failure only logged.       *)
ExecuteNext(p) ==
  /\ pc[p] = "drive"
  /\ GateFree
  /\ Goto(p, IF inst = "active" THEN "node" ELSE "idle")
  /\ UNCHANGED <<mode, rule, inst, rows, main, next, passes, rejected, seen, counters>>

(* OnMsg reads the node's tasks; archived ones are gone. *)
NoTasks == (rows = <<>> /\ main = NoMain) \/ ~Live
GetExistingTasks(p) ==
  /\ pc[p] = "node"
  /\ \/ NoTasks /\ Goto(p, "create") /\ UNCHANGED seen
     \/ ~NoTasks /\ Goto(p, "judge") /\ seen' = [rows |-> rows, main |-> main]
  /\ UNCHANGED <<mode, rule, inst, rows, main, next, passes, rejected, counters>>

(* CreateTask, under the row lock: an ended instance takes no task, one    *)
(* that is suspended takes it suspended.                                   *)
AcceptsAlways == TRUE                                                  \* slip
Accepts == Live
StatusIgnored == "active"                                              \* slip
StatusUnassigned == IF inst = "suspended" THEN "suspended" ELSE "pending" \* slip
NewStatus == IF inst = "suspended" THEN "suspended" ELSE "active"
NewRow(a, status) == [who |-> a, status |-> status, vote |-> "none"]

CreateRefused(p) ==
  /\ pc[p] \in {"create", "append"}
  /\ ~Accepts
  /\ Goto(p, "fail")
  /\ seen' = Nothing
  /\ UNCHANGED <<mode, rule, inst, rows, main, next, passes, rejected, counters>>

(* single and sequential start with the first approver's task. *)
CreateFirst(p) ==
  /\ pc[p] = "create"
  /\ mode \in {"single", "sequential"}
  /\ Accepts
  /\ rows' = Append(rows, NewRow(Order[1], NewStatus))
  /\ Goto(p, "idle")
  /\ UNCHANGED <<mode, rule, inst, main, next, passes, rejected, seen, counters>>

(* any: one task per approver, each created in a transaction of its own.   *)
CreateCandidate(p) ==
  /\ pc[p] = "create"
  /\ mode = "any"
  /\ Accepts
  /\ rows' = Append(rows, NewRow(Order[Len(rows) + 1], NewStatus))
  /\ Goto(p, IF Len(rows') = Len(Order) THEN "idle" ELSE "create")
  /\ UNCHANGED <<mode, rule, inst, main, next, passes, rejected, seen, counters>>

(* countersign and vote: the parent, then all sub-tasks, always active. *)
CreateMain(p) ==
  /\ pc[p] = "create"
  /\ ByVotes
  /\ main = NoMain
  /\ Accepts
  /\ main' = [status |-> NewStatus, vote |-> "none"]
  /\ UNCHANGED <<mode, rule, inst, rows, next, passes, rejected, pc, seen, counters>>

CreateSubTasks(p) ==
  /\ pc[p] = "create"
  /\ ByVotes
  /\ main # NoMain
  /\ Accepts
  /\ rows' = [i \in 1..Len(Order) |-> NewRow(Order[i], "active")]
  /\ Goto(p, "idle")
  /\ UNCHANGED <<mode, rule, inst, main, next, passes, rejected, seen, counters>>

(* The node judges the tasks it read; for countersign and vote the rule is *)
(* asked again about the sub-tasks as they are now.                        *)
NoVoters == ByVotes /\ (~Live \/ Count(rows, IsVoter) = 0)
TopLevel == IF ByVotes THEN <<seen.main>> ELSE seen.rows
AllTasksCompleted ==                                                   \* slip
  IF ByVotes THEN Decided(rows) ELSE Count(seen.rows, IsCompleted) = Len(seen.rows)
AllCompleted ==
  CASE mode = "single" -> Count(seen.rows, IsCompleted) = Len(seen.rows)
    [] mode = "any" -> Count(seen.rows, IsCompleted) > 0
    [] mode = "sequential" -> Count(seen.rows, IsCompleted) >= Len(Order)
    [] OTHER -> Decided(rows)
SomeRejected == Count(TopLevel, IsRejected) > 0
PassedByAll == Count(TopLevel, IsApproved) = Len(TopLevel)             \* slip
Passed == Count(TopLevel, IsApproved) > 0 /\ ~SomeRejected
Advances(rs) == /\ Count(rs, IsActive) = 0
                /\ Count(rs, IsCompleted) < Len(Order)

Judgement ==
  IF NoVoters THEN "fail"
  ELSE IF mode \in {"sequential", "countersign"} /\ SomeRejected THEN "reject"
  ELSE IF AllCompleted THEN (IF Passed THEN "pass" ELSE "reject")
  ELSE IF mode = "sequential" /\ Advances(seen.rows) THEN "advance"
  ELSE "idle"

Judge(p) ==
  /\ pc[p] = "judge"
  /\ Goto(p, Judgement)
  /\ seen' = Nothing
  /\ UNCHANGED <<mode, rule, inst, rows, main, next, passes, rejected, counters>>

(* sequential: the node reads its tasks again under taskOpMutex and, if    *)
(* nobody is at work, creates the task of the next approver.               *)
Advance(p) ==
  /\ pc[p] = "advance"
  /\ LET now == IF Live THEN rows ELSE <<>>
     IN  \/ Advances(now) /\ Goto(p, "append") /\ seen' = [Nothing EXCEPT !.rows = now]
         \/ ~Advances(now) /\ Goto(p, "idle") /\ UNCHANGED seen
  /\ UNCHANGED <<mode, rule, inst, rows, main, next, passes, rejected, counters>>

NextByTasks == Order[Len(seen.rows) + 1]                               \* slip
NextApprover == Order[Count(seen.rows, IsCompleted) + 1]
AppendTask(p) ==
  /\ pc[p] = "append"
  /\ Accepts
  /\ rows' = Append(rows, NewRow(NextApprover, NewStatus))
  /\ Goto(p, "idle")
  /\ seen' = Nothing
  /\ UNCHANGED <<mode, rule, inst, main, next, passes, rejected, counters>>

(* TellSuccess runs the following user task: it creates its task unless it *)
(* has one.                                                                *)
TellSuccess(p) ==
  /\ pc[p] = "pass"
  /\ passes' = IF passes < MaxPasses THEN passes + 1 ELSE passes
  /\ next' = IF next = "none" /\ Live THEN NewStatus ELSE next
  /\ Goto(p, "idle")
  /\ UNCHANGED <<mode, rule, inst, rows, main, rejected, seen, counters>>

(* Terminating or completing an instance ends its open tasks with it. *)
OpenStatus == {"active", "pending", "suspended"}
Archive(status) ==
  /\ inst' = status
  /\ rows' = Mapped(rows, OpenStatus, "terminated")
  /\ main' = IF main.status \in OpenStatus THEN [main EXCEPT !.status = "terminated"] ELSE main

(* Rejection terminates the instance, and so does a node that fails        *)
(* without a failure edge; on an ended instance neither does anything.     *)
EndInstance(p) ==
  /\ pc[p] \in {"reject", "fail"}
  /\ \/ /\ Live
        /\ Archive("terminated")
        /\ next' = IF next \in OpenStatus THEN "terminated" ELSE next
        /\ rejected' = (rejected \/ pc[p] = "reject")
     \/ /\ ~Live
        /\ UNCHANGED <<inst, rows, main, next, rejected>>
  /\ Goto(p, "idle")
  /\ UNCHANGED <<mode, rule, passes, seen, counters>>

-----------------------------------------------------------------------------
(* The rest of the service, as far as it touches this node.                *)

(* The following task is approved and the chain runs to its end node. *)
FinishNext ==
  /\ GateFree
  /\ inst = "active"
  /\ next = "active"
  /\ Archive("completed")
  /\ next' = "completed"
  /\ UNCHANGED <<mode, rule, passes, rejected, pc, seen, counters>>

(* The initiator or an administrator terminates the instance. *)
TerminateProcessInstance ==
  /\ Live
  /\ Archive("terminated")
  /\ next' = IF next \in OpenStatus THEN "terminated" ELSE next
  /\ UNCHANGED <<mode, rule, passes, rejected, pc, seen, counters>>

SuspendTask(i) ==
  /\ taskSuspends < MaxTaskSuspends
  /\ Live
  /\ rows[i].status = "active"
  /\ rows' = Set(rows, i, "suspended")
  /\ taskSuspends' = taskSuspends + 1
  /\ UNCHANGED <<mode, rule, inst, main, next, passes, rejected, pc, seen, instSuspends, crashes>>

WakeTask(i) ==                                                         \* slip
  /\ inst = "active"
  /\ rows[i].status # "active"
  /\ rows' = Set(rows, i, "active")
  /\ UNCHANGED <<mode, rule, inst, main, next, passes, rejected, pc, seen, counters>>
ActivateTask(i) ==
  /\ inst = "active"
  /\ rows[i].status = "suspended"
  /\ rows' = Set(rows, i, "active")
  /\ UNCHANGED <<mode, rule, inst, main, next, passes, rejected, pc, seen, counters>>

SuspendProcessInstance ==
  /\ instSuspends < MaxInstSuspends
  /\ inst = "active"
  /\ inst' = "suspended"
  /\ rows' = Mapped(rows, {"active"}, "suspended")
  /\ main' = IF main.status \in {"active", "pending"} THEN [main EXCEPT !.status = "suspended"] ELSE main
  /\ next' = IF next = "active" THEN "suspended" ELSE next
  /\ instSuspends' = instSuspends + 1
  /\ UNCHANGED <<mode, rule, passes, rejected, pc, seen, taskSuspends, crashes>>

(* Every suspended task wakes up: active if assigned, else pending. *)
ActivateProcessInstance ==
  /\ inst = "suspended"
  /\ inst' = "active"
  /\ rows' = Mapped(rows, {"suspended"}, "active")
  /\ main' = IF main.status = "suspended" THEN [main EXCEPT !.status = "pending"] ELSE main
  /\ next' = IF next = "suspended" THEN "active" ELSE next
  /\ UNCHANGED <<mode, rule, passes, rejected, pc, seen, counters>>

(* GetStuckProcessInstances: active, and no task active or pending. *)
HasTodo == \/ \E i \in DOMAIN rows : rows[i].status = "active"
           \/ main.status \in {"active", "pending"}
           \/ next = "active"
Stuck == inst = "active" /\ ~HasTodo

(* The patrol finds the instance and asks to drive its current activity    *)
(* again; by the time the drive has the gate this may be long past.        *)
ReDrive(p) ==
  /\ "ReDrive" \in Rescue
  /\ pc[p] = "idle"
  /\ Stuck
  /\ next = "none"
  /\ Goto(p, "drive")
  /\ UNCHANGED <<mode, rule, inst, rows, main, next, passes, rejected, seen, counters>>

(* RestoreProcessInstance runs the nodes of open tasks, behind the gate,   *)
(* whatever the status of the instance.                                    *)
Restore(p) ==
  /\ "Restore" \in Rescue
  /\ pc[p] = "idle"
  /\ GateFree
  /\ Live
  /\ (\E i \in DOMAIN rows : rows[i].status = "active") \/ main.status \in {"active", "pending"}
  /\ Goto(p, "node")
  /\ UNCHANGED <<mode, rule, inst, rows, main, next, passes, rejected, seen, counters>>

(* The process dies: what was committed stays, every drive is lost. *)
Crash ==
  /\ crashes < MaxCrashes
  /\ \E p \in Caller : pc[p] # "idle"
  /\ pc' = [p \in Caller |-> "idle"]
  /\ seen' = Nothing
  /\ crashes' = crashes + 1
  /\ UNCHANGED <<mode, rule, inst, rows, main, next, passes, rejected, taskSuspends, instSuspends>>

-----------------------------------------------------------------------------
Drive(p) == \/ ExecuteNext(p)
            \/ GetExistingTasks(p)
            \/ CreateRefused(p)
            \/ CreateFirst(p)
            \/ CreateCandidate(p)
            \/ CreateMain(p)
            \/ CreateSubTasks(p)
            \/ Judge(p)
            \/ Advance(p)
            \/ AppendTask(p)
            \/ TellSuccess(p)
            \/ EndInstance(p)

Answer(p) == \E i \in DOMAIN rows, vote \in {"approved", "rejected"} :
               CompleteTask(p, i, vote) \/ CompleteSubTask(p, i, vote)

Manage == \/ FinishNext
          \/ TerminateProcessInstance
          \/ \E i \in DOMAIN rows : SuspendTask(i)
          \/ \E i \in DOMAIN rows : ActivateTask(i)
          \/ SuspendProcessInstance
          \/ ActivateProcessInstance

Next == \/ \E p \in Caller : Drive(p)
        \/ \E p \in Caller : Answer(p)
        \/ \E p \in Caller : ReDrive(p)
        \/ \E p \in Caller : Restore(p)
        \/ Manage
        \/ Crash

Spec == Init /\ [][Next]_vars

(* A drive that has begun goes on, and the patrol keeps looking for stuck  *)
(* instances; nothing is assumed of users and administrators.              *)
FairSpec == /\ Spec
            /\ \A p \in Caller : WF_vars(Drive(p))
            /\ WF_vars(\E p \in Caller : ReDrive(p))

-----------------------------------------------------------------------------
Final(status) == status \in {"completed", "terminated"}

(* The node is left by its success edge only if the answers allow it: in   *)
(* sequential mode as many approvals as approvers, by votes an outcome     *)
(* that the full electorate could not have overturned.                     *)
Allowed == CASE mode = "sequential" -> Count(rows, IsApproved) >= Len(Order)
             [] ByVotes -> /\ main.status = "completed" /\ main.vote = "approved"
                           /\ Outcome(rule, Len(rows), Count(rows, IsApproved))
             [] OTHER -> Count(rows, IsApproved) > 0
NoBypass == \A p \in Caller : pc[p] = "pass" => Allowed

(* A node that decides by its own tasks ends the instance only because     *)
(* somebody rejected.                                                      *)
RejectedByAnswer ==
  \A p \in Caller : (pc[p] = "reject" /\ ~ByVotes) => Count(rows, IsRejected) > 0

(* sequential: nobody gets a task before all who come earlier answered. *)
InTurn == mode = "sequential" =>
            \A i \in DOMAIN rows, k \in 1..Len(Order) :
              rows[i].who = Order[k] => Count(rows, IsCompleted) >= k - 1

(* Drives that overlap, restart or repeat never create an approver's task  *)
(* a second time (find-or-create behind the gate).                         *)
CreatedOnce == mode # "sequential" =>
                 \A i, j \in DOMAIN rows : rows[i].who = rows[j].who => i = j

(* A node with one task, or one that decides by votes, never both passes   *)
(* and ends the instance as rejected.                                      *)
OneVerdict == mode \in {"single", "countersign", "vote"} => ~(passes > 0 /\ rejected)

(* An instance that ended holds no open task, not even one created by a    *)
(* drive that was in flight when it ended.                                 *)
NoOrphanTask ==
  ~Live => /\ \A i \in DOMAIN rows : Final(rows[i].status)
           /\ main.status \notin OpenStatus
           /\ next \notin OpenStatus

(* Nothing of a suspended instance can be worked on, even if it was        *)
(* created after the suspension; sub-tasks are excepted (they are created  *)
(* active).                                                                *)
Frozen ==
  inst = "suspended" => /\ main.status \notin {"active", "pending"}
                        /\ next # "active"
                        /\ ~ByVotes => \A i \in DOMAIN rows : rows[i].status # "active"

(* An answer that was given, and a task that was withdrawn from its        *)
(* approver, stay as they are.                                             *)
AnswersFinal ==
  [][/\ \A i \in DOMAIN rows : Final(rows[i].status) => rows'[i] = rows[i]
     /\ Final(main.status) => main' = main]_vars

(* A vote that comes after the parent is closed drives nothing. *)
LateVoteSilent ==
  [][(ByVotes /\ main.status = "completed") =>
       \A p \in Caller : (pc[p] = "idle" /\ pc'[p] = "drive") => rows' = rows]_vars

(* The sub-tasks and their parent are a Ballot (module Ballot), so what is *)
(* shown of ballots holds of every countersign and vote node.              *)
Yes == IF ByVotes THEN Count(rows, IsApproved) ELSE 0
No == IF ByVotes THEN Count(rows, IsRejected) ELSE 0
Left == CASE ~ByVotes -> 1
          [] ByVotes /\ ~Live -> 0
          [] OTHER -> IF rows = <<>> THEN Len(Order)
                      ELSE Cardinality({i \in DOMAIN rows : ~Final(rows[i].status)})
Verdict == CASE ~ByVotes -> "open"
             [] main.status = "completed" -> main.vote
             [] OTHER -> IF Live THEN "open" ELSE "void"

Votes == INSTANCE Ballot WITH yes <- Yes, no <- No, left <- Left, verdict <- Verdict

ImplementsBallot == Votes!BSpec

(* A task an administrator suspended by hand waits for them, and so does   *)
(* its node.                                                               *)
HeldByHand == inst = "active" /\ \E i \in DOMAIN rows : rows[i].status = "suspended"

(* An active instance on which nobody can act is found and driven until    *)
(* somebody can, or it ends; only a task held by hand keeps it waiting.    *)
NeverStuck == (Stuck /\ next = "none") ~>
                (inst # "active" \/ HasTodo \/ HeldByHand \/ passes > 0)

(* A decision takes effect: once the answers decide the node, the chain    *)
(* goes on or the instance is no longer active, whichever drives are lost. *)
(* Excepted is a node that a task left behind keeps off the patrol's list: *)
(* of an or-sign or a sequence (see NoGhostTodo, NoDuplicateInSequence),   *)
(* or one held by hand, which the deciding answer does not cancel.         *)
Settled == CASE mode = "sequential" -> \/ Count(rows, IsRejected) > 0
                                       \/ Count(rows, IsApproved) >= Len(Order)
             [] ByVotes -> main.status = "completed"
             [] OTHER -> Count(rows, IsCompleted) > 0
LeftBehind == HeldByHand \/ (HasTodo /\ (mode \in {"any", "sequential"} \/ taskSuspends > 0))
TakesEffect == (Settled /\ inst = "active") ~> (passes > 0 \/ inst # "active" \/ LeftBehind)

-----------------------------------------------------------------------------
(* What the repository says and the code does not keep; each is shown      *)
(* violated by a run of its own.                                           *)

(* task_service_complete.go:579: answering an or-signed task terminates    *)
(* the other candidates' tasks so that no ghost todo is left.              *)
NoGhostTodo ==
  (mode = "any" /\ passes > 0 /\ \A p \in Caller : pc[p] = "idle") =>
     \A i \in DOMAIN rows : rows[i].status # "active"

(* runtime_service_impl.go:1892: a node that is in fact completed is not   *)
(* advanced again by a re-drive.                                           *)
AdvancesOnce == passes <= 1

(* runtime_service_impl.go:1893: where a task exists, a re-drive waits; so *)
(* it never gives an approver of a sequence a second task.                 *)
NoDuplicateInSequence ==
  mode = "sequential" => \A i, j \in DOMAIN rows : rows[i].who = rows[j].who => i = j

(* user_task_node.go:358: when all is completed, the flow goes where the   *)
(* result of the approval says.                                            *)
RejectedByVote ==
  \A p \in Caller : (pc[p] = "reject" /\ ByVotes) => main.vote = "rejected"
=============================================================================
