---------------------------- MODULE InstanceFlow ----------------------------
(***************************************************************************)
(* Where an instance goes: the drive of its chain over user tasks,         *)
(* automatic nodes, a fork or inclusive gateway with its join, and         *)
(* sub-process nodes with their child instances                            *)
(* (service/runtime_service_impl.go: ExecuteNext, CompleteProcessInstance, *)
(* TerminateInTx, the rescue operations; service/fork_aware_resume.go;     *)
(* service/runtime_subprocess.go; components/sub_process_node.go).         *)
(*                                                                         *)
(* One user task stands for its node (module ApprovalNode), and one drive  *)
(* of an instance runs at a time (modules ExecGate, DriveGates): it is the *)
(* set of nodes at[i] it is executing, one action per transaction or read. *)
(* A definition marked "slip" is what the next one would be with a likely  *)
(* mistake in it; the specification never uses it.                         *)
(***************************************************************************)
EXTENDS Naturals, FiniteSets, Sequences, SequencesExt

CONSTANTS Parent, Child,     \* the instance looked at, and children it may start
          UserTask, Automatic, SubProcess, End,   \* nodes by type
          NoNode,
          Flows,             \* process definitions of the parent
          ChildFlow,         \* process definition of the children
          Rescue,            \* Rescue[f]: operations the host uses on instances of f
          Suspendable,       \* Suspendable[f]: instances somebody suspends
          Terminable,        \* Terminable[f]: instances somebody terminates
          MaxSuspends, MaxCrashes  \* bounds

Instance == {Parent} \cup Child
Node == UserTask \cup Automatic \cup SubProcess \cup {End}

(* A process definition: an optional gateway whose branches end at one     *)
(* join, and the nodes that follow.  Branches have no branches             *)
(* (ErrUnsupportedForkTopology); each is the sequence of its nodes.        *)
IsFlow(f) == /\ f.gateway \in {"none", "fork", "inclusive"}
             /\ f.branches \subseteq Seq(Node \ {End}) /\ IsFiniteSet(f.branches)
             /\ \A b \in f.branches : b # <<>>
             /\ f.gateway = "none" <=> f.branches = {}
             /\ f.tail \in Seq(Node) /\ f.tail # <<>> /\ Last(f.tail) = End

ASSUME FlowAssumption == \A f \in Flows \cup {ChildFlow} : IsFlow(f)
ASSUME ParentAssumption == Parent \notin Child
ASSUME NodeAssumption ==
         /\ UserTask \cap Automatic = {} /\ UserTask \cap SubProcess = {}
         /\ Automatic \cap SubProcess = {}
         /\ End \notin UserTask \cup Automatic \cup SubProcess
         /\ NoNode \notin Node
ASSUME RescueAssumption ==
         Rescue \in [Flows \cup {ChildFlow} -> SUBSET {"ReDrive", "Restore", "ForceResume"}]
ASSUME SuspendableAssumption == Suspendable \in [Flows -> SUBSET Instance]
ASSUME TerminableAssumption == Terminable \in [Flows -> SUBSET Instance]
ASSUME ChildAssumption ==
         /\ ChildFlow.gateway = "none"
         /\ \A k \in DOMAIN ChildFlow.tail : ChildFlow.tail[k] \notin SubProcess
ASSUME BoundAssumption == MaxSuspends \in Nat /\ MaxCrashes \in Nat

VARIABLES flow,      \* the parent's process definition
          status,    \* wf_instance.status; terminated, completed: archived
          row,       \* the wf_task row of a user task; the oldest open one of a sub-process
          ran,       \* how often an automatic node ran
          current,   \* current_activity
          routed,    \* the branches the gateway sent the message to
          at,        \* what the drive of the instance is executing
          expect,    \* the branches the join of the drive waits for
          got,       \* the branches that reached it
          asks,      \* ExecuteNext calls under way, by start node
          fresh,     \* instances whose first drive has not begun
          from,      \* subProcessParentNodes, in memory
          restore,   \* the instances RestoreAll has yet to look at
          suspends, crashes

vars == <<flow, status, row, ran, current, routed, at, expect, got, asks,
          fresh, from, restore, suspends, crashes>>
table == <<status, row, ran, current>>
drive == <<at, expect, got, routed>>
bounds == <<suspends, crashes>>

Step == {"in", "children", "state", "running", "idle", "parent", "create", "fail", "commit"}
Token == [node : Node, step : Step, own : BOOLEAN]

FlowOf(i) == IF i = Parent THEN flow ELSE ChildFlow
Roots(i) == {Head(b) : b \in FlowOf(i).branches}

TypeOK == /\ flow \in Flows
          /\ status \in [Instance -> {"none", "active", "suspended", "terminated", "completed"}]
          /\ row \in [Instance -> [Node -> {"none", "active", "suspended", "done", "void"}]]
          /\ ran \in [Instance -> [Node -> 0..2]]
          /\ current \in [Instance -> Node \cup {NoNode}]
          /\ \A i \in Instance : /\ routed[i] \subseteq Roots(i)
                                 /\ expect[i] \subseteq Roots(i)
                                 /\ got[i] \subseteq expect[i]
          /\ at \in [Instance -> SUBSET Token]
          /\ asks \in [Instance -> SUBSET Node]
          /\ fresh \subseteq Instance
          /\ from \in [Child -> SubProcess \cup {NoNode}]
          /\ restore \subseteq Instance
          /\ suspends \in 0..MaxSuspends
          /\ crashes \in 0..MaxCrashes

Live(i) == status[i] \in {"active", "suspended"}
Ended(i) == status[i] \in {"terminated", "completed"}
Open == {"active", "suspended"}

Init == /\ flow \in Flows
        /\ status = [i \in Instance |-> IF i = Parent THEN "active" ELSE "none"]
        /\ row = [i \in Instance |-> [n \in Node |-> "none"]]
        /\ ran = [i \in Instance |-> [n \in Node |-> 0]]
        /\ current = [i \in Instance |-> NoNode]
        /\ routed = [i \in Instance |-> {}]
        /\ at = [i \in Instance |-> {}]
        /\ expect = [i \in Instance |-> {}]
        /\ got = [i \in Instance |-> {}]
        /\ asks = [i \in Instance |-> {}]
        /\ fresh = {Parent}
        /\ from = [c \in Child |-> NoNode]
        /\ restore = {}
        /\ suspends = 0
        /\ crashes = 0

-----------------------------------------------------------------------------
(* Which nodes a drive starts with, and which branches its join will get.  *)
Fresh(n) == [node |-> n, step |-> "in", own |-> FALSE]
Drives(i, nodes, branches) ==
  /\ at' = [at EXCEPT ![i] = {Fresh(n) : n \in nodes}]
  /\ expect' = [expect EXCEPT ![i] = {Head(b) : b \in branches}]
  /\ got' = [got EXCEPT ![i] = {}]

(* The drive of a new instance: from the first node.  A fork sends the     *)
(* message to every branch, an inclusive gateway to some.                  *)
Start(i) ==
  /\ i \in fresh /\ at[i] = {}
  /\ fresh' = fresh \ {i}
  /\ LET f == FlowOf(i) IN
     IF f.gateway = "none"
       THEN Drives(i, {Head(f.tail)}, {}) /\ UNCHANGED routed
       ELSE \E bs \in SUBSET f.branches :
              /\ bs # {} /\ (f.gateway = "fork" => bs = f.branches)
              /\ Drives(i, {Head(b) : b \in bs}, bs)
              /\ routed' = [routed EXCEPT ![i] = {Head(b) : b \in bs}]
  /\ UNCHANGED <<flow, table, asks, from, restore, bounds>>

(* analyzeForkResume. *)
Suspends(b) == {k \in DOMAIN b : b[k] \in UserTask}
FirstSuspend(b) == b[CHOOSE k \in Suspends(b) : \A j \in Suspends(b) : k <= j]
LastSuspend(b) == b[CHOOSE k \in Suspends(b) : \A j \in Suspends(b) : k >= j]
Settled(i, n) == row[i][n] = "done"
HasTask(i, b) == \E n \in ToSet(b) : row[i][n] # "none" \/ ran[i][n] > 0
HasTaskOnly(i, b) == HasTask(i, b)                                     \* slip
AnyBranch(i, b) == b \in FlowOf(i).branches                            \* slip
Activated(i, b) == FlowOf(i).gateway = "inclusive" => HasTask(i, b)
Exits(i) == {b \in FlowOf(i).branches : Activated(i, b) /\ Suspends(b) # {}}
Pending(i) == \E b \in Exits(i) : \E k \in Suspends(b) : ~Settled(i, b[k])

(* The branch findBranchRoot finds: that of n, and any for a node behind   *)
(* the join.                                                               *)
BranchesOf(i, n) == LET f == FlowOf(i)
                        own == {b \in f.branches : n \in ToSet(b)}
                    IN IF own # {} THEN own ELSE f.branches
GoesOnNoWait(b, n) == Suspends(b) = {} \/ n # LastSuspend(b)         \* slip
GoesOn(b, n) == Suspends(b) # {} /\ n # LastSuspend(b)
Resumes(i, n, b) == Exits(i) # {} /\ ~GoesOn(b, n)

(* ExecuteNext takes the gate.  A drive of an ended instance has nothing   *)
(* to do; a suspended one is driven by its children only.                  *)
Takes(i, n) == n \in asks[i] /\ at[i] = {} /\ asks' = [asks EXCEPT ![i] = @ \ {n}]
Driveable(i, n) == status[i] = "active" \/ (status[i] = "suspended" /\ n \in SubProcess)

Refuse(i, n) ==
  /\ Takes(i, n) /\ ~Driveable(i, n)
  /\ UNCHANGED <<flow, table, drive, fresh, from, restore, bounds>>

DriveNode(i, n) ==
  /\ Takes(i, n) /\ Driveable(i, n)
  /\ \/ Cardinality(FlowOf(i).branches) < 2
     \/ \E b \in BranchesOf(i, n) : ~Resumes(i, n, b)
  /\ Drives(i, {n}, {})
  /\ UNCHANGED <<flow, table, routed, fresh, from, restore, bounds>>

DriveBranches(i, n) ==
  /\ Takes(i, n) /\ Driveable(i, n)
  /\ Cardinality(FlowOf(i).branches) > 1
  /\ \E b \in BranchesOf(i, n) : Resumes(i, n, b)
  /\ IF Pending(i) THEN UNCHANGED <<at, expect, got>>
                   ELSE Drives(i, {FirstSuspend(b) : b \in Exits(i)}, Exits(i))
  /\ UNCHANGED <<flow, table, routed, fresh, from, restore, bounds>>

-----------------------------------------------------------------------------
(* The node of token t tells success.  The join goes on when the branches  *)
(* its drive brings are in; a drive that brings none never gets past it.   *)
After(s, n) == LET later == {k \in 2..Len(s) : s[k-1] = n} IN {s[k] : k \in later}
Unasked(i, n) == {Head(b) : b \in {x \in FlowOf(i).branches : Last(x) = n}}  \* slip
Arrives(i, n) == {Head(b) : b \in {x \in FlowOf(i).branches : Last(x) = n}} \cap expect[i]
Nexts(i, n) == UNION {After(b, n) : b \in FlowOf(i).branches \cup {FlowOf(i).tail}}
Joined(i, n) == /\ expect[i] # {} /\ Arrives(i, n) # {}
                /\ got[i] \cup Arrives(i, n) = expect[i]
BehindJoined(i, n) == IF Joined(i, n) THEN {Head(FlowOf(i).tail)} ELSE {}
Succ(i, n) == Nexts(i, n) \cup BehindJoined(i, n)
Advance(i, t) ==
  /\ at' = [at EXCEPT ![i] = (@ \ {t}) \cup {Fresh(m) : m \in Succ(i, t.node)}]
  /\ got' = [got EXCEPT ![i] = @ \cup Arrives(i, t.node)]
  /\ UNCHANGED <<expect, routed>>

(* A token's execution ends: its node waits, or failed without effect.     *)
Stop(i, t) == at' = [at EXCEPT ![i] = @ \ {t}] /\ UNCHANGED <<expect, got, routed>>
Become(i, t, u) == /\ at' = [at EXCEPT ![i] = (@ \ {t}) \cup {u}]
                   /\ UNCHANGED <<expect, got, routed>>
Goto(i, t, s) == Become(i, t, [t EXCEPT !.step = s])
SetRow(i, n, s) == row' = [row EXCEPT ![i][n] = s]
NewStatus(i) == IF status[i] = "suspended" THEN "suspended" ELSE "active"

(* UserTaskNode.OnMsg: creates its task, waits for it, or tells success.   *)
UserOnMsg(i, t) ==
  /\ t.node \in UserTask
  /\ \/ /\ row[i][t.node] = "none" /\ Live(i)
        /\ SetRow(i, t.node, NewStatus(i))
        /\ current' = [current EXCEPT ![i] = t.node]
        /\ Stop(i, t)
     \/ /\ row[i][t.node] \in Open \/ ~Live(i)
        /\ Stop(i, t)
        /\ UNCHANGED <<row, current>>
     \/ /\ row[i][t.node] = "done" /\ Live(i)
        /\ Advance(i, t)
        /\ UNCHANGED <<row, current>>
  /\ UNCHANGED <<flow, status, ran, asks, fresh, from, restore, bounds>>

(* An automatic node, with the aspect's row that opens and closes with it. *)
AutoOnMsg(i, t) ==
  /\ t.node \in Automatic
  /\ ran' = [ran EXCEPT ![i][t.node] = IF @ < 2 THEN @ + 1 ELSE @]
  /\ current' = [current EXCEPT ![i] = IF Live(i) THEN t.node ELSE @]
  /\ Advance(i, t)
  /\ UNCHANGED <<flow, status, row, asks, fresh, from, restore, bounds>>

-----------------------------------------------------------------------------
(* An instance ends: archived, with its open tasks voided; what is set.    *)
Archive(who, s) ==
  /\ status' = [i \in Instance |-> IF i \in who THEN s ELSE status[i]]
  /\ row' = [i \in Instance |-> [n \in Node |->
               IF i \in who /\ row[i][n] \in Open THEN "void" ELSE row[i][n]]]
  /\ UNCHANGED <<ran, current>>

(* A child that ended has its parent's node driven: the node is looked up  *)
(* in memory, or after a restart derived from the definitions.             *)
NoDerived == NoNode                                                    \* slip
Derived == CHOOSE n \in SubProcess :
             \E b \in flow.branches \cup {flow.tail} : n \in ToSet(b)
ParentNode(c) == IF from[c] # NoNode THEN from[c] ELSE Derived
ResumeParent(i) ==
  IF i \in Child
    THEN /\ asks' = [asks EXCEPT ![Parent] = @ \cup ({ParentNode(i)} \ {NoNode})]
         /\ from' = [from EXCEPT ![i] = NoNode]
    ELSE UNCHANGED <<asks, from>>

Kids(i) == IF i = Parent THEN {c \in Child : Live(c)} ELSE {}
Terminate(i) == Archive({i} \cup Kids(i), "terminated") /\ ResumeParent(i)

(* SubProcessNode.OnMsg, read by read.  The aspect opens a row for the     *)
(* visit unless the message carries the row's id; a visit that finds an    *)
(* older open row leaves that one behind.                                  *)
SubEnter(i, t) ==
  /\ t.node \in SubProcess /\ t.step = "in"
  /\ IF row[i][t.node] \in Open \/ ~Live(i)
       THEN UNCHANGED row /\ Goto(i, t, "children")
       ELSE /\ SetRow(i, t.node, NewStatus(i))
            /\ Become(i, t, [t EXCEPT !.own = TRUE, !.step = "children"])
  /\ current' = [current EXCEPT ![i] = IF Live(i) THEN t.node ELSE @]
  /\ UNCHANGED <<flow, status, ran, asks, fresh, from, restore, bounds>>

SubTerminated(i, t) ==
  /\ t.step = "children"
  /\ Goto(i, t, IF \E c \in Child : status[c] = "terminated" THEN "fail" ELSE "state")
  /\ UNCHANGED <<flow, table, asks, fresh, from, restore, bounds>>

SubActive(i, t) ==
  /\ t.step = "state"
  /\ Goto(i, t, IF \E c \in Child : status[c] = "active" THEN "running" ELSE "idle")
  /\ UNCHANGED <<flow, table, asks, fresh, from, restore, bounds>>

SubCompleted(i, t) ==
  /\ t.step \in {"running", "idle"}
  /\ IF \E c \in Child : Ended(c)
       THEN /\ Advance(i, t)
            /\ row' = [row EXCEPT ![i][t.node] = IF t.own /\ @ \in Open THEN "done" ELSE @]
       ELSE /\ IF t.step = "running" THEN Stop(i, t) ELSE Goto(i, t, "parent")
            /\ UNCHANGED row
  /\ UNCHANGED <<flow, status, ran, current, asks, fresh, from, restore, bounds>>

(* StartSubProcessInstance reads the parent, and creates the child later.  *)
SubParent(i, t) ==
  /\ t.step = "parent"
  /\ Goto(i, t, IF Live(i) THEN "create" ELSE "fail")
  /\ UNCHANGED <<flow, table, asks, fresh, from, restore, bounds>>

SubCreate(i, t) ==
  /\ t.step = "create"
  /\ \E c \in Child :
       /\ status[c] = "none"
       /\ status' = [status EXCEPT ![c] = "active"]
       /\ fresh' = fresh \cup {c}
       /\ from' = [from EXCEPT ![c] = t.node]
  /\ Stop(i, t)
  /\ UNCHANGED <<flow, row, ran, current, asks, restore, bounds>>

(* A failing node without a failure edge terminates its instance.          *)
SubFail(i, t) ==
  /\ t.step = "fail"
  /\ Stop(i, t)
  /\ IF Live(i) THEN Terminate(i) ELSE UNCHANGED <<table, asks, from>>
  /\ UNCHANGED <<flow, fresh, restore, bounds>>

(* The end node: CompleteProcessInstance reads the status, and archives    *)
(* the instance in a transaction that only asks for it not to have ended.  *)
EndEnter(i, t) ==
  /\ t.node = End /\ t.step = "in"
  /\ IF status[i] = "active" THEN Goto(i, t, "commit") ELSE Stop(i, t)
  /\ current' = [current EXCEPT ![i] = IF Live(i) THEN End ELSE @]
  /\ UNCHANGED <<flow, status, row, ran, asks, fresh, from, restore, bounds>>

EndCommit(i, t) ==
  /\ t.step = "commit"
  /\ Stop(i, t)
  /\ IF Live(i) THEN Archive({i}, "completed") /\ ResumeParent(i)
                ELSE UNCHANGED <<table, asks, from>>
  /\ UNCHANGED <<flow, fresh, restore, bounds>>

-----------------------------------------------------------------------------
(* A user approves; the drive follows the commit.                          *)
Approve(i, n) ==
  /\ status[i] = "active" /\ n \in UserTask /\ row[i][n] = "active"
  /\ SetRow(i, n, "done")
  /\ asks' = [asks EXCEPT ![i] = @ \cup {n}]
  /\ UNCHANGED <<flow, status, ran, current, drive, fresh, from, restore, bounds>>

TerminateProcessInstance(i) ==
  /\ i \in Terminable[flow] /\ Live(i)
  /\ Terminate(i)
  /\ UNCHANGED <<flow, drive, fresh, restore, bounds>>

Mapped(i, a, b) == row' = [row EXCEPT ![i] = [n \in Node |-> IF @[n] = a THEN b ELSE @[n]]]
SuspendProcessInstance(i) ==
  /\ i \in Suspendable[flow] /\ suspends < MaxSuspends
  /\ status[i] = "active"
  /\ status' = [status EXCEPT ![i] = "suspended"]
  /\ Mapped(i, "active", "suspended")
  /\ suspends' = suspends + 1
  /\ UNCHANGED <<flow, ran, current, drive, asks, fresh, from, restore, crashes>>

ActivateProcessInstance(i) ==
  /\ status[i] = "suspended"
  /\ status' = [status EXCEPT ![i] = "active"]
  /\ Mapped(i, "suspended", "active")
  /\ UNCHANGED <<flow, ran, current, drive, asks, fresh, from, restore, bounds>>

-----------------------------------------------------------------------------
(* GetStuckProcessInstances and ReDriveProcessInstance: nothing open.      *)
ReDrive(i) ==
  /\ "ReDrive" \in Rescue[FlowOf(i)]
  /\ status[i] = "active" /\ \A n \in Node : row[i][n] # "active"
  /\ current[i] # NoNode /\ current[i] \notin asks[i]
  /\ asks' = [asks EXCEPT ![i] = @ \cup {current[i]}]
  /\ UNCHANGED <<flow, table, drive, fresh, from, restore, bounds>>

(* RestoreAllProcessInstances after a restart: the nodes of open tasks are *)
(* run again, with the ids of their tasks.                                 *)
Todo(i) == {n \in Node : row[i][n] = "active"}
Restore(i) ==
  /\ i \in restore /\ at[i] = {}
  /\ restore' = restore \ {i}
  /\ LET open == IF status[i] = "active" THEN Todo(i) ELSE {}
     IN /\ at' = [at EXCEPT ![i] = {[node |-> n, step |-> "in", own |-> n \in SubProcess] : n \in open}]
        /\ expect' = [expect EXCEPT ![i] =
             {Head(b) : b \in {x \in FlowOf(i).branches : ToSet(x) \cap open # {}}}]
        /\ got' = [got EXCEPT ![i] = {}]
  /\ UNCHANGED <<flow, table, routed, asks, fresh, from, bounds>>

(* ForceResumeInstance: every branch has a first waiting node, and all of  *)
(* those are completed.                                                    *)
ForceResume(i) ==
  /\ "ForceResume" \in Rescue[FlowOf(i)]
  /\ Live(i) /\ at[i] = {}
  /\ LET bs == FlowOf(i).branches
     IN /\ Cardinality(bs) > 1
        /\ \A b \in bs : Suspends(b) # {} /\ Settled(i, FirstSuspend(b))
        /\ Drives(i, {FirstSuspend(b) : b \in bs}, bs)
  /\ UNCHANGED <<flow, table, routed, asks, fresh, from, restore, bounds>>

(* The host process dies and starts again.                                 *)
Crash ==
  /\ crashes < MaxCrashes
  /\ crashes' = crashes + 1
  /\ at' = [i \in Instance |-> {}]
  /\ expect' = [i \in Instance |-> {}]
  /\ got' = [i \in Instance |-> {}]
  /\ asks' = [i \in Instance |-> {}]
  /\ fresh' = {}
  /\ from' = [c \in Child |-> NoNode]
  /\ restore' = {i \in Instance : "Restore" \in Rescue[FlowOf(i)]}
  /\ UNCHANGED <<flow, table, routed, suspends>>

-----------------------------------------------------------------------------
OnMsg(i) ==
  \E t \in at[i] :
    \/ UserOnMsg(i, t) \/ AutoOnMsg(i, t)
    \/ SubEnter(i, t) \/ SubTerminated(i, t) \/ SubActive(i, t) \/ SubCompleted(i, t)
    \/ SubParent(i, t) \/ SubCreate(i, t) \/ SubFail(i, t)
    \/ EndEnter(i, t) \/ EndCommit(i, t)

Drive(i) == \/ Start(i)
            \/ \E n \in Node : Refuse(i, n) \/ DriveNode(i, n) \/ DriveBranches(i, n)
            \/ OnMsg(i)

Next == \/ \E i \in Instance :
             \/ Drive(i)
             \/ \E n \in Node : Approve(i, n)
             \/ TerminateProcessInstance(i)
             \/ SuspendProcessInstance(i) \/ ActivateProcessInstance(i)
             \/ ReDrive(i) \/ Restore(i) \/ ForceResume(i)
        \/ Crash

Spec == Init /\ [][Next]_vars

(* Goroutines run; the patrol and the restore after a restart come round.  *)
FairSpec == /\ Spec
            /\ \A i \in Instance : WF_vars(Drive(i)) /\ WF_vars(ReDrive(i)) /\ WF_vars(Restore(i))

-----------------------------------------------------------------------------
Visited(i, n) == \/ row[i][n] # "none" \/ ran[i][n] > 0
                 \/ \E t \in at[i] : t.node = n
                 \/ n = End /\ status[i] = "completed"

(* Nothing behind the join of a fork runs before every branch has had all  *)
(* its tasks settled; of an inclusive gateway, every branch with a task.   *)
JoinPassed(i) == FlowOf(i).gateway # "none" /\ Visited(i, Head(FlowOf(i).tail))
JoinComplete ==
  \A i \in Instance : JoinPassed(i) =>
    \A b \in FlowOf(i).branches :
      FlowOf(i).gateway = "fork" \/ HasTask(i, b) =>
        \A n \in ToSet(b) \cap UserTask : row[i][n] = "done"

(* A branch of a fork that never waits runs once, however often and from   *)
(* whichever node the instance is resumed or rescued.                      *)
Waits(b) == \E n \in ToSet(b) : n \in UserTask
SyncOnce ==
  \A i \in Instance : FlowOf(i).gateway = "fork" =>
    \A b \in FlowOf(i).branches : ~Waits(b) => \A n \in ToSet(b) : ran[i][n] < 2

(* Once every branch is settled the instance gets past the join, though    *)
(* the drive that should resume it is lost in a crash, or refused because  *)
(* the instance is suspended.                                              *)
BranchesSettled(i) == /\ FlowOf(i).gateway # "none" /\ routed[i] # {}
                      /\ \A b \in FlowOf(i).branches : Head(b) \in routed[i] =>
                           \A n \in ToSet(b) \cap UserTask : row[i][n] = "done"
JoinPasses ==
  \A i \in Instance :
    (status[i] = "active" /\ BranchesSettled(i)) ~> (status[i] # "active" \/ JoinPassed(i))

(* A parent gets past its sub-process once the child has ended, though the *)
(* call that resumes it, or the memory of where to, is lost in a crash.    *)
Behind(i, n) == LET f == FlowOf(i) IN
  Nexts(i, n) \cup (IF \E b \in f.branches : Last(b) = n THEN {Head(f.tail)} ELSE {})
Beyond(i, n) == \E m \in Behind(i, n) : Visited(i, m)
ChildDone(n) == \E c \in Child : Ended(c) /\ row[Parent][n] # "none"
ParentResumes ==
  \A n \in SubProcess :
    (status[Parent] = "active" /\ ChildDone(n)) ~> (status[Parent] # "active" \/ Beyond(Parent, n))
=============================================================================
