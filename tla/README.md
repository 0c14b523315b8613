# gflow-engine in TLA+

gflow-engine is a multi-tenant approval-workflow engine written in Go. A
process definition is a rule chain (rulego); a process instance is a row of
`wf_instance`, its tasks are rows of `wf_task`, and the chain is executed by
*drives*: a request that starts an instance or answers a task runs the chain
from a node until every branch waits for a user again. What the engine must get
right is therefore the interplay of many short transactions with drives that
run outside any transaction, are serialized per instance only, can be lost in a
crash, refused, or repeated by a rescue patrol.

This directory holds the modules (`*.tla`), the TLC configurations (`*.cfg`), the
proofs (`*Proofs.tla`) and `PROJECT.json`, which ties every definition to source
lines, every run and theorem to what it shows, and every hazard to the
properties that cover it. To repeat a run: `tlc -config MCDriveGates.cfg
MCDriveGates`; a proof: `tlapm DriveGatesProofs.tla`.

## 1. Inventory

| Component | State | Operations | Hard behaviour | What makes it correct |
|---|---|---|---|---|
| **Drive gate, in process** `service/runtime_exec_gate.go` | a `sync.Map` of gates (owner goroutine, depth, waiter count, condition) | `acquireExecGate`, release function | goroutines load a gate that is being deleted from the map; re-entry by the same goroutine; sleeping on a condition | one driver per instance; wakeups are not lost; gates are reclaimed and never reclaimed from under somebody |
| **Drive gate, distributed** `service/dist_exec_gate.go`, `utils/lock/key_lock.go` | a lease per instance with an owner token | `acquireDriveGates`, `tryAcquireDriveGates`, watchdog renewal, lock cleanup | lease expiry under a running drive, failing renewal, fail-open after 150 tries against strict try-lock, crash of a replica | one replica drives while leases are kept; an owner never frees another's lease; a drive always ends up running or refused |
| **Vote rules** `service/task_service_countersign.go` | none (a pure decision over sub-task rows) | `checkCountersignSubTaskCompletionInternal` | percentages and counts at their boundary; early decisions; cancelled sub-tasks leave the electorate | an early decision is the one all votes would give; a node open after a vote can still go both ways; recounts agree |
| **User task node** `components/user_task_*.go` | none of its own: reads and writes task rows | `OnMsg`: create tasks, judge, advance a sequence, tell success, reject | reads tasks in several steps; runs again after each answer, re-drive and restore | passes only if the answers allow it; tasks are created once, in turn; one verdict |
| **Approver resolution** `components/approver_resolver_builtin.go`, `user_task_assignee.go`, `user_task_empty_approver.go` | none | users, roles, managers, what becomes of the starter, the fallbacks for nobody | managers of each other, the starter among the approvers | nobody is asked twice; an instance that waits waits for somebody |
| **Task completion** `service/task_service_complete.go`, `_proxy.go`, `instance_scope.go`, `instance_lock.go` | task rows, in a transaction that locks the instance row | complete, vote, cancel siblings, answer for an absent user, post-commit drive | requests that race each other, suspension, termination | an answer is final; late votes drive nothing; siblings are cancelled |
| **Task creation and status** `service/task_service_crud.go`, `task_service_status.go` | task rows | `CreateTask`, `SuspendTask`, `ActivateTask`, delete, priority | creation after the instance was suspended or ended | no task of an ended instance is open; suspended instances are frozen |
| **Claim, delegation, transfer** `service/task_service_claim.go`, `_assignment.go`, `_reassign.go`, `_candidates.go` | owner, assignee and candidate columns | claim, unclaim, delegate, resolve, set owner or assignee, reassign, transfer | two claims at once, answers by a delegate, hand-overs in any order | a delegated task returns to its owner; what a page offers is accepted |
| **Adding and removing signers** `service/task_service_sign.go` | sub-task rows | `AddSign`, `ReduceSign`, re-evaluation | the electorate changes while votes arrive | the decision fits the electorate on record |
| **Withdrawal, recall, returns, jumps** `task_service_withdraw.go`, `task_service_recall.go`, `task_service_action_permissions.go`, `user_task_reject.go` | task rows, archived rows | withdraw, recall, return, reject to the previous node or to the start | work that moved on is reopened; nodes are superseded one transaction each | one node is worked on at a time; no answer of an earlier round counts; only one's own vote is recalled |
| **Instance life cycle** `service/runtime_service_impl.go` | instance row, archive tables | start, draft, suspend, activate, complete, terminate, restart, delete | status read before the lock, two ends at once | an ended instance stays ended |
| **Rescue** `service/runtime_service_impl.go:1540-1930` | – | `RestoreProcessInstance`, `GetStuckProcessInstances`, `ReDriveProcessInstance`, `ForceResumeInstance`, `RescueExpiredDelayTask` | runs beside ordinary drives, on stale information | stuck instances get going; nothing done twice |
| **Fork-aware resume** `service/fork_aware_resume.go` | – (reads the graph and task rows) | `analyzeForkResume` and its helpers | the last branches of a fork finish together; lost drives; branches that never wait | the join is passed when, and only when, all branches are settled |
| **Sub-processes** `service/runtime_subprocess.go`, `components/sub_process_node.go` | child instances with `parent_id` | start, child ended, resume parent, terminate cascade | child driven on its own goroutine; either side can end first | the parent gets past its sub-process once the child has ended |
| **Create-task aspect** `service/create_task_aspect.go` | task rows of automatic nodes, current activity, merged variables | before/after each node, end node | failing nodes end the instance; three transactions where one would be needed | a crash between them strands nothing; the end is reached once |
| **Automatic nodes** `components/ai_agent_node.go`, `http_call_node.go`, `start_process_node.go`, `cc_task_node.go`, delay | saved answers in the instance's variables, fallback tasks | ask a model, reuse its answer, fall back on a person, call outside, wait | crash between the answer and its consequence, timer against rescue, resubmission | the answer judged is the one to this submission; nothing is asked or called twice without cause |
| **Definitions, engine pool** `process_service_impl.go`, `runtime_enginepool.go`, `model_func.go` | version rows, cached engines per replica | create, deploy, update, status, activate, retire, delete; load, evict, broadcast, patrol | a cached engine of a replaced version, lost broadcasts, slow loads | an instance runs the content it was started with; versions are active together only if deployed together; stale engines go |
| **Overdue and delay** `service/task_service_overdue.go`, `runtime_service_impl.go:1792-1926` | – | scan of overdue tasks, rescue of expired delays | timer and rescue at once | the chain goes on once |
| **Instance detail page** `service/runtime_instance_detail.go`, `task_service_action_permissions.go`, `forecast.go` | none (a view) | rows, buttons, switches, form rights, timeline, forecast | computed by other code than the operations check | what is offered is allowed; what is refused is not offered |
| **Lists and history** `dao/instance_dao.go` | none (queries over running and archived rows) | todo, done, copies, applications, counts | two tables, two query paths, archive in between | counts are the lists' lengths; an archive loses nothing |
| **Authorization** `service/operator_authz.go` | none | predicates on operator and instance | page and operation differ | as above |
| **Task events** | – | notifications to the host | – | not modelled: they change no engine state |

How they interact: an API call runs a transaction (`WithInstanceTx`: lock the
instance row, read, check, write, commit). After the commit it calls
`ExecuteNext`, which takes the in-process and the distributed gate, checks the
instance again, takes the chain's engine from the pool and runs it from the
task's node on the same goroutine. Nodes create tasks in transactions of their
own; the aspect keeps rows for the nodes that need none. A child instance ending
drives its parent from inside the child's drive, so gates nest. The host is
expected to call the rescue operations periodically and after a restart.

The 40 hazards in `PROJECT.json` name the line where each bites and the
properties that cover it.

## 2. Modules

| Module | Models | Extends or refined by | Checked by |
|---|---|---|---|
| `InstanceMutex` | abstract: one re-entrant mutex per instance | refined by `ExecGate` | |
| `ExecGate` | `runtime_exec_gate.go`, one action per critical section of `gate.mu` or call of the `sync.Map` | | `exec_gate`, `ExecGateProofs` |
| `KeyLock`, `DriveGates` | the leased lock, and drives and end executions on several replicas | `DriveGates` extends `KeyLock`; takes the in-process gate as the mutex above | `drive_gates`, `DriveGatesProofs` |
| `CountersignRule` | the five vote rules as operators on counts | extended by `Ballot`, `TaskRows` | `BallotProofs` |
| `Ballot` | abstract: a node deciding by votes | refined by `ApprovalNode` | `ballot`, `BallotProofs` |
| `ApprovalNode` | one user task node of one instance: creation, answers, drives, suspension, rescue, crash | | `approval_node` and the four violations, `ApprovalProofs` |
| `Approvers` | whom a node asks | extended by `TaskRows` | facts in `MCTaskDesk` |
| `TaskRows` → `TaskOwnership` → `TaskSigning` → `TaskReturn` → `TaskDesk` | the rows of one instance on a chain of user tasks, and every operation of the task service on them; `TaskDesk` composes them and adds what the page offers | each extends the one before | `task_desk`, `TaskDeskProofs`, `BallotProofs` (the votes) |
| `InstanceFlow` | a drive over forks, inclusive gateways, automatic nodes and sub-processes; suspension, crash, rescue | a user task stands for `ApprovalNode`, a drive for the gates | `instance_flow`, `InstanceFlowProofs` |
| `ProcessDefinitions` | versions, pools on replicas, starts and drives of instances | | `definitions`, `ProcessDefinitionsProofs` |
| `ChainShape`, `ChainWalks` | the normalisation of a chain, and what is asked of one by walking it | | facts in `MCChainWalks` (run `definitions`) |
| `AutoNodes` | aiAgent, httpCall, startProcess, ccTask, delay, end and the aspect | | `auto_nodes`, `AutoNodesProofs` |
| `Permits`, `InstanceView` | switches, form rights and the detail page | | facts in `MCDetailPage` (run `task_desk`) |
| `Inbox` | the lists and their counts | | facts in `MCInbox` (run `task_desk`) |

Definitions marked *slip* are next to the definition they would be a mistake
of. The specifications never use them; they are how each property is shown to
depend on the code (the `mutants` of `PROJECT.json` put a slip in place of its
definition and the property fails).

### ExecGate

`Enter` starts a drive of an instance; `LoadGate`/`StoreGate` are the two
outcomes of `LoadOrStore` (a loaded gate may be deleted before its mutex is
taken, hence a step of its own, and `Retry` when it turns out an orphan);
`Own`, `Reenter` and `Wait` are the three outcomes of looking at the owner under
the mutex; `WakeOwn` and `SleepAgain` those of waking up; `Release` gives one
level back, and on the last one reclaims the gate or broadcasts. A gate is a
pointer: `Unused` gates, to which nothing refers, may be allocated again, which
is what Go's garbage collector guarantees. `Nest` is the set of pairs of
instances a chain may nest (a child's drive may enter its parent's gate, never
the reverse): the code has no other nested call of `ExecuteNext` than
`resumeParent`, and the same instance again through re-entry. Goroutine
identity, which the code parses from a stack trace, is the process itself; the
rulego engine calls the node's `OnMsg` on the calling goroutine, which is what
makes re-entry work.

### KeyLock and DriveGates

A lease is a value drawn anew by each attempt and compared by identity, as the
pointer in the local lock's map and the token of a distributed one are. Time is
counted in renewal intervals: `Pass(k)` takes one off the lease of a key and is
where the watchdog (`Renewed`) keeps it or fails to. `host` chooses once between
`LocalLock` (every `LoadOrStore`, `CompareAndSwap` and `CompareAndDelete` its own
step; the clean-up first looks and then deletes) and a distributed `Locker`,
whose operations are atomic, whose leases run out and whose calls may fail up to
`MaxFaults` times. `Enter`, `Admit`, `Again`, `Unlocked` and `GiveWay` are
`acquireDriveGates` and its strict form; `EndBefore` … `EndAfter` are the end node with
its deduplication lock. A crash of the other replica loses its drives and leaves
their leases behind.

### CountersignRule and Ballot

`Decides` and `Approves` are the switch over `approval_rule` on the counts of
eligible, completed and approved sub-tasks; `Ceil`/`AtLeastOne` are the rounding.
Percentages are whole numbers (the code's are floating point). `Ballot` counts
approvals, rejections and voters left, and its verdict: `Cast` is a vote on an
open parent (veto, decision, cancellation of the rest), `CastLate` a vote by
somebody whose suspended task escaped the cancellation, `Abandon` the end of
the instance.

### ApprovalNode

`rows` are the node's assigned tasks, `main` the unassigned parent of countersign
and vote nodes. `mode` and `rule` are chosen once, in `Init`, so that one run
covers all modes. A goroutine `p` is `idle`, about to `drive` (after its commit,
before the gate), or inside the gate at one of the steps of `OnMsg`; `seen` is
what the drive read at its start, kept because the node judges by it later.
Each transaction is one action because all of them lock the instance row first;
reads outside are steps of their own (`GetExistingTasks`, `Judge`, `Advance`,
then the `CreateTask` transactions).

Simplifications, all of which keep the control flow of the lines in `map`:

* The user task after the node stands for the rest of the chain: `next` is a
  single-mode task created by `TellSuccess` unless it has one, and its approval
  (`FinishNext`) runs to the end node and completes the instance.
* The gate is the mutex `ExecGate` is shown to implement. `taskOpMutex`, held
  inside it by the same node, is merged with it.
* Rejection uses the default strategy, termination; the others, pools,
  delegation, signers and fallbacks are in `TaskDesk`.
* A parent row is not suspended on its own; the operation exists but the parent
  belongs to nobody.
* One restore request concerns this node only; `passes` saturates at `MaxPasses`.
* Every drive is one of an API call, for which a suspended instance refuses the
  drive.
* The current activity of the instance, by which a re-drive picks its node, is
  this node while `next` has not been created.

### TaskRows, TaskOwnership, TaskSigning, TaskReturn, TaskDesk

One running instance whose definition is a chain of user tasks. `task` is its
`wf_task` table, `answered` the completed rows in the order of their ends, `asks`
the nodes for which a drive has been asked after a commit and not yet run, `at`
where the drive is, `resets` the nodes a jump has still to clear. Every operation of
the task service is one transaction on the instance row, hence one action; the
nodes a rejection supersedes are one transaction each (`SupersedeNodeTasks`), and so
one action each. Time is the order of answers: `born` of a row counts the answers
that were there when it was created, which is all that "created after" in the
code is used for.

`TaskRows` has the visits of a drive to a node: `Create` (approvers, fallbacks,
electorate), `TellSuccess`, `HandleRejection`, `CompleteProcessInstance`. `TaskOwnership`
has claims, candidates, assignment, delegation, transfer; `TaskSigning` the
answers, sub-task votes, proxy answers, `AddSign` and `ReduceSign` with their
recount; `TaskReturn` withdrawal, returns, recalls on a running and on a completed
instance; `TaskDesk` is their composition with `OfferedClaim` … of the detail page.
`Apart` names the definitions on which these operations do not stand in each other's
way (section 6 says how they do on others); `Counted` those on which the voters of a
node are the ones it asked or was given, `Offered` those on which the pool of a node
is its main task's. `AddSign` takes the users named and those of them named twice, who get
two tasks (`existing` is read once, `task_service_sign.go:159-200`); a signer is judged by the
rule of the task signed, which is copied (`:190`), and not by the node's. Every definition of `MCTaskDesk` is all three, by an ASSUME that
TLC evaluates. `ResolverAssumption` says that the resolver answers
with a list of users: its walk up the managers is recursive, so that the proofs take
this for granted, and TLC evaluates it for the definitions of the run.
What is abstracted: see section 3 (bounds) and section 7.

### InstanceFlow

A parent and its children, each with a definition: an optional gateway with branches
that meet in one join, then a tail. `row[i][n]` is the state of the task of node `n`,
`ran[i][n]` how often an automatic node ran, `at[i]` the tokens a drive has under way,
`routed[i]` the branches a gateway chose. `Takes`, `DriveNode`, `DriveBranches` and
`Refuse` are `ExecuteNext` with what `analyzeForkResume` tells it (`Settled`,
`Activated`, `Exits`, `Pending`); `Arrives` is the join's count. `SubEnter` …
`SubCreate` are the reads of the sub-process node, one action each, because a child
may end between two of them; `EndEnter`/`EndCommit` the end with `ResumeParent`.
`Crash` empties all drives and forgets `Derived`, the memory of where to resume a
parent, which `ParentNode` derives again.

### ProcessDefinitions, ChainShape, ChainWalks

`rows` is one family of definitions (one key), a row being its version, status and
content, with the number of its `writes`; `pool[r][p]` is what replica `r` has in its
pool or is loading; `sent` are broadcasts under way, `owes` the written rows a patrol
must still look at before they drop out of its time window; `op[c]` is a request and
how far it has come. Reads before a transaction (`UpdateLook`, `CreateLook`,
`StatusLook`, `StartLook`, `DeleteLook`) are actions of their own, followed by the
transaction and then by the invalidation. The transaction of a deployment has no lock on
the family and no isolation level (`process_service_impl.go:276-289`), hence READ
COMMITTED on PostgreSQL, and is two actions: `CreateInsert` inserts the version and looks
which active rows there are to retire; `CreateCommit` makes both visible, or
`CreateRollback` gives them up. The unique index on the version is what two
transactions meet at: whoever wants a version that is inserted and not yet committed
(`Reserved`) waits. `knew` is history: how many rows were committed when the version's
transaction looked. `ChainShape` is the normalisation
`model_func.go` gives a chain when it is deployed and again when it is loaded;
`ChainWalks` are the searches along a chain's connections: cycles, the targets of a
rejection, whether an answer may be recalled, the forecast of approvals. Both are
pure, and `MCChainWalks` compares them with what they mean over every chain of up to
three nodes.

### AutoNodes

The chain is *first* (the starter's user task) → *review* (aiAgent) → *call*
(httpCall, startProcess or ccTask) → *wait* (delay) → *end*. A *run* is one message on
its way: its node, its step, its data and its verdict, and whether it holds the
instance's gate (`gate`): a drive's runs do, a delay's timer goes on without. `rows`
are the aspect's open task rows, `first` and `fallback` the open tasks of people,
`store` the instance's saved variables; `answers` and `tally` are history. `Review` is
the aiAgent from `Look` (is the answer saved?) over the call and `Save` to `Judge` and
`HandleReject`/`Fallback`; `Before`, `Suppressed`, `After`, `Finish` and `AfterFailure` are
the aspect. `endLock` is the end node's lock: `Before` takes it (or enters without it where
the service that keeps a shared one fails), a message that finds it held is dropped
(`Suppressed`), `Finish` ends the instance and gives it back, `Expire` is its time to live.
With a locker of its own the process takes the lock with it in a crash; a `shared` one
keeps it for nobody (`{0}`) until it expires. `by` says whose drive a message is: the part of the prompt that
is not in the variables (process, initiator, current user) depends on it.
`Crash`, `Restore`, `ReDrive` and `Rescue` are the ways the engine takes up what a crash
lost.

### Permits, InstanceView, Inbox

Pure operators: the switches and form rights of the designer as the page reads
them and as the operations enforce them; the rows, buttons, timeline and
candidates of the detail page; the queries behind the lists. `MCDetailPage` and
`MCInbox` state, as facts over all small inputs, in what way the two sides agree and
in what way they do not; TLC evaluates them before `task_desk`. These facts, and those of
`MCChainWalks`, are the only checks of these four modules: no invariant or temporal
property of a run depends on `Permits`, `InstanceView`, `Inbox` or `ChainWalks`.

## 3. Runs

| Run | Instance | Shows |
|---|---|---|
| `exec_gate` | 3 goroutines, 2 instances (child, parent), nesting depth 2, 3 gate objects; 64,572 states | mutual exclusion, no leaked gate, no crosswise wait, a freed gate is handed on, refinement of `InstanceMutex` |
| `ballot` | 1–5 voters, every rule type, ten percentages, counts up to one more than the voters; 1,171 states | early decisions are right and prompt, recounts agree |
| `approval_node` | 3 approvers, 2 goroutines, all modes, majority, 60 % and one vote, one suspension of a task, one of the instance, one crash, re-drive and restore; 256,104 states | nine safety properties of the node, the refinement of `Ballot`, stuck instances get going (`NeverStuck`), decisions take effect (`TakesEffect`) |
| `drive_gates` | 2 drives and 2 end executions on 1–2 replicas, leases of 2 and 1 intervals, 2 faults of the locker, 1 retry, 1 crash | exclusion as far as leases promise it, leases are not stolen, every drive gets through or gives way, orphaned leases go |
| `instance_flow` | a fork of two waiting branches, one with a branch that never waits, an inclusive gateway, a sub-process; 2 suspensions, 2 crashes | the join waits for all and is passed once they are settled; branches that never wait run once; a parent gets past its child |
| `task_desk` | 15 definitions of one to three nodes, 3 users, up to 8 rows, 2 recalls; 261,661 states | one node at a time, answers in order, recalls spare others, electorates are whole, offers are honoured; the facts of `MCDetailPage`, `MCInbox` and `Approvers` |
| `definitions` | 2 requests on 2 replicas, 1 instance, 3 version rows, 2 requests of administrators and a deletion under way; 416,295 states | content is kept for life, versions are active together only if deployed together, stale engines are dropped; the facts of `MCChainWalks` |
| `auto_nodes` | six configurations, 2 submissions, up to 2 crashes, 4 rows, 3 outputs of the model, the end's lock local or shared; 323,788 states | the answer fits the submission, nothing is asked or called without cause, the instance gets on |
| `ghost_todo`, `redrive_twice`, `sequence_duplicate`, `stale_restore` | small instances of `ApprovalNode` | a comment of the code refuted, see section 6 |

Why the bounds are enough:

* **Concurrency.** Two drives of one instance are the most that can interleave in
  interesting ways, since the gate admits one and the others are identical in the
  queue; a third goroutine in `ExecGate` is needed for a waiter, a newcomer and an
  owner at once, and a third gate object for an orphan beside a current one. Two
  end executions are what the deduplication is about. Two replicas with one request each have a
  stale chain on one and the write that made it stale on the other.
* **People.** Three approvers give a first, a middle and a last turn, and a vote
  that is decided with one voter left; three users an assignee, a delegate or
  signer, and somebody uninvolved.
* **Counts.** `ballot` needs no bound on time; five voters cover both parities and
  every rounding of a third, half and two thirds, and the theorems remove the bound.
  Two recalls reach the second recall of one answer and the limit.
* **Faults.** One suspension of each kind and one crash already meet every step of a
  drive, because nothing in the code counts them; two crashes lose also the restore
  after the first. Two faults of the locker outlast a gate's lease of two intervals; a
  lease of one for the end lets it run out beneath an execution. One retry stands for
  150: the code does nothing in between but wait.
* **Versions.** Three rows are a version that is there and two that are inserted at once.
  Two deployments choose different versions only after the latest one was deleted between
  their looks, which takes three requests: the deletion may be under way when the run
  begins (`AboutToDelete`), beyond the two of `MaxAsk`.
* **Submissions.** An answer can be stale from the second submission on.

Each definition of `MCTaskDesk` has the operations whose mixture is of interest (`uses`);
all together in one definition would be no larger question but a far larger state
space. Some mixtures are kept apart because the code does go wrong in them;
section 6 lists these.

Deadlock is checked in `exec_gate` and `ballot`. In the others an instance that ended,
with every goroutine idle, really stops.

**Fairness.** `ExecGate`: a goroutine that has begun goes on, and an owner releases
(`defer`); nothing forces a goroutine to enter. Its `HandOff` uses weak fairness per
goroutine only. `ApprovalNode`, `InstanceFlow`, `AutoNodes`: drives that began go on
until they end or are lost in a crash, and the patrol (`ReDrive`), the restore after a
restart and the rescue of delays keep coming round. The latter is an obligation of the
host, stated by the code's own comments (`task_service_helpers.go:143-146`,
`runtime_service_impl.go:1703-1707`: a failed post-commit drive is only logged and
left to the patrol). Nothing is assumed of users, administrators or, in
`ApprovalNode`, of `Restore`. `DriveGates`: a drive that asks for the gates goes on
asking, and time passes. `AutoNodes`: the lock of the end runs out (`Expire`; its time to
live is two minutes). `ProcessDefinitions`: the patrol of each replica comes round
(`runtime_enginepool.go`, a ticker); not the broadcasts.

`NeverStuck` excepts a node whose only open task is suspended: that leaves the
instance without a todo on purpose. A crash between a parent and its sub-tasks leaves
the parent waiting for ever; the node is then never decided, and `TakesEffect` does not
speak of it. `GetsOn` and `ParentResumes` speak of instances that are not
suspended. `GetsOn` excepts one state more, `LeftAtEnd`: after a crash within the end node a
shared lock outlives the replica, the restored message is dropped at it, and what is left
is an open row of the end node that no message is about (section 6). Nothing but another
restart leads out of it; without the exception TLC finds this behaviour, with it there is no
other.

## 4. Theorems

The proofs hold for every value of the constants. They use no assumption
beyond the named ASSUMEs of the modules, which TLC evaluates on each run.

* `ExecGateProofs`: `TypeCorrect`, `Exclusion`, `Reclamation`, `NoDeadlockOfTwo`,
  `Refinement`. None of these invariants is inductive: that an owner is alone depends
  on every gate in use being the one in the table, which depends on the waiter counts
  being right. `IInv` adds that an owned gate is the one in the table
  (`OwnedIsCurrent`), that the release functions a goroutine holds are the depth of
  the gates it owns (`HoldIsDepth`), what a goroutine refers to at each step
  (`References`), that nobody sleeps on an orphan (`SleepsOnCurrent`), that waiters
  are counted right (`WaitersCount`) and that a goroutine that asks for a second gate
  follows `Nest` (`CallsBack`). One lemma per action shows `IInv` is kept; the
  theorems follow from it, the last with the mapping of a gate's owner and depth to
  the mutex.
* `DriveGatesProofs`: `TypeCorrect`, `LeaseNeverStolen`, `DrivesExclusive`, for any
  number of replicas, drives, leases, retries and faults. That two drives exclude each
  other is a statement about time: a drive with a lease runs beside another only if
  the locker failed for as long as a lease lives. `LeaseInv` says whose a value is
  (`OwnValues`: a client holds and stores only what it drew), what a stale look can
  still refer to (`SeenLease`), and that the two operations that take away somebody's
  lease had seen it expire (`SwapExpired`, `SweepExpired`); `GateInv` that only the
  holder of the in-process gate drives on the one replica a local lock knows
  (`AtHome`), asks once (`AsksOnce`), and that a running drive's lease is in the table
  with its remaining life bounded below by the faults so far (`LeaseHeld`).
* `BallotProofs` begins with lemmas about the rules, the only place where their
  arithmetic is used (`ApprovalProofs`, whose variables are others, states three of them
  again). `RequiredIsThreshold`: the number a threshold rule asks for is
  where its outcome turns; `DecisionIsSound`: what the decision after a vote says
  about the votes still missing; `CancellingKeepsApproval` and
  `CancellingKeepsRejection`: cancelling voters who did not vote changes nothing. Then: `BallotTypes`, `EarlyDecisionStands`, `NobodyAskedInVain`,
  `RecountStands`, `VerdictStands`. The invariant says that an open ballot is
  undecided (`Undecided`) and that a closed one is decided by the votes on record
  (`Sealed`).
* `ApprovalProofs`, about tasks: `Types`, `NoTaskSurvives`, `SuspendedIsFrozen`,
  `TasksCreatedOnce`, `SequenceInTurn`, `OneVerdictOnly`, `AnswersStay`. The
  invariant `NInv` is built in layers. `TInv` adds to the types that one drive is in
  the gate (`Occupant`), that nothing but it creates tasks between its reading and
  its writing (`Creating`), and what a sequence counted before it appends
  (`Appending`); without these an index into `Order` could run over. `Kept` is what
  every step does to the rows: they only grow, final ones stay, a new one belongs to
  whose turn it is. From it follow `Assigned` (the i-th task is the i-th approver's)
  and `SeenPast` (what a drive read is behind the rows, never against them), which
  is the reason why judging by what was read earlier is safe. `Verdicts` ties
  `passes` and `rejected` to the approval on record.
  About how a node decides: `PassesAreEarned`, `RejectionsAreGiven`,
  `LateVotesAreSilent`, `NodesAreBallots`. `VInv` adds to `NInv` that completed tasks
  carry an answer (`Answers`; the code refuses an API completion without one), and
  about the parent (`Parental`): while it is open nobody was cancelled, so a
  decision counts the full electorate (`Full`); once it is approved the rule holds
  of the approvals on record (`Endorsing`). `NodesAreBallots` maps every step of a
  node to a vote, a late vote, the end of the ballot or a stutter, so that the
  theorems of `BallotProofs` hold of every countersign and vote node.
* `InstanceFlowProofs`: `FlowTypeOK` for all definitions; `FlowJoinComplete` and
  `FlowSyncOnce` for those that are `Plain`: no node twice in the branches, none shared
  with the tail, no sub-process in a branch, and no `Restore` on the instances of a
  gateway. The first two say that it is one gateway with one join; the others are
  cases of section 6 for which the code breaks the property. `FlowSyncOnce` asks besides for a branch that waits, since a re-drive runs
  a fork of automatic branches again. `Fits` says where things can be: every row,
  token, call under way and current activity is on the definition. `Core` says why a
  join never goes off early. The user tasks before
  anything touched in a branch are done (`InTurn`); a branch that the join of a drive
  has counted has all its tasks done (`GotDone`); a node is asked for, or current, only
  in a branch with something on record (`AskedOf`); a drive that brings branches
  brings all that wait and that the message entered (`Expects`), because
  `analyzeForkResume` takes every exit with a trace; and what is behind the join is
  touched when the branches entered are done (`BehindJoin`).
  None of them holds alone: a join counts what it was told to expect, and what it was
  told depends on the rows that were there when the drive began. `Calm`, `Quiet` and
  `Onward` sum up what a step does to the parent, so that each is shown once and not
  once per action. `Once` counts a branch that never waits: it is entered by the first
  drive, and no resumption, re-drive or `ForceResume` finds a node of it to begin with.
* `ProcessDefinitionsProofs`: `ActiveOnlyTogether`, `ChainStays`, for any number of
  requests, replicas, instances and versions. The key of both is that an active row
  is never written after it was inserted: every write leaves it not active, for
  ever. `DInv` says so (`ActiveUnwritten`) and carries it through
  what a transaction has seen: while its version is inserted and not committed, every
  row that was committed when it looked and is active now is among those it will retire
  (`Retiring`), because none becomes active again; rows are numbered without gaps
  (`Contiguous`), so that a row with a number above `knew` was committed since. Hence
  `ActiveTogether` after every commit, of which there may be any number under way. That a
  highest version exists is itself a lemma, by well-founded descent over finite sets.
  `DInv` carries the same through everything else that has been read: as long as a row has no writes, what a pool has
  loaded or is loading (`Chains`), what a request holds (`Hands`) and what drove an
  instance (`Insts`) is its content; versions being inserted are apart (`Claims`,
  `ClaimsApart`).
* `AutoNodesProofs`: `ConsentFits`. A run that judges by an answer does so because
  the answer was given to its own data (`Judged`), and a run that carries a consent
  keeps the consent and the submission together (`Consented`). Neither holds by
  itself: a saved number must mean an answer before it is read, so `AInv` says of
  every place a message is taken from (rows, tasks, variables of the instance) that
  it refers to answers given (`Tables`), and the one step that gives an answer adds
  to the end and disturbs none of them.

  `SparesModel` for the configurations that are `Tame`: without crashes, any; with
  crashes, those that end a rejected submission and have at most one handler. These
  are the two bans of section 6, beyond which the code breaks `Sparing`. The
  property speaks of what was done and not of what is about to be, so that its
  invariant `SInv` is an account: every call to come must be paid for as well.
  `CallsPaid` adds to the calls made the submission whose drive is asked for, the
  runs that may still ask the model (`MayAsk`) and the row the next restore has asked
  again at nobody's expense (`Lost`); `EffectsPaid` adds the drives asked for, the
  runs that may still reach the call (`Bound`) and the handler who holds the message
  (`Held`). Each step moves a unit, or is charged to a submission, an answer, a crash,
  a restart or the patrol. That no step makes two of one needs `Single`: until a
  handler is asked a chain that can crash has one message (`Alone`: with the starter,
  or at review with its row, or beyond), whose saved answer is the one for the data
  of that row (`Kept`), so that a restore finds it; afterwards the model is not asked
  (`Handed`), and the handler who is being asked is the one place from which the
  message goes on (`Waiting`).

* `TaskDeskProofs`: `DeskTypeCorrect`, `DeskOneRound`, `DeskOrderKept`,
  `DeskRecallSparesOthers`, `DeskOffersHonoured` (if `Offered`) and, in `BallotProofs`,
  `DeskElectorateWhole` (if `Counted`), for any chain, people, approvers, modes, rules and fallbacks
  and any set of operations that is `Apart`, and any `MaxRows` and `MaxRecall`. No ban
  of `Apart`, `Counted` or `Offered` is there for the proof's sake: lift one, and TLC
  finds a behaviour of the code that breaks one of these properties (section 6, *Tasks*).
  The invariant `DeskInv` is in two parts. `RowInv` is about rows and answers alone:
  a sub-task has its parent on its own node, and no or-sign has any (`Family`); a node
  has one row without a parent, or one for each approver of an or-sign, and once one of
  these is answered nothing is open there (`LoneMain`); what waits for a claim, or was
  closed by one, is nobody's (`Claims`); a row is older than its answer and no older
  than an earlier node's (`Ends`); only terminated rows are cut off (`Cut`); where
  answers can be recalled, the parent of votes is nobody's own, and a voter is terminated only by
  the decision of that parent (`Recallable`); open rows are of one node, the last one with rows
  (`OneNode`). The rest ties the rows to the drive: one drive, jump
  or request at a time (`OneDrive`), nobody asked while it is under way and somebody
  asked when none is (`Quiet`), no row beyond the node it is to reach, except those
  a jump has still to clear (`Beyond`).
  `OneRound` is `Quiet` with `OneNode`, and `OrderKept` is `Ends`; neither is
  inductive, because a recall decides by ends and births which rows it removes. Seven
  lemmas say what keeps `RowInv`: adding the rows of a node that has none (`AddRows`), handing
  one on, claiming it and giving it back (`MoveRow`, `ClaimRow`, `UnclaimRow`), answering
  one with its parent (`AnswerRows`), removing rows and renumbering the answers behind
  them (`RemoveRows`), and putting a recalled row back (`TakeBack`); each operation is an instance
  of one or two. The numbers of answers and
  the free ids are counted by the lemmas on `Rank` and `Nth` at the beginning of the module.

  The other two need more than `DeskInv`, which says nothing of who voted how. `Base`
  is what both use of a row: its reason is what ended it, a sub-task is a vote or a
  signer's and is taken off its assignee only where an administrator may do so
  (`Sincere`), a task that waits for a claim has no fellow on its node (`Lone`), and a parent
  that waits for votes has an open one (`Asking`). `OffersHonoured` adds `Pools`: sub-tasks
  have no candidates, so that what the page reads from the node and what the operation
  reads from the row agree. Its first half, that somebody can go on, takes any open
  row of the round and finds its holder, a claimer or an open sub-task of it.

  `ElectorateWhole` adds to `Base` three parts, in `BallotProofs`, next to the lemmas on the
  rules. `Voting`: a voter is judged by its parent's rule and cut off only by its end.
  `Standing`: a rejected task has its node asked for, driven or yet to be cleared, so that a
  recall, for which the instance must be at rest, never opens a parent that a veto
  had closed. `Ballots`: while a parent is open, the votes that are missing swing the
  result (`Swings`), or a recalled one is awaited (`Rehears`); when it has ended, none of those cut
  off could change it (`Seals`). The lemmas say it of counts, and the operations only
  change counts: votes that decide nothing still swing (`UndecidedSwings`), as do all of them
  before the first (`AllMissing`) and when voters are added (`MoreSwings`), and decided ones
  are sealed (`DecidedSeals`). Taking voters off can decide a vote; the operation counts
  again in the same transaction, so that no state is in between.

Only model-checked is liveness (`HandOff`, `NeverStuck`, `TakesEffect`, `Resolves`,
`OrphanReclaimed`, `JoinPasses`, `ParentResumes`, `StaleDropped`, `GetsOn`), which is
out of the prover's reach, and the facts of the pure modules, whose walks are
recursive. Every invariant and every action property that a passing run checks is
proved. The four violations of section 6 are counterexamples and need no proof.

## 5. Plan

Done: drive gates of both kinds, the approval node, forks and sub-processes, the
task service on chains, definitions and their pools, automatic nodes, and the views.

Left, in this order:

1. `InstanceLifecycle`: drafts, restart, deletion of single instances, the archive as
   two tables, `CompleteProcessInstance`'s status read before its lock. To prove: an
   ended instance stays ended and is archived once.
2. The task service on a definition with forks: the checks of returns and recalls
   across gateways (`ChainWalks` has the searches, `TaskReturn` only chains).
3. Suspension and crashes in `TaskDesk`, where they would meet signers and jumps.
4. The asynchronous mode of aiAgent, and `flattenOutput`.

## 6. Where the code and its comments part

Four of these are runs that refute a sentence of the code (`findings`):

* **Ghost todo** (`NoGhostTodo`): candidates of an or-signed node are created one
  transaction after the other; an answer to the first cannot cancel those not
  yet created, which stay open after the node passed.
* **Re-drive advances twice** (`AdvancesOnce`): between the commit of an approval
  and its drive the instance looks stuck, and a re-drive asked for then runs the
  completed node a second time.
* **Duplicate in a sequence** (`NoDuplicateInSequence`): the branch that advances a
  sequence counts completed and active tasks; a suspended one is neither, and
  its approver gets a second task.
* **Stale restore** (`RejectedByVote`): `OnMsg` judges the parent it read by
  sub-tasks it reads later; a deciding approval in between is taken for a
  rejection.

The others were met while modelling. The properties are stated so that they hold
beside them, each in the narrowest way we found, and the configurations leave out the
mixtures marked (left out).

**Definitions.**
* "定义版本隔离是硬约束" (`process_service_impl.go:81-83`): `Update` counts only active
  instances, so a suspended instance or a draft goes on with changed content, without
  any race. A start that overlaps an update, a slow `GetExecution` or the whole-row
  write-back of `UpdateStatus` (a lost update that tells no replica) break it too.
  `OneTopology` states what is left: the content is kept unless somebody wrote the row
  after the start read it.
* "保证同 key 仅一个 active，防并发/抖动产生多 active" (`process_service_impl.go:275`): the
  transaction makes a deployment atomic but not alone. At READ COMMITTED neither of two that overlap sees the
  other's row. Mostly they have chosen the same version and the unique index stops
  the second; when the latest version was deleted between their looks, or lowered by
  the whole-row write-back of `UpdateStatus`, they differ, and both stay active.
  `ActiveTogether` states what is left: two active versions were deployed together.
* `StartByKey` takes the latest version whatever its status. Deleting a definition
  while an instance starts leaves an instance without one, which activation and
  restore dereference. The check of `businessKey` before the insertion lets a second
  instance through when the first has finished in between.

**Forks and sub-processes.**
* `suspendNodeTypes` (`fork_aware_resume.go:47`) has no `subProcess`: a join goes off
  while the child of a branch still runs, contrary to `docs/components.md:195` and
  `docs/parallel-limitations.md:7`. A sub-process behind a user task of a branch keeps
  the join from going off until `ForceResume`. (left out: sub-processes in branches)
* Restoring a fork with a branch between two of its tasks makes the join go off with
  the restored branch alone; an automatic node between two user tasks of a branch
  runs twice; one at the head of a branch with a re-drive sets the current activity
  back and the join never goes off; an exclusive switch in a branch is stuck. (left out)
* `ForceResume` looks only at the first waiting node of each branch and refuses
  branches that never wait; `docs/parallel-limitations.md` says a branch without a
  waiting node is an error, the code skips it.
* A suspended child and a restore of its parent start a second child; a parent
  terminated between the node's read and its creation leaves an orphan; two
  sub-process nodes in a row let the second pass on the first's archived child; a
  child terminated between the queries for "terminated" and "completed" counts as
  success; entering the node again opens another pending row, which keeps the
  parent off `GetStuck`. An instance or child whose first drive is lost has
  nothing a rescue could drive.
* `CompleteProcessInstance` reads the status before it locks: it may complete an
  instance suspended in between.

**Tasks.**
* `ReduceSign` on a node by percentage, count or majority, or by the fallback of one
  without approvers (where one vote decides), leaves ghost sub-tasks (`OneRound`; left out); a suspended added signer is by-passed; the sub-task of a signer inherits the
  owner of a delegated task, so that the signer's answer goes back to the owner (left out:
  `Delegate` with `AddSign`).
* On an or-sign a signer's veto closes one row and leaves the sibling's todo open while the
  rejection runs; a row an administrator has unassigned survives its sibling's
  answer (cancellation covers active rows only) (`OneRound`). (left out: `AddSign` and
  `SetAssignee` on an or-sign)
* A recall past an or-sign that is not the first node: `recallInternal` removes the open
  rows of the frontier (`task_service_recall.go:405-484`), but the siblings that the
  or-sign's answer had terminated stay, older than the answer given next
  (`OrderKept`). When the or-sign's own answer was recalled before, they are all that is
  left: the next drive finds tasks (`getExistingTasks`), creates none and finds the node
  undecided, so that the instance waits for nobody. (left out: `Recall` with an or-sign
  after the first node)
* An administrator can make somebody the assignee of a vote's parent (`Reassign`,
  `SetAssignee`, or `SetOwner` with `Resolve`), who then answers for all. When that answer is recalled
  and then a voter's, the second recall removes the parent, which is open again and
  of the same node, and the votes are left without it (`RecallSparesOthers`). The same
  happens where signers were added to a row that is no vote. (left out: these
  operations on votes with `Recall`; `AddSign` outside votes with `Recall`)
* A transfer by a delegate drops the owner. A transfer keeps `ClaimedAt`, which its
  comment says is nil.
* A recall after a recall with added signers strands the instance; a signer's recall
  after the assignee approved voids the assignee's approval, though the header of
  `task_service_recall.go` says only one's own vote is voided. (left out:
  `AddSign` on an assigned row with `Recall`.) After a recall a node may wait for a second vote
  although those that remain decide it (`ElectorateWhole` allows it).
* An administrator takes two voters off their tasks; whoever claims one closes the
  other as `claimed_by_other` (`task_service_claim.go:167`), although the parent is still
  open, and that vote counts for nobody (`ElectorateWhole`). (left out: `Claim` with `SetAssignee` on votes)
* A user named twice in one `AddSign` gets two tasks: who is in the electorate is read before
  the loop and not updated in it (`task_service_sign.go:159-200`). `SetAssignee` with no
  user on a task that has no assignee sets it to pending (`task_service_assignment.go:81-90`),
  the parent of votes too. (the first is modelled; the second is left out)
* A recalled vote that is then delegated or transferred is awaited under another name
  than the one that voted before, so that a node can wait for a vote that changes
  nothing (`ElectorateWhole`, whose exception is the person recalled). (left out:
  `Delegate` and `Transfer` with `Recall` on votes)
* A rule "count" that asks for more approvals than there are voters can only reject, and
  still waits for the first vote (`ElectorateWhole`). (left out)
* Where a row's candidates differ from the node's pool, which an administrator achieves by
  setting them on a sub-task, the page offers a claim that the operation refuses. A
  sub-task taken off its assignee waits for a claim, which the page offers only to
  the pool and not to somebody who has a task: to nobody, if that is the holder of
  the main task (`OffersHonoured`). (left out: `Candidates` on votes or with `AddSign`,
  `SetAssignee` with `AddSign`, and on votes where there is one user)
* A return whose drive is lost is not repeated; a patrol during the drive of a return
  parks it twice. (left out)
* `tenant_admin` as the fallback of a node of votes creates a single row without
  sub-tasks; answering it fails with `ErrNoSubTasks` and ends the instance, contrary
  to the comment at `user_task_empty_approver.go:83` (the chain of fallbacks ends with
  somebody who can act). `selfApproval: skip` does not keep the starter out of a
  role's pool. The comment at `types/enums/enums.go:600` says `autoApprove` only keeps
  the starter as an approver; the code approves in their name.
* The end node's lock is released when the instance has completed: an execution that
  arrives later tells `onCompleted` again (`create_task_aspect.go:122-131`, "只触发一次").
* A replica that dies inside the end node leaves a shared lock for the two minutes of its
  time to live, which the comment calls harmless ("TTL 到期释放无副作用",
  `create_task_aspect.go:66-73`). A restore within them sends its message into
  the lock: it is dropped as a duplicate (`:126-139`, `:213-216`), the row of the end node stays
  pending, and since an instance with an open row is not stuck
  (`runtime_service_impl.go:1716-1728`) nothing takes it up again before the next
  restart. `LeftAtEnd` names that state.
* The second of the two last approvals of a node drives it once more.

**Automatic nodes.**
* The fingerprint by which a saved answer is recognised covers `processInfo` with its
  `process_key` (`ai_agent_node.go:486-488`, `635-643`) and `initiatorInfo` with the
  `currentUser` of the drive's context (`646-660`), both of which a restore lacks (`runtime_service_impl.go:213-224`, `1618`) and which a re-drive,
  whose variables contain the answer itself, changes: after a crash the model is asked
  again although its answer was saved, contrary to `ai_agent_node.go:359-361`
  ("指纹命中即复用") and `docs/CHANGELOG.md:56`. `Sparing` allows for it (`tally.again`).
* A user task does not merge its variables into the instance, so that a patrol drives
  on with the older form; `After` may write an older `ai_out_…` back.
* Rows an aiAgent leaves behind (`DoOnEnd` without `After`) are run again by a
  restore: the node passes again, an older submission is judged again, or a terminated
  instance calls the model; and they keep the instance off the stuck list. After a
  human rejection with `toStarter` the rejected fallback task is not superseded, so
  that every later submission is rejected at once (comment at `ai_agent_node.go:951`).
  Two handlers that approve at once pass the node twice. (left out: `toStarter` with
  crashes, two handlers with crashes)
* `ccTask` is outside the aspect: when every copy fails its failure is lost, and after
  a crash there the patrol drives the node before it again. `httpCall` is called again
  after a crash between nodes, and after a termination side effects go on.
* `docs/components.md:209` calls the strategy `backToInitiator`, the code `toStarter`;
  `docs/components.md:221` and a comment of `http_call_node.go` say output is flattened by
  default, the code and `docs/components.md:232` that it is not.

**Views.**
* `runtime_instance_detail.go:75-112`: `timelineTasks := tasks` shares the array of
  the running rows, is appended to and sorted in place. When the slice has room left
  (an odd number of rows from five on) and exactly as many rows of the history fit,
  the newest running row is lost: its holder gets no buttons and no form rights
  (`RunningRowsKept` says when).
* The page offers resubmission of a terminated instance, which
  `RestartProcessInstance` does not find (it reads the running table); withdrawal
  although a switch of the node forbids it; approval of a row with open signers;
  signing on a sub-task; a recall past the count limit (comment at
  `runtime_instance_detail.go:367`); claims by the node's pool where the operation
  checks the task's. `OffersHonoured` and `StarterOffersAllowed` leave these out.
* `GetNodeApprovalStatus` lists a completed sub-task twice. Two form fields with one
  data key, or a right that is no string, make page and submission disagree
  (`RightsAgree`).
* A filter by `processKey` and `processID` returns all versions of the key, though the
  comment (`runtime_service_impl.go:1990-1993`) says both are required
  (`KeyAndDefinition`). Copies count as done. An unclaimed task with an empty pool can
  be claimed by everybody and is on nobody's list. The status "failed" is queried and
  never written.

## 7. Not modelled

* **Task events** and other notifications: they change no engine state.
* **Instances**: drafts, restart, deletion of single instances, the archive as tables of
  its own (an ended instance's rows only change their status), recursion depth of sub-processes.
* **Approval node**: due dates, forms, comments, notifications, `DeleteTask`, priority.
* **`TaskDesk`**: suspension, crashes and rescue (they are in `ApprovalNode` and
  `InstanceFlow`); sequential mode (in `ApprovalNode`); the creation of a node's tasks
  is one step, as are reading and completing in `AutoApproveTasks`; the window of a
  recall, trace rows, current activity, an assignee taken off a task that has none
  (`Nobody` stands for NULL and for the empty name), ties of end times, re-archiving after a failed
  reopening; failing identity lookups. An entity of a pool stands for its one member.
  A nested drive is asked for like any other, which allows more than the code does.
* **`InstanceFlow`**: nested forks (refused by the code), and what section 6 marks.
* **`ProcessDefinitions`**: drafts, crash of a replica, business keys, the start of a
  child (which does not check the status), `duplicate = false`; the statuses
  `UpdateStatus` can set besides active are one; the row and the count in `UpdateLook`
  are one step; the third failed attempt of an update needs more versions than the
  bounds have. The host's patrol window is taken to be longer than its period and one
  load (`owes`).
* **`AutoNodes`**: aiAgent's asynchronous mode and flows without a decision,
  automation and service tasks (a call that succeeds or fails, as `startProcess`),
  templates and mappings, attachments, failure edges, a `ccTask` with no member at
  all, database failures; `Before` is one step, `After`'s completion and merge are
  one. The comments of earlier approvers in the
  prompt (`ai_agent_node.go:667-706`) change only with a person's answer, which is a new message.
  The chain that `onCompleted` names is outside, though the end's lock covers it.
  The patrol drives again only when no drive is pending (`redrive_twice` shows
  why), and a restore runs only after a restart. A row whose own message is under way
  behind a delay is left to it by a restore.
* **Views**: order, pages, keywords, dates and the tenant of lists; statistics; names and
  times on the detail page.
* `src/query`, `src/model` are generated.
