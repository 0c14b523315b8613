------------------------------ MODULE AutoNodes -----------------------------
(***************************************************************************)
(* Nodes that work without a person: a language model that reviews a       *)
(* submission (components/ai_agent_node.go), a node with an effect outside *)
(* (http_call_node.go, start_process_node.go, cc_task_node.go), a delay    *)
(* and the end node, with the aspect that keeps a task row for each of     *)
(* them (service/create_task_aspect.go) and the ways the engine takes them *)
(* up again after a crash (service/runtime_service_impl.go).               *)
(*                                                                         *)
(* The chain is  first -> review -> call -> wait -> end;  first is the     *)
(* starter's user task.  A run is one message on its way through the       *)
(* chain.  The runs of a drive hold the instance's gate (module            *)
(* DriveGates) until they stop; a delay gives it up and goes on without.   *)
(* What sets a run out is known to the prompt: the person whose answer it  *)
(* follows, the restart or the patrol.                                     *)
(*                                                                         *)
(* endLock is the lock under which the end node runs once: free, held by a *)
(* run, or left by a replica that died (0).                                *)
(*                                                                         *)
(* A message carries data: the number of the submission, the answer merged *)
(* under _ai, and the saved answer ai_out_review where it was read from    *)
(* the instance's variables.  answers and tally are history: what the      *)
(* model was asked and said; how often it was asked and the call was made  *)
(* while the instance was active, how often a person submitted or answered *)
(* and what a crash forced the engine to do over.                          *)
(***************************************************************************)
EXTENDS Naturals, FiniteSets, Sequences, SequencesExt

CONSTANTS Handler,       \* failureHandler: the people a failed review falls back on
          Copied,        \* the users a ccTask names
          Member,        \* the users of the instance's tenant
          Flows,         \* configurations of the chain
          Outputs,       \* what the model may answer
          RowId,         \* task rows open at a time
          MaxForm,       \* submissions
          MaxCrashes

IsFlow(f) == /\ f.reject \in {"terminate", "toStarter"}
             /\ f.unresolved \in {"human", "pass", "reject"}
             /\ f.handlers \subseteq Handler
             /\ f.info \in BOOLEAN
             /\ f.call \in {"httpCall", "startProcess", "ccTask"}
             /\ f.crashes \in 0 .. MaxCrashes
             /\ f.stops \in BOOLEAN
             /\ f.shared \in BOOLEAN    \* the replicas share a locker

ASSUME FlowAssumption == \A f \in Flows : IsFlow(f)
ASSUME OutputAssumption == Outputs \subseteq Seq([word : {"PASS", "REJECT", "none"},
                                                  marked : BOOLEAN, both : BOOLEAN])
ASSUME RowAssumption == RowId \subseteq Nat \ {0} /\ RowId \cap Handler = {}
ASSUME NameAssumption == "first" \notin Handler
ASSUME SizeAssumption == IsFiniteSet(RowId) /\ IsFiniteSet(Handler)
ASSUME BoundAssumption == MaxForm \in Nat /\ MaxCrashes \in Nat

VARIABLES flow, endLock, status, current, first, fallback, rows, store, runs, asks,
          restart, answers, tally
vars == <<flow, endLock, status, current, first, fallback, rows, store, runs, asks,
          restart, answers, tally>>
people == <<first, fallback>>

Slot == RowId \cup Handler

NoData == [form |-> 0, ai |-> 0, out |-> 0]
NoRow == [node |-> "none", data |-> NoData]
NoTodo == [state |-> "none", data |-> NoData]
NoRun == [node |-> "none", step |-> "idle", data |-> NoData, task |-> 0, by |-> "nobody",
          answer |-> 0, verdict |-> "none", gate |-> FALSE, due |-> FALSE]

Active == status = "active"
Gated == \E r \in Slot : runs[r].gate
FreeSlot == CHOOSE r \in RowId : runs[r] = NoRun
HasFree == \E r \in RowId : runs[r] = NoRun
OpenTodo(h) == fallback[h].state = "open"
Asked == first.state = "open" \/ \E h \in Handler : OpenTodo(h)

-----------------------------------------------------------------------------
(* A run's next step.                                                      *)
Going(r, run) == runs' = [runs EXCEPT ![r] = run]
At(r, node, step) == runs[r].node = node /\ runs[r].step = step
Goto(r, step) == Going(r, [runs[r] EXCEPT !.step = step])
Stop(r) == Going(r, NoRun)                                   \* ctx.DoOnEnd
Launched(run) == [runs EXCEPT ![FreeSlot] = run]
Message(node, data, by) ==
  [NoRun EXCEPT !.node = node, !.step = "in", !.data = data, !.by = by, !.gate = TRUE]

Ended(how) == /\ status' = how
              /\ first' = NoTodo
              /\ fallback' = [h \in Handler |-> NoTodo]
              /\ rows' = [x \in RowId |-> NoRow]

(* What a node's After merges into the instance's variables.               *)
Merged(data) == [data EXCEPT !.out = IF @ = 0 THEN store.out ELSE @]

-----------------------------------------------------------------------------
(* Before: current_activity and a pending row, unless the row the message  *)
(* names belongs to this node.  An instance that has ended takes no row.   *)
(* ccTask is outside the aspect.  The end node is entered under a lock, or *)
(* without one when the service that keeps it fails; whoever finds it held *)
(* drops the message.                                                      *)
Observed(node) == ~(node = "call" /\ flow.call = "ccTask")
Reentry(run) == run.task # 0 /\ run.node = rows[run.task].node

FirstStep(run) == CASE run.node = "review" -> "look"
                    [] run.node = "call" -> "act"
                    [] run.node = "wait" -> IF run.due THEN "after" ELSE "parked"
                    [] run.node = "end" -> "after"

Entered(r, task) ==
  LET run == runs[r] IN
  Going(r, [run EXCEPT !.step = FirstStep(run), !.task = task,
                       !.gate = @ /\ FirstStep(run) # "parked"])

TakesEnd(r) == \/ endLock = {} /\ endLock' = {r}
               \/ flow.shared /\ endLock' = endLock

Before(r) ==
  LET run == runs[r] IN
  /\ run.step = "in"
  /\ IF run.node = "end" THEN TakesEnd(r) ELSE endLock' = endLock
  /\ IF ~Active \/ ~Observed(run.node)
       THEN UNCHANGED <<current, rows>> /\ Entered(r, 0)
       ELSE /\ current' = run.node
            /\ IF Reentry(run)
                 THEN UNCHANGED rows /\ Entered(r, run.task)
                 ELSE LET free == {x \in RowId : rows[x] = NoRow} IN
                      \E x \in free :
                        /\ \A z \in free : x >= z
                        /\ rows' = [rows EXCEPT ![x] = [node |-> run.node, data |-> run.data]]
                        /\ Entered(r, x)
  /\ UNCHANGED <<flow, status, people, store, asks, restart, answers, tally>>

Suppressed(r) ==
  /\ At(r, "end", "in") /\ endLock # {}
  /\ Stop(r)
  /\ UNCHANGED <<flow, endLock, status, current, people, rows, store, asks, restart, answers, tally>>

(* After: the row is completed and, if it was, the message merged into the *)
(* instance's variables; then the message goes on, or the end node ends    *)
(* the instance and gives its lock back if it still holds it.  A failure   *)
(* ends the instance (no node here has a Failure connection).              *)
NextNode(node) == CASE node = "review" -> "call" [] node = "call" -> "wait" [] node = "wait" -> "end"

PassOn(r) == Going(r, [runs[r] EXCEPT !.node = NextNode(@), !.step = "in", !.task = 0,
                                      !.due = FALSE, !.answer = 0])

Completed(run) ==
  IF Active /\ run.task # 0 /\ rows[run.task].node = run.node
    THEN /\ rows' = [rows EXCEPT ![run.task] = NoRow]
         /\ store' = Merged(run.data)
    ELSE UNCHANGED <<rows, store>>

After(r) ==
  LET run == runs[r] IN
  /\ run.step = "after" /\ Observed(run.node)
  /\ Completed(run)
  /\ IF run.node = "end" THEN Goto(r, "finish") ELSE PassOn(r)
  /\ UNCHANGED <<flow, endLock, status, current, people, asks, restart, answers, tally>>

Finish(r) ==
  /\ At(r, "end", "finish")
  /\ IF Active THEN Ended("completed") ELSE UNCHANGED <<status, people, rows>>
  /\ endLock' = endLock \ {r}
  /\ Stop(r)
  /\ UNCHANGED <<flow, current, store, asks, restart, answers, tally>>

AfterFailure(r) ==
  /\ runs[r].step = "failed" /\ Observed(runs[r].node)
  /\ IF Active THEN Ended("terminated") /\ store' = Merged(runs[r].data)
               ELSE UNCHANGED <<status, people, rows, store>>
  /\ Stop(r)
  /\ UNCHANGED <<flow, endLock, current, asks, restart, answers, tally>>

(* Outside the aspect: the message goes on or is lost.                     *)
AfterCC(r) ==
  /\ runs[r].step \in {"after", "failed"} /\ ~Observed(runs[r].node)
  /\ IF runs[r].step = "after" THEN PassOn(r) ELSE Stop(r)
  /\ UNCHANGED <<flow, endLock, status, current, people, rows, store, asks, restart, answers, tally>>

-----------------------------------------------------------------------------
(* review: aiAgent.                                                        *)

(* assembleInput: all the message's variables and, if asked for, what the  *)
(* envelope and the context of the drive say: a restored message has no    *)
(* process key and no current user, a patrol's has another user.           *)
Payload(run) == [data |-> run.data, by |-> IF flow.info THEN run.by ELSE "nobody"]

(* The input the saved answer was given to is this one.                    *)
ReusableWhenSaved(run) == store.out # 0                                 \* slip
Reusable(run) == store.out # 0 /\ answers[store.out].to = Payload(run)

(* handleReject: back to the starter, whose old task is superseded, or the *)
(* end of the instance.                                                    *)
HandleReject(r, data) ==
  /\ Stop(r)
  /\ IF ~Active THEN UNCHANGED <<status, current, people, rows>>
     ELSE IF flow.reject = "terminate"
       THEN Ended("terminated") /\ UNCHANGED current
       ELSE /\ first' = [state |-> "open", data |-> data]
            /\ current' = "first"
            /\ UNCHANGED <<status, fallback, rows>>

(* createHumanFallbackTasks: a task for each of the handlers.              *)
Fallback(r, data) ==
  /\ Stop(r)
  /\ fallback' = IF Active
       THEN [h \in Handler |-> IF h \in flow.handlers THEN [state |-> "open", data |-> data]
                                                      ELSE fallback[h]]
       ELSE fallback
  /\ UNCHANGED <<status, current, first, rows>>

Passed(r, data, verdict) ==
  /\ Going(r, [runs[r] EXCEPT !.step = "after", !.data = data, !.verdict = verdict])
  /\ UNCHANGED <<status, current, people, rows>>

(* routeByHumanDecision, then the saved answer.                            *)
Said(verdict) == {h \in Handler : fallback[h].state = verdict}

Look(r) ==
  LET run == runs[r] IN
  /\ At(r, "review", "look")
  /\ \/ /\ Said("open") # {}
        /\ Stop(r) /\ UNCHANGED <<status, current, people, rows>>
     \/ /\ Said("open") = {} /\ Said("rejected") # {}
        /\ HandleReject(r, run.data)
     \/ /\ Said("open") \cup Said("rejected") = {} /\ Said("approved") # {}
        /\ Passed(r, run.data, "HUMAN_PASS")
     \/ /\ Said("open") \cup Said("rejected") \cup Said("approved") = {}
        /\ Going(r, IF Reusable(run) THEN [run EXCEPT !.step = "judge", !.answer = store.out]
                                     ELSE [run EXCEPT !.step = "ask"])
        /\ UNCHANGED <<status, current, people, rows>>
  /\ UNCHANGED <<flow, endLock, store, asks, restart, answers, tally>>

(* Each line of the answer is the agreed marker alone, begins with it or   *)
(* has none; a line with words of both kinds repeats the instructions.     *)
ExtractDecision(output) ==
  LET marked == SelectSeq(output, LAMBDA l : l.marked /\ l.word # "none")
      plain == SelectSeq(output, LAMBDA l : l.word # "none" /\ ~l.both) IN
  CASE marked # <<>> -> Last(marked).word
    [] marked = <<>> /\ plain # <<>> -> Last(plain).word
    [] OTHER -> "UNRESOLVED"

(* ExecuteAndCollect.                                                      *)
CountCall == tally' = [tally EXCEPT !.calls = IF Active THEN @ + 1 ELSE @]

Answered(r, output) ==
  /\ At(r, "review", "ask")
  /\ answers' = Append(answers, [to |-> Payload(runs[r]), said |-> ExtractDecision(output)])
  /\ CountCall
  /\ Going(r, [runs[r] EXCEPT !.step = "save", !.answer = Len(answers')])
  /\ UNCHANGED <<flow, endLock, status, current, people, rows, store, asks, restart>>

(* handleFailure: the handlers, or the Failure relation.                   *)
NoAnswer(r) ==
  /\ At(r, "review", "ask")
  /\ CountCall
  /\ IF flow.handlers # {} THEN Fallback(r, runs[r].data)
                           ELSE Goto(r, "failed") /\ UNCHANGED <<status, current, people, rows>>
  /\ UNCHANGED <<flow, endLock, store, asks, restart, answers>>

(* persistOutputForReuse: refused once the instance has ended.             *)
SavedNowhere(answer) == store                                           \* slip
Saved(answer) == [store EXCEPT !.out = answer]

Save(r) ==
  /\ At(r, "review", "save")
  /\ store' = IF Active THEN Saved(runs[r].answer) ELSE store
  /\ Goto(r, "judge")
  /\ UNCHANGED <<flow, endLock, status, current, people, rows, asks, restart, answers, tally>>

(* MergeAgentOutput, then where the answer sends the message.              *)
MergeOutput(run) == [run.data EXCEPT !.ai = run.answer]

HandleUnresolved(r, data) ==
  CASE flow.unresolved = "reject" -> HandleReject(r, data)
    [] flow.unresolved = "human" /\ flow.handlers # {} -> Fallback(r, data)
    [] OTHER -> Passed(r, data, "UNRESOLVED")

Judge(r) ==
  LET data == MergeOutput(runs[r])
      said == answers[runs[r].answer].said IN
  /\ At(r, "review", "judge")
  /\ \/ said = "PASS" /\ Passed(r, data, "PASS")
     \/ said = "REJECT" /\ HandleReject(r, data)
     \/ said = "UNRESOLVED" /\ HandleUnresolved(r, data)
  /\ UNCHANGED <<flow, endLock, store, asks, restart, answers, tally>>

-----------------------------------------------------------------------------
(* call: a node with an effect outside, and the relations it may tell.     *)

(* The request is refused before it is sent, lost, answered with an error  *)
(* or a body too large, or answered.                                       *)
HttpFate == {"blocked", "lost", "refused", "oversized", "ok"}
HttpSent(fate) == fate # "blocked"
HttpTells(fate) == IF fate = "ok" THEN "after" ELSE "failed"

(* An instance of another process, or none.                                *)
StartFate == {"no tenant", "foreign initiator", "not started", "ok"}
StartTells(fate) == IF fate = "ok" THEN "after" ELSE "failed"

(* A completed row for every user of the tenant; a failure only if all are *)
(* refused.                                                                *)
CCRows == Copied \cap Member
CCTells == IF Copied # {} /\ CCRows = {} THEN "failed" ELSE "after"

Acted(r, effect, step) ==
  /\ At(r, "call", "act")
  /\ tally' = [tally EXCEPT !.effects = IF effect /\ Active THEN @ + 1 ELSE @]
  /\ Goto(r, step)
  /\ UNCHANGED <<flow, endLock, status, current, people, rows, store, asks, restart, answers>>

HttpCall(r) == /\ flow.call = "httpCall"
               /\ \E fate \in HttpFate : Acted(r, HttpSent(fate), HttpTells(fate))
StartProcess(r) == /\ flow.call = "startProcess"
                   /\ \E fate \in StartFate : Acted(r, fate = "ok", StartTells(fate))
CCTask(r) == flow.call = "ccTask" /\ Acted(r, CCRows # {}, CCTells)

(* wait: the timer goes off.                                               *)
Fire(r) ==
  /\ At(r, "wait", "parked")
  /\ Goto(r, "after")
  /\ UNCHANGED <<flow, endLock, status, current, people, rows, store, asks, restart, answers, tally>>

-----------------------------------------------------------------------------
(* The starter submits and a handler decides; each answer asks for the     *)
(* drive that goes on from its node with the variables of its row.         *)
Submit ==
  /\ Active /\ first.state = "open"
  /\ tally.forms < MaxForm
  /\ tally' = [tally EXCEPT !.forms = @ + 1, !.asked = @ + 1]
  /\ first' = [state |-> "answered", data |-> [first.data EXCEPT !.form = tally'.forms]]
  /\ asks' = asks \cup {"first"}
  /\ UNCHANGED <<flow, endLock, status, current, fallback, rows, store, runs, restart, answers>>

Decide(h, verdict) ==
  /\ Active /\ OpenTodo(h)
  /\ fallback' = [fallback EXCEPT ![h].state = verdict]
  /\ tally' = [tally EXCEPT !.asked = @ + 1]
  /\ asks' = asks \cup {h}
  /\ UNCHANGED <<flow, endLock, status, current, first, rows, store, runs, restart, answers>>

ExecuteNext(a) ==
  /\ a \in asks /\ ~Gated
  /\ asks' = asks \ {a}
  /\ IF Active
       THEN /\ HasFree
            /\ runs' = Launched(Message("review", IF a = "first" THEN first.data ELSE fallback[a].data, a))
       ELSE UNCHANGED runs
  /\ UNCHANGED <<flow, endLock, status, current, people, rows, store, restart, answers, tally>>

(* Somebody terminates the instance.                                       *)
Terminate ==
  /\ Active /\ flow.stops
  /\ Ended("terminated")
  /\ UNCHANGED <<flow, endLock, current, store, runs, asks, restart, answers, tally>>

-----------------------------------------------------------------------------
(* The replica fails: messages, timers and drives asked for are gone; a    *)
(* shared lock stays.                                                      *)
Crash ==
  /\ tally.crashes < flow.crashes
  /\ tally' = [tally EXCEPT !.crashes = @ + 1,
                 !.again = @ + Cardinality({r \in Slot : At(r, "review", "save")
                                                              \/ At(r, "review", "failed")})]
  /\ runs' = [r \in Slot |-> NoRun]
  /\ asks' = {}
  /\ restart' = TRUE
  /\ endLock' = IF flow.shared /\ endLock # {} THEN {0} ELSE {}
  /\ UNCHANGED <<flow, status, current, people, rows, store, answers>>

(* The lock's time is up, whoever holds it.                                *)
Expire ==
  /\ endLock # {}
  /\ endLock' = {}
  /\ UNCHANGED <<flow, status, current, people, rows, store, runs, asks, restart, answers, tally>>

(* RestoreAll, after a restart: a message for every open row, with the     *)
(* row's variables and its id; one for a person finds the row open.  A     *)
(* message that is on its way behind its delay may so get a double; a row  *)
(* whose own slot such a message holds is left to it.                      *)
PendingWait(x) == rows[x].node = "wait"                                 \* slip
Pending(x) == rows[x] # NoRow
Resumed == {x \in RowId : Pending(x) /\ runs[x] = NoRun}

Restored(node, data, x) ==
  [Message(node, data, "restart") EXCEPT !.task = x]

Restore ==
  /\ restart /\ ~Gated
  /\ restart' = FALSE
  /\ current' = IF \E h \in Handler : OpenTodo(h) THEN "review" ELSE current
  /\ IF Active
       THEN /\ runs' = [r \in Slot |->
                 IF r \in Handler
                   THEN IF OpenTodo(r) THEN [Restored("review", fallback[r].data, 0) EXCEPT !.step = "look"]
                                       ELSE runs[r]
                   ELSE IF r \in Resumed THEN Restored(rows[r].node, rows[r].data, r)
                                         ELSE runs[r]]
            /\ tally' = [tally EXCEPT
                 !.forced = @ + Cardinality({x \in Resumed : rows[x].node \in {"review", "call"}}),
                 !.again = @ + IF flow.info
                                 THEN Cardinality({x \in Resumed : rows[x].node = "review"})
                                 ELSE 0]
       ELSE UNCHANGED <<runs, tally>>
  /\ UNCHANGED <<flow, endLock, status, people, rows, store, asks, answers>>

(* The patrol: an active instance without an open row is driven again from *)
(* its current node, with the instance's variables.                        *)
Stuck == Active /\ ~Asked /\ \A x \in RowId : rows[x] = NoRow
Redrives == IF current = "first" THEN "review" ELSE current

ReDrive ==
  /\ Stuck /\ ~Gated /\ asks = {} /\ HasFree
  /\ \A r \in Slot : runs[r] = NoRun
  /\ runs' = Launched(Message(Redrives, store, "patrol"))
  /\ tally' = [tally EXCEPT !.forced = IF Redrives \in {"review", "call"} THEN @ + 1 ELSE @,
                            !.again = IF Redrives = "review" THEN @ + 1 ELSE @]
  /\ UNCHANGED <<flow, endLock, status, current, people, rows, store, asks, restart, answers>>

(* An overdue delay row whose timer is gone.                               *)
Rescue(x) ==
  /\ Active /\ rows[x].node = "wait" /\ ~Gated /\ HasFree
  /\ \A r \in Slot : runs[r].task # x
  /\ runs' = Launched([Restored("wait", rows[x].data, x) EXCEPT !.due = TRUE])
  /\ UNCHANGED <<flow, endLock, status, current, people, rows, store, asks, restart, answers, tally>>

-----------------------------------------------------------------------------
Init ==
  /\ flow \in Flows
  /\ endLock = {}
  /\ status = "active"
  /\ current = "first"
  /\ first = [state |-> "open", data |-> NoData]
  /\ fallback = [h \in Handler |-> NoTodo]
  /\ rows = [x \in RowId |-> NoRow]
  /\ store = NoData
  /\ runs = [r \in Slot |-> NoRun]
  /\ asks = {}
  /\ restart = FALSE
  /\ answers = <<>>
  /\ tally = [calls |-> 0, effects |-> 0, forms |-> 0, asked |-> 0, again |-> 0,
              forced |-> 0, crashes |-> 0]

Review(r) == Look(r) \/ NoAnswer(r) \/ Save(r) \/ Judge(r)
             \/ \E output \in Outputs : Answered(r, output)
Call(r) == HttpCall(r) \/ StartProcess(r) \/ CCTask(r)
Aspect(r) == Before(r) \/ Suppressed(r) \/ After(r) \/ Finish(r) \/ AfterFailure(r) \/ AfterCC(r)
RunStep(r) == Aspect(r) \/ Review(r) \/ Call(r) \/ Fire(r)

Next ==
  \/ \E r \in Slot : RunStep(r)
  \/ Submit
  \/ \E h \in Handler : \E verdict \in {"approved", "rejected"} : Decide(h, verdict)
  \/ \E a \in asks : ExecuteNext(a)
  \/ Terminate
  \/ Crash
  \/ Restore
  \/ ReDrive
  \/ \E x \in RowId : Rescue(x)
  \/ Expire

Spec == Init /\ [][Next]_vars

(* Messages move, timers go off and drives asked for run; the host         *)
(* restores after a restart, its patrols go on and locks expire.           *)
FairSpec ==
  /\ Spec
  /\ \A r \in Slot : WF_vars(RunStep(r))
  /\ \A a \in {"first"} \cup Handler : WF_vars(ExecuteNext(a))
  /\ WF_vars(Restore) /\ WF_vars(ReDrive) /\ WF_vars(Expire)
  /\ \A x \in RowId : WF_vars(Rescue(x))

-----------------------------------------------------------------------------
Types ==
  /\ flow \in Flows
  /\ status \in {"active", "completed", "terminated"}
  /\ \A r \in Slot : runs[r].answer \in 0 .. Len(answers)

(* The model's word decides about the submission it was given: a second    *)
(* submission is neither let through nor sent back by the answer saved for *)
(* the first (reuseCachedOutput compares the input), and what goes on with *)
(* the model's consent carries that answer, merged into its data.          *)
AnswerFits ==
  \A r \in Slot :
    LET run == runs[r]
        About(answer) == answers[answer].to.data.form IN
    /\ run.step = "judge" => About(run.answer) = run.data.form
    /\ run.verdict = "PASS" /\ run.node \in {"call", "wait", "end"}
         => /\ run.data.ai # 0
            /\ answers[run.data.ai].said = "PASS"
            /\ About(run.data.ai) = run.data.form

(* The model is asked once for a submission, and again only where a crash  *)
(* lost its answer or its failure before it was kept, where the patrol     *)
(* drives review from other variables, or where the restored message lacks *)
(* a detail of the process or the context that its prompt shows; the call  *)
(* is made once for an answer of a person, and again only where a restart  *)
(* or the patrol drives its node again.                                    *)
Sparing == /\ tally.calls <= tally.forms + tally.again
           /\ tally.effects <= tally.asked + tally.forced

(* An instance nobody is asked about gets on: to a person or to its end,   *)
(* through crashes, lost timers and lost drives.  What does not: a replica *)
(* dies inside the end node, the others' locker keeps its lock, and the    *)
(* restored message is dropped at it.  The row of the end node stays open, *)
(* so that the patrol does not see the instance either.                    *)
LeftAtEnd ==
  /\ flow.shared /\ tally.crashes > 0 /\ ~restart
  /\ \E x \in RowId : rows[x].node = "end" /\ \A r \in Slot : runs[r].task # x

GetsOn == (Active /\ ~Asked) ~> (Asked \/ ~Active \/ LeftAtEnd)
=============================================================================
