--------------------------- MODULE AutoNodesProofs ---------------------------
(***************************************************************************)
(* Whatever the configuration, the answers of the model, the people asked  *)
(* and the number of crashes: the answer that decides about a submission   *)
(* was given to this submission (AnswerFits), and the model is asked and   *)
(* the call made no more often than somebody or a crash is accountable for *)
(* (Sparing).                                                              *)
(*                                                                         *)
(* AnswerFits is not inductive.  That a run judges by an answer to its own *)
(* data needs that every place a message is taken from (rows, tasks,       *)
(* variables of the instance) refers to answers that were given, so that   *)
(* the saved number is never read before it means something, and that a    *)
(* run that carries a consent keeps both the consent and the submission.   *)
(*                                                                         *)
(* Sparing is far from inductive: it says nothing of what is about to be   *)
(* asked or called.  Its invariant counts that too (CallsPaid and          *)
(* EffectsPaid): the runs that may still ask or call, the drives asked     *)
(* for, the handler who holds a message, and the row whose model the next  *)
(* restore has asked again.  That a step moves one of these and never      *)
(* makes two of it needs that a chain that can crash has one message until *)
(* somebody is asked (Alone), with the answer that was saved for its row   *)
(* (Kept), and that a person who is asked holds the message (Waiting).     *)
(***************************************************************************)
EXTENDS AutoNodes, FiniteSetTheorems, TLAPS

Place == {"review", "call", "wait", "end"}
Step == {"idle", "in", "look", "ask", "save", "judge", "act", "parked", "after", "finish", "failed"}
Word == {"none", "PASS", "HUMAN_PASS", "UNRESOLVED"}
Origin == {"nobody", "first", "restart", "patrol"} \cup Handler

(* Data that refers to answers given so far, the answers, and what carries *)
(* such data.                                                              *)
Known(given) == [form : Nat, ai : 0 .. Len(given), out : 0 .. Len(given)]
Answer == [to : [data : [form : Nat, ai : Nat, out : Nat], by : Origin],
           said : {ExtractDecision(output) : output \in Outputs}]
Row(given) == {NoRow} \cup [node : Place, data : Known(given)]
Todo(given) == [state : {"none", "open", "answered", "approved", "rejected"}, data : Known(given)]
Run(given) == [node : Place \cup {"none"}, step : Step, data : Known(given),
               task : RowId \cup {0}, by : Origin, answer : 0 .. Len(given),
               verdict : Word, gate : BOOLEAN, due : BOOLEAN]

(* A run on its way is at a node; the answer it is about to judge by was   *)
(* given to its data; the consent it carries is to its submission.         *)
Judged(run, given) ==
  run.step \in {"save", "judge"} => /\ run.answer # 0
                                    /\ given[run.answer].to.data = run.data
Consented(run, given) ==
  run.verdict = "PASS" => /\ run.data.ai # 0
                          /\ given[run.data.ai].said = "PASS"
                          /\ given[run.data.ai].to.data.form = run.data.form
Sound(run, given) == /\ run \in Run(given)
                     /\ run.step # "idle" => run.node \in Place
                     /\ Judged(run, given)
                     /\ Consented(run, given)

(* The people, the tables and the variables.                               *)
Tables(given) == /\ first \in Todo(given)
                 /\ fallback \in [Handler -> Todo(given)]
                 /\ rows \in [RowId -> Row(given)]
                 /\ store \in Known(given)
Settings == /\ current \in Place \cup {"first"}
            /\ asks \subseteq {"first"} \cup Handler
            /\ tally.forms \in Nat
            /\ DOMAIN tally = {"calls", "effects", "forms", "asked", "again", "forced", "crashes"}

RunsSound(given) == /\ runs \in [Slot -> Run(given)]
                    /\ \A r \in Slot : Sound(runs[r], given)

AInv == /\ answers \in Seq(Answer)
        /\ Tables(answers)
        /\ Settings
        /\ RunsSound(answers)

-----------------------------------------------------------------------------
(* Data and runs.                                                          *)

LEMMA NothingKnown == ASSUME NEW given \in Seq(Answer)
                      PROVE  NoData \in Known(given) /\ NoRow \in Row(given)
                             /\ NoTodo \in Todo(given) /\ Sound(NoRun, given)
<1>1. Len(given) \in Nat
  OBVIOUS
<1>2. NoData \in Known(given)
  BY <1>1 DEF NoData, Known
<1>3. NoRow \in Row(given) /\ NoTodo \in Todo(given)
  BY <1>2 DEF NoRow, Row, NoTodo, Todo
<1>4. NoRun \in Run(given)
  BY <1>1, <1>2 DEF NoRun, Run, Step, Word, Origin
<1>5. QED
  BY <1>2, <1>3, <1>4 DEF Sound, Judged, Consented, NoRun

(* A message set on its way anew.                                          *)
LEMMA SetOut ==
  ASSUME NEW given, NEW run \in Run(given), run.node \in Place,
         run.step \in {"in", "look"}, run.verdict = "none"
  PROVE  Sound(run, given)
BY DEF Sound, Judged, Consented

(* A run goes a step further with what it has.                             *)
LEMMA StepOn ==
  ASSUME NEW given, NEW run, Sound(run, given), NEW next \in Run(given),
         next.node \in Place, next.step \notin {"save", "judge"},
         next.data = run.data, next.verdict = run.verdict
  PROVE  Sound(next, given)
BY DEF Sound, Judged, Consented

(* Another answer is given: what was known stays known.                    *)
LEMMA StaysKnown ==
  ASSUME NEW given \in Seq(Answer), NEW more \in Answer, NEW run, Sound(run, given)
  PROVE  /\ Known(given) \subseteq Known(Append(given, more))
         /\ Row(given) \subseteq Row(Append(given, more))
         /\ Todo(given) \subseteq Todo(Append(given, more))
         /\ Run(given) \subseteq Run(Append(given, more))
         /\ Sound(run, Append(given, more))
<1> DEFINE grown == Append(given, more)
<1>1. /\ Len(given) \in Nat /\ Len(grown) = Len(given) + 1
      /\ \A i \in 1 .. Len(given) : grown[i] = given[i]
  OBVIOUS
<1> HIDE DEF grown
<1>2. 0 .. Len(given) \subseteq 0 .. Len(grown)
  BY <1>1
<1>3. Known(given) \subseteq Known(grown)
  BY <1>2 DEF Known
<1>4. Row(given) \subseteq Row(grown) /\ Todo(given) \subseteq Todo(grown)
  BY <1>3 DEF Row, Todo
<1>5. Run(given) \subseteq Run(grown)
  BY <1>2, <1>3 DEF Run
<1>6. run \in Run(given) /\ run.answer \in 0 .. Len(given) /\ run.data.ai \in 0 .. Len(given)
  BY DEF Sound, Run, Known
<1>7. Judged(run, grown)
  BY <1>1, <1>6 DEF Sound, Judged
<1>8. Consented(run, grown)
  BY <1>1, <1>6 DEF Sound, Consented
<1>9. Sound(run, grown)
  BY <1>5, <1>6, <1>7, <1>8 DEF Sound
<1>10. QED
  BY <1>3, <1>4, <1>5, <1>9 DEF grown

-----------------------------------------------------------------------------
(* Steps of the whole.                                                     *)

LEMMA OneRun ==
  ASSUME RunsSound(answers), NEW r \in Slot, NEW next, Sound(next, answers),
         runs' = [runs EXCEPT ![r] = next], answers' = answers
  PROVE  RunsSound(answers)'
<1>1. next \in Run(answers)
  BY DEF Sound
<1>2. runs' \in [Slot -> Run(answers)]
  BY <1>1 DEF RunsSound
<1>3. \A q \in Slot : Sound(runs'[q], answers)
  BY DEF RunsSound
<1>4. QED
  BY <1>2, <1>3 DEF RunsSound

LEMMA RunAtHand ==
  ASSUME AInv, NEW r \in Slot
  PROVE  /\ Sound(runs[r], answers) /\ runs[r] \in Run(answers)
         /\ runs[r].data \in Known(answers) /\ runs[r].task \in RowId \cup {0}
         /\ runs[r].step # "idle" => runs[r].node \in Place
<1>1. Sound(runs[r], answers) /\ runs[r] \in Run(answers)
  BY DEF AInv, RunsSound
<1>2. QED
  BY <1>1 DEF Sound, Run

(* The end of an instance closes everything.                               *)
LEMMA EndKeepsTables ==
  ASSUME AInv, NEW how, Ended(how), store' \in Known(answers), answers' = answers
  PROVE  Tables(answers)'
<1>1. NoRow \in Row(answers) /\ NoTodo \in Todo(answers)
  BY NothingKnown DEF AInv
<1>2. QED
  BY <1>1 DEF Ended, Tables

LEMMA MergedKnown ==
  ASSUME AInv, NEW data \in Known(answers)
  PROVE  Merged(data) \in Known(answers)
<1>1. store.out \in 0 .. Len(answers)
  BY DEF AInv, Tables, Known
<1>2. QED
  BY <1>1 DEF Merged, Known

LEMMA StopKeeps ==
  ASSUME AInv, NEW r \in Slot, Stop(r), answers' = answers
  PROVE  RunsSound(answers)'
BY OneRun, NothingKnown DEF AInv, Stop, Going

-----------------------------------------------------------------------------
(* The aspect.                                                             *)

LEMMA EnteredKeeps ==
  ASSUME AInv, NEW r \in Slot, runs[r].step = "in", NEW task \in RowId \cup {0},
         Entered(r, task), answers' = answers
  PROVE  RunsSound(answers)'
<1>1. PICK run : run = runs[r]
  OBVIOUS
<1>2. Sound(run, answers) /\ run \in Run(answers) /\ run.node \in Place /\ run.gate \in BOOLEAN
  BY <1>1, RunAtHand DEF Run
<1>3. FirstStep(run) \in Step \ {"idle", "save", "judge"}
  BY <1>2 DEF FirstStep, Place, Step
<1>4. PICK next : next = [run EXCEPT !.step = FirstStep(run), !.task = task,
                                     !.gate = @ /\ FirstStep(run) # "parked"]
  OBVIOUS
<1>5. runs' = [runs EXCEPT ![r] = next]
  BY <1>1, <1>4, Zenon DEF Entered, Going
<1>6. PICK step, gate : step = FirstStep(run) /\ gate = (run.gate /\ step # "parked")
  OBVIOUS
<1>7. gate \in BOOLEAN /\ step \in Step /\ next = [run EXCEPT !.step = step, !.task = task, !.gate = gate]
  BY <1>3, <1>4, <1>6
<1>8. /\ next \in Run(answers) /\ next.node = run.node /\ next.step = step
      /\ next.data = run.data /\ next.verdict = run.verdict
  BY <1>2, <1>7 DEF Run
<1>9. Sound(next, answers)
  BY <1>2, <1>3, <1>6, <1>8, StepOn
<1>10. QED
  BY <1>5, <1>9, OneRun DEF AInv

LEMMA BeforeKeeps ==
  ASSUME AInv, NEW r \in Slot, Before(r)
  PROVE  AInv'
<1>1. runs[r].step = "in" /\ runs[r].node \in Place /\ runs[r].data \in Known(answers)
      /\ runs[r].task \in RowId \cup {0}
  BY RunAtHand DEF Before
<1>2. /\ answers' = answers /\ UNCHANGED <<first, fallback, store, asks, tally>>
  BY DEF Before, people
<1>3. current' \in Place \cup {"first"}
  BY <1>1 DEF Before, AInv, Settings
<1>4. CASE UNCHANGED rows
  <2>1. PICK task \in RowId \cup {0} : Entered(r, task)
    BY <1>1, <1>4 DEF Before
  <2>2. RunsSound(answers)'
    BY <1>1, <1>2, <2>1, EnteredKeeps
  <2>3. Tables(answers)'
    BY <1>2, <1>4 DEF AInv, Tables
  <2>4. QED
    BY <1>2, <1>3, <2>2, <2>3 DEF AInv, Settings
<1>5. CASE \E x \in RowId : /\ rows' = [rows EXCEPT ![x] = [node |-> runs[r].node,
                                                             data |-> runs[r].data]]
                            /\ Entered(r, x)
  <2>1. PICK x \in RowId : /\ rows' = [rows EXCEPT ![x] = [node |-> runs[r].node,
                                                            data |-> runs[r].data]]
                           /\ Entered(r, x)
    BY <1>5
  <2>2. RunsSound(answers)'
    BY <1>1, <1>2, <2>1, EnteredKeeps
  <2>3. [node |-> runs[r].node, data |-> runs[r].data] \in Row(answers)
    BY <1>1 DEF Row
  <2>4. Tables(answers)'
    BY <1>2, <2>1, <2>3 DEF AInv, Tables
  <2>5. QED
    BY <1>2, <1>3, <2>2, <2>4 DEF AInv, Settings
<1>6. QED
  BY <1>4, <1>5 DEF Before

LEMMA PassOnKeeps ==
  ASSUME AInv, NEW r \in Slot, runs[r].step # "idle", runs[r].node # "end",
         PassOn(r), answers' = answers
  PROVE  RunsSound(answers)'
<1>1. PICK run : run = runs[r]
  OBVIOUS
<1>2. Sound(run, answers) /\ run \in Run(answers) /\ run.node \in Place
  BY <1>1, RunAtHand
<1>3. PICK node \in Place : node = NextNode(run.node)
  BY <1>1, <1>2 DEF NextNode, Place
<1>4. PICK next : next = [run EXCEPT !.node = node, !.step = "in", !.task = 0,
                                     !.due = FALSE, !.answer = 0]
  OBVIOUS
<1>5. runs' = [runs EXCEPT ![r] = next]
  BY <1>1, <1>3, <1>4, Zenon DEF PassOn, Going
<1>6. /\ next \in Run(answers) /\ next.node \in Place /\ next.step = "in"
      /\ next.data = run.data /\ next.verdict = run.verdict
  <2>1. 0 \in 0 .. Len(answers) /\ "in" \in Step
    BY DEF AInv, Step
  <2>2. QED
    BY <1>2, <1>4, <2>1 DEF Run
<1>7. Sound(next, answers)
  BY <1>2, <1>6, StepOn
<1>8. QED
  BY <1>5, <1>7, OneRun DEF AInv

(* A run goes on at its node with what it has.                             *)
LEMMA GotoKeeps ==
  ASSUME AInv, NEW r \in Slot, runs[r].step # "idle", NEW step \in Step,
         step \in {"save", "judge"} => runs[r].step \in {"save", "judge"},
         Goto(r, step), answers' = answers
  PROVE  RunsSound(answers)'
<1>1. PICK run : run = runs[r]
  OBVIOUS
<1>2. Sound(run, answers) /\ run \in Run(answers) /\ run.node \in Place
  BY <1>1, RunAtHand
<1>3. PICK next : next = [run EXCEPT !.step = step]
  OBVIOUS
<1>4. runs' = [runs EXCEPT ![r] = next]
  BY <1>1, <1>3, Zenon DEF Goto, Going
<1>5. /\ next \in Run(answers) /\ next.node = run.node /\ next.step = step
      /\ next.data = run.data /\ next.verdict = run.verdict /\ next.answer = run.answer
  BY <1>2, <1>3 DEF Run
<1>6. Sound(next, answers)
  BY <1>1, <1>2, <1>5 DEF Sound, Judged, Consented
<1>7. QED
  BY <1>4, <1>6, OneRun DEF AInv

LEMMA SuppressedKeeps ==
  ASSUME AInv, NEW r \in Slot, Suppressed(r)
  PROVE  AInv'
<1>1. answers' = answers /\ UNCHANGED <<current, first, fallback, rows, store, asks, tally>>
  BY DEF Suppressed, people
<1>2. RunsSound(answers)'
  BY <1>1, StopKeeps DEF Suppressed
<1>3. QED
  BY <1>1, <1>2 DEF AInv, Tables, Settings

LEMMA AfterKeeps ==
  ASSUME AInv, NEW r \in Slot, After(r)
  PROVE  AInv'
<1>1. /\ answers' = answers /\ UNCHANGED <<current, first, fallback, asks, tally>>
      /\ runs[r].step = "after" /\ runs[r].data \in Known(answers) /\ Completed(runs[r])
  BY RunAtHand DEF After, people
<1>2. RunsSound(answers)'
  <2>1. CASE runs[r].node = "end"
    BY <1>1, <2>1, GotoKeeps DEF After, Step
  <2>2. CASE runs[r].node # "end"
    BY <1>1, <2>2, PassOnKeeps DEF After
  <2>3. QED
    BY <2>1, <2>2
<1>3. Merged(runs[r].data) \in Known(answers) /\ store \in Known(answers) /\ NoRow \in Row(answers)
  BY <1>1, MergedKnown DEF AInv, Tables, Row
<1>4. rows' \in [RowId -> Row(answers)] /\ store' \in Known(answers)
  BY <1>1, <1>3 DEF Completed, AInv, Tables
<1>5. QED
  BY <1>1, <1>2, <1>4 DEF AInv, Tables, Settings

LEMMA FinishKeeps ==
  ASSUME AInv, NEW r \in Slot, Finish(r)
  PROVE  AInv'
<1>1. answers' = answers /\ UNCHANGED <<current, store, asks, tally>>
  BY DEF Finish
<1>2. RunsSound(answers)'
  BY <1>1, StopKeeps DEF Finish
<1>3. Tables(answers)'
  <2>1. CASE Active
    BY <1>1, <2>1, EndKeepsTables DEF Finish, AInv, Tables
  <2>2. CASE ~Active
    BY <1>1, <2>2 DEF Finish, people, AInv, Tables
  <2>3. QED
    BY <2>1, <2>2
<1>4. QED
  BY <1>1, <1>2, <1>3 DEF AInv, Settings

LEMMA AfterFailureKeeps ==
  ASSUME AInv, NEW r \in Slot, AfterFailure(r)
  PROVE  AInv'
<1>1. /\ answers' = answers /\ UNCHANGED <<current, asks, tally>>
      /\ runs[r].data \in Known(answers)
  BY RunAtHand DEF AfterFailure
<1>2. RunsSound(answers)'
  BY <1>1, StopKeeps DEF AfterFailure
<1>3. Tables(answers)'
  <2>1. CASE Active
    <3>1. Ended("terminated") /\ store' = Merged(runs[r].data)
      BY <2>1 DEF AfterFailure
    <3>2. QED
      BY <1>1, <3>1, MergedKnown, EndKeepsTables
  <2>2. CASE ~Active
    BY <1>1, <2>2 DEF AfterFailure, people, AInv, Tables
  <2>3. QED
    BY <2>1, <2>2
<1>4. QED
  BY <1>1, <1>2, <1>3 DEF AInv, Settings

LEMMA AfterCCKeeps ==
  ASSUME AInv, NEW r \in Slot, AfterCC(r)
  PROVE  AInv'
<1>1. /\ answers' = answers /\ UNCHANGED <<first, fallback, rows, store, current, asks, tally>>
      /\ runs[r].step # "idle" /\ runs[r].node # "end"
  BY DEF AfterCC, people, Observed
<1>2. RunsSound(answers)'
  BY <1>1, StopKeeps, PassOnKeeps DEF AfterCC
<1>3. QED
  BY <1>1, <1>2 DEF AInv, Tables, Settings

-----------------------------------------------------------------------------
(* review.                                                                 *)

LEMMA RejectKeeps ==
  ASSUME AInv, NEW r \in Slot, NEW data \in Known(answers), HandleReject(r, data),
         answers' = answers, UNCHANGED <<store, asks, tally>>
  PROVE  AInv'
<1>1. RunsSound(answers)'
  BY StopKeeps DEF HandleReject
<1>2. current' \in Place \cup {"first"}
  BY DEF HandleReject, AInv, Settings
<1>3. Tables(answers)'
  <2>1. CASE Active /\ flow.reject = "terminate"
    <3>1. Ended("terminated") /\ store' \in Known(answers)
      BY <2>1 DEF HandleReject, AInv, Tables
    <3>2. QED
      BY <3>1, EndKeepsTables
  <2>2. CASE ~(Active /\ flow.reject = "terminate")
    <3>1. [state |-> "open", data |-> data] \in Todo(answers)
      BY DEF Todo
    <3>2. QED
      BY <2>2, <3>1 DEF HandleReject, people, AInv, Tables
  <2>3. QED
    BY <2>1, <2>2
<1>4. QED
  BY <1>1, <1>2, <1>3 DEF AInv, Settings

LEMMA FallbackKeeps ==
  ASSUME AInv, NEW r \in Slot, NEW data \in Known(answers), Fallback(r, data),
         answers' = answers, UNCHANGED <<store, asks>>,
         tally'.forms = tally.forms, DOMAIN tally' = DOMAIN tally
  PROVE  AInv'
<1>1. RunsSound(answers)'
  BY StopKeeps DEF Fallback
<1>2. [state |-> "open", data |-> data] \in Todo(answers)
  BY DEF Todo
<1>3. fallback' \in [Handler -> Todo(answers)]
  BY <1>2 DEF Fallback, AInv, Tables
<1>4. Tables(answers)'
  BY <1>3 DEF Fallback, AInv, Tables
<1>5. QED
  BY <1>1, <1>4 DEF Fallback, AInv, Settings

LEMMA PassedKeeps ==
  ASSUME AInv, NEW r \in Slot, runs[r].step # "idle", NEW data \in Known(answers),
         NEW verdict \in Word,
         verdict = "PASS" => /\ data.ai # 0
                             /\ answers[data.ai].said = "PASS"
                             /\ answers[data.ai].to.data.form = data.form,
         Passed(r, data, verdict), answers' = answers, UNCHANGED <<store, asks, tally>>
  PROVE  AInv'
<1>1. PICK run : run = runs[r]
  OBVIOUS
<1>2. run \in Run(answers) /\ run.node \in Place
  BY <1>1, RunAtHand
<1>3. PICK next : next = [run EXCEPT !.step = "after", !.data = data, !.verdict = verdict]
  OBVIOUS
<1>4. runs' = [runs EXCEPT ![r] = next]
  BY <1>1, <1>3, Zenon DEF Passed, Going
<1>5. "after" \in Step
  BY DEF Step
<1>6. /\ next \in Run(answers) /\ next.node = run.node /\ next.step = "after"
      /\ next.data = data /\ next.verdict = verdict
  BY <1>2, <1>3, <1>5 DEF Run
<1>7. Sound(next, answers)
  BY <1>2, <1>6 DEF Sound, Judged, Consented
<1>8. RunsSound(answers)'
  BY <1>4, <1>7, OneRun DEF AInv
<1>9. QED
  BY <1>8 DEF Passed, people, AInv, Tables, Settings

(* The run goes on to ask, to judge or to fail.                            *)
LEMMA TurnsKeeps ==
  ASSUME AInv, NEW r \in Slot, runs[r].step # "idle", NEW step \in Step,
         NEW answer \in 0 .. Len(answers),
         step \in {"save", "judge"} =>
           answer # 0 /\ answers[answer].to.data = runs[r].data,
         runs' = [runs EXCEPT ![r] = [runs[r] EXCEPT !.step = step, !.answer = answer]],
         answers' = answers
  PROVE  RunsSound(answers)'
<1>1. PICK run : run = runs[r]
  OBVIOUS
<1>2. Sound(run, answers) /\ run \in Run(answers) /\ run.node \in Place
  BY <1>1, RunAtHand
<1>3. PICK next : next = [run EXCEPT !.step = step, !.answer = answer]
  OBVIOUS
<1>4. runs' = [runs EXCEPT ![r] = next]
  BY <1>1, <1>3, Zenon
<1>5. /\ next \in Run(answers) /\ next.node = run.node /\ next.step = step
      /\ next.data = run.data /\ next.verdict = run.verdict /\ next.answer = answer
  BY <1>2, <1>3 DEF Run
<1>6. Sound(next, answers)
  BY <1>1, <1>2, <1>5 DEF Sound, Judged, Consented
<1>7. QED
  BY <1>4, <1>6, OneRun DEF AInv

LEMMA LookKeeps ==
  ASSUME AInv, NEW r \in Slot, Look(r)
  PROVE  AInv'
<1>1. /\ answers' = answers /\ UNCHANGED <<store, asks, tally>>
      /\ runs[r].step = "look" /\ runs[r].data \in Known(answers)
  BY RunAtHand DEF Look, At
<1>2. CASE Stop(r) /\ UNCHANGED <<status, current, people, rows>>
  BY <1>1, <1>2, StopKeeps DEF people, AInv, Tables, Settings
<1>3. CASE HandleReject(r, runs[r].data)
  BY <1>1, <1>3, RejectKeeps
<1>4. CASE Passed(r, runs[r].data, "HUMAN_PASS")
  <2>1. "HUMAN_PASS" \in Word /\ "HUMAN_PASS" # "PASS"
    BY DEF Word
  <2>2. QED
    BY <1>1, <1>4, <2>1, PassedKeeps
<1>5. CASE /\ Going(r, IF Reusable(runs[r])
                         THEN [runs[r] EXCEPT !.step = "judge", !.answer = store.out]
                         ELSE [runs[r] EXCEPT !.step = "ask"])
           /\ UNCHANGED <<status, current, people, rows>>
  <2>1. RunsSound(answers)'
    <3>1. CASE Reusable(runs[r])
      <4>1. store.out \in 0 .. Len(answers) /\ "judge" \in Step
        BY DEF AInv, Tables, Known, Step
      <4>2. store.out # 0 /\ answers[store.out].to.data = runs[r].data
        BY <3>1 DEF Reusable, Payload
      <4>3. runs' = [runs EXCEPT ![r] = [runs[r] EXCEPT !.step = "judge", !.answer = store.out]]
        BY <1>5, <3>1 DEF Going
      <4>4. QED
        BY <1>1, <4>1, <4>2, <4>3, TurnsKeeps
    <3>2. CASE ~Reusable(runs[r])
      <4>1. Goto(r, "ask") /\ "ask" \in Step
        BY <1>5, <3>2 DEF Goto, Going, Step
      <4>2. QED
        BY <1>1, <4>1, GotoKeeps
    <3>3. QED
      BY <3>1, <3>2
  <2>2. QED
    BY <1>1, <1>5, <2>1 DEF people, AInv, Tables, Settings
<1>6. QED
  BY <1>2, <1>3, <1>4, <1>5 DEF Look

LEMMA NoAnswerKeeps ==
  ASSUME AInv, NEW r \in Slot, NoAnswer(r)
  PROVE  AInv'
<1>1. /\ answers' = answers /\ UNCHANGED <<store, asks>>
      /\ runs[r].step = "ask" /\ runs[r].data \in Known(answers)
  BY RunAtHand DEF NoAnswer, At
<1>2. tally'.forms = tally.forms /\ DOMAIN tally' = DOMAIN tally
  BY DEF NoAnswer, CountCall, AInv, Settings
<1>3. CASE Fallback(r, runs[r].data)
  BY <1>1, <1>2, <1>3, FallbackKeeps
<1>4. CASE Goto(r, "failed") /\ UNCHANGED <<status, current, people, rows>>
  <2>1. "failed" \in Step
    BY DEF Step
  <2>2. RunsSound(answers)'
    BY <1>1, <1>4, <2>1, GotoKeeps
  <2>3. QED
    BY <1>1, <1>2, <1>4, <2>2 DEF people, AInv, Tables, Settings
<1>5. QED
  BY <1>3, <1>4 DEF NoAnswer

LEMMA SaveKeeps ==
  ASSUME AInv, NEW r \in Slot, Save(r)
  PROVE  AInv'
<1>1. /\ answers' = answers /\ UNCHANGED <<current, first, fallback, rows, asks, tally>>
      /\ runs[r].step = "save" /\ runs[r].answer \in 0 .. Len(answers)
  BY RunAtHand DEF Save, At, people, Run
<1>2. RunsSound(answers)'
  <2>1. "judge" \in Step
    BY DEF Step
  <2>2. QED
    BY <1>1, <2>1, GotoKeeps DEF Save
<1>3. store' \in Known(answers)
  BY <1>1 DEF Save, Saved, AInv, Tables, Known
<1>4. QED
  BY <1>1, <1>2, <1>3 DEF AInv, Tables, Settings

(* An answer that is judged to consent was given to the run's data, and    *)
(* the data it is merged into is still that of the submission.             *)
LEMMA JudgeKeeps ==
  ASSUME AInv, NEW r \in Slot, Judge(r)
  PROVE  AInv'
<1>1. PICK run, data : run = runs[r] /\ data = MergeOutput(run)
  OBVIOUS
<1>2. /\ answers' = answers /\ UNCHANGED <<store, asks, tally>>
      /\ run.step = "judge" /\ run.data \in Known(answers) /\ run.answer \in 0 .. Len(answers)
      /\ run.answer # 0 /\ answers[run.answer].to.data = run.data
  BY <1>1, RunAtHand DEF Judge, At, Sound, Judged, Run
<1>3. data \in Known(answers) /\ data.ai = run.answer /\ data.form = run.data.form
  BY <1>1, <1>2 DEF MergeOutput, Known
<1>4. CASE answers[run.answer].said = "PASS" /\ Passed(r, data, "PASS")
  <2>1. "PASS" \in Word
    BY DEF Word
  <2>2. QED
    BY <1>1, <1>2, <1>3, <1>4, <2>1, PassedKeeps
<1>5. CASE HandleReject(r, data)
  BY <1>2, <1>3, <1>5, RejectKeeps
<1>6. CASE HandleUnresolved(r, data)
  <2>1. CASE Fallback(r, data)
    BY <1>2, <1>3, <2>1, FallbackKeeps
  <2>2. CASE Passed(r, data, "UNRESOLVED")
    <3>1. "UNRESOLVED" \in Word /\ "UNRESOLVED" # "PASS"
      BY DEF Word
    <3>2. QED
      BY <1>1, <1>2, <1>3, <2>2, <3>1, PassedKeeps
  <2>3. CASE HandleReject(r, data)
    BY <1>2, <1>3, <2>3, RejectKeeps
  <2>4. QED
    BY <1>6, <2>1, <2>2, <2>3 DEF HandleUnresolved
<1>7. QED
  BY <1>1, <1>4, <1>5, <1>6 DEF Judge

(* The answer is new: nothing refers to it but the run that asked.         *)
LEMMA AnsweredKeeps ==
  ASSUME AInv, NEW r \in Slot, NEW output \in Outputs, Answered(r, output)
  PROVE  AInv'
<1>1. PICK run : run = runs[r]
  OBVIOUS
<1>2. /\ UNCHANGED <<current, first, fallback, rows, store, asks>>
      /\ run.step = "ask" /\ Sound(run, answers) /\ run \in Run(answers)
      /\ run.data \in Known(answers) /\ run.by \in Origin
  BY <1>1, RunAtHand DEF Answered, At, people, Run
<1>3. PICK more : more = [to |-> Payload(run), said |-> ExtractDecision(output)]
  OBVIOUS
<1>4. answers' = Append(answers, more)
  BY <1>1, <1>3 DEF Answered
<1>5. more \in Answer /\ more.to.data = run.data
  <2>1. run.data \in [form : Nat, ai : Nat, out : Nat]
    BY <1>2 DEF Known
  <2>2. (IF flow.info THEN run.by ELSE "nobody") \in Origin
    BY <1>2 DEF Origin
  <2>3. Payload(run) \in [data : [form : Nat, ai : Nat, out : Nat], by : Origin]
    BY <2>1, <2>2 DEF Payload
  <2>4. QED
    BY <1>3, <2>3 DEF Answer, Payload
<1>6. PICK given : given = answers'
  OBVIOUS
<1>7. /\ answers \in Seq(Answer) /\ given \in Seq(Answer)
      /\ Len(given) = Len(answers) + 1 /\ given[Len(given)] = more /\ Len(answers) \in Nat
  BY <1>4, <1>5, <1>6 DEF AInv
<1>8. /\ Known(answers) \subseteq Known(given) /\ Row(answers) \subseteq Row(given)
      /\ Todo(answers) \subseteq Todo(given) /\ Run(answers) \subseteq Run(given)
  BY <1>2, <1>4, <1>5, <1>6, <1>7, StaysKnown
<1>9. \A q \in Slot : Sound(runs[q], given)
  BY <1>4, <1>5, <1>6, <1>7, StaysKnown DEF AInv, RunsSound
<1>10. PICK next : next = [run EXCEPT !.step = "save", !.answer = Len(given)]
  OBVIOUS
<1>11. runs' = [runs EXCEPT ![r] = next]
  BY <1>1, <1>6, <1>10 DEF Answered, Going
<1>12. /\ next \in Run(given) /\ next.node = run.node /\ next.step = "save"
       /\ next.data = run.data /\ next.verdict = run.verdict /\ next.answer = Len(given)
  <2>1. run \in Run(given) /\ "save" \in Step /\ Len(given) \in 0 .. Len(given)
    BY <1>2, <1>7, <1>8 DEF Step
  <2>2. QED
    BY <1>10, <2>1 DEF Run
<1>13. Sound(next, given)
  <2>1. Sound(run, given)
    BY <1>1, <1>9
  <2>2. Judged(next, given)
    BY <1>5, <1>7, <1>12 DEF Judged
  <2>3. QED
    BY <1>2, <1>12, <2>1, <2>2 DEF Sound, Consented
<1>14. RunsSound(answers)'
  <2>1. runs \in [Slot -> Run(given)] /\ next \in Run(given)
    BY <1>8, <1>12 DEF AInv, RunsSound
  <2>2. runs' \in [Slot -> Run(given)]
    BY <1>11, <2>1
  <2>3. \A q \in Slot : Sound(runs'[q], given)
    BY <1>9, <1>11, <1>13, <2>1
  <2>4. QED
    BY <1>6, <2>2, <2>3 DEF RunsSound
<1>15. Tables(answers)'
  BY <1>2, <1>6, <1>8 DEF AInv, Tables
<1>16. Settings'
  BY <1>2 DEF Answered, CountCall, AInv, Settings
<1>17. QED
  BY <1>6, <1>7, <1>14, <1>15, <1>16 DEF AInv

-----------------------------------------------------------------------------
(* call and wait.                                                          *)

LEMMA ActedKeeps ==
  ASSUME AInv, NEW r \in Slot, NEW effect, NEW step \in {"after", "failed"},
         Acted(r, effect, step)
  PROVE  AInv'
<1>1. /\ answers' = answers /\ UNCHANGED <<current, first, fallback, rows, store, asks>>
      /\ runs[r].step = "act" /\ step \in Step
  BY DEF Acted, At, people, Step
<1>2. RunsSound(answers)'
  BY <1>1, GotoKeeps DEF Acted
<1>3. Settings'
  BY <1>1 DEF Acted, AInv, Settings
<1>4. QED
  BY <1>1, <1>2, <1>3 DEF AInv, Tables

LEMMA CallKeeps ==
  ASSUME AInv, NEW r \in Slot, Call(r)
  PROVE  AInv'
<1>1. CASE HttpCall(r)
  <2>1. PICK fate \in HttpFate : Acted(r, HttpSent(fate), HttpTells(fate))
    BY <1>1 DEF HttpCall
  <2>2. HttpTells(fate) \in {"after", "failed"}
    BY DEF HttpTells
  <2>3. QED
    BY <2>1, <2>2, ActedKeeps
<1>2. CASE StartProcess(r)
  <2>1. PICK fate \in StartFate : Acted(r, fate = "ok", StartTells(fate))
    BY <1>2 DEF StartProcess
  <2>2. StartTells(fate) \in {"after", "failed"}
    BY DEF StartTells
  <2>3. QED
    BY <2>1, <2>2, ActedKeeps
<1>3. CASE CCTask(r)
  <2>1. CCTells \in {"after", "failed"}
    BY DEF CCTells
  <2>2. QED
    BY <1>3, <2>1, ActedKeeps DEF CCTask
<1>4. QED
  BY <1>1, <1>2, <1>3 DEF Call

LEMMA FireKeeps ==
  ASSUME AInv, NEW r \in Slot, Fire(r)
  PROVE  AInv'
<1>1. /\ answers' = answers /\ UNCHANGED <<current, first, fallback, rows, store, asks, tally>>
      /\ runs[r].step = "parked" /\ "after" \in Step
  BY DEF Fire, At, people, Step
<1>2. RunsSound(answers)'
  BY <1>1, GotoKeeps DEF Fire
<1>3. QED
  BY <1>1, <1>2 DEF AInv, Tables, Settings

-----------------------------------------------------------------------------
(* People, and the drives their answers ask for.                           *)

LEMMA SubmitKeeps ==
  ASSUME AInv, Submit
  PROVE  AInv'
<1>1. /\ answers' = answers /\ UNCHANGED <<current, fallback, rows, store, runs>>
  BY DEF Submit
<1>2. tally'.forms \in Nat /\ DOMAIN tally' = DOMAIN tally
  BY DEF Submit, AInv, Settings
<1>3. first.data \in Known(answers)
  BY DEF AInv, Tables, Todo
<1>4. PICK forms \in Nat : forms = tally'.forms
  BY <1>2
<1>5. [first.data EXCEPT !.form = forms] \in Known(answers)
  BY <1>3 DEF Known
<1>6. first' = [state |-> "answered", data |-> [first.data EXCEPT !.form = forms]]
  BY <1>4 DEF Submit
<1>7. first' \in Todo(answers)
  BY <1>5, <1>6 DEF Todo
<1>8. Settings'
  BY <1>1, <1>2 DEF Submit, AInv, Settings
<1>9. QED
  BY <1>1, <1>7, <1>8 DEF AInv, Tables, RunsSound

LEMMA DecideKeeps ==
  ASSUME AInv, NEW h \in Handler, NEW verdict \in {"approved", "rejected"}, Decide(h, verdict)
  PROVE  AInv'
<1>1. /\ answers' = answers /\ UNCHANGED <<current, first, rows, store, runs>>
  BY DEF Decide
<1>2. PICK todo : todo = [fallback[h] EXCEPT !.state = verdict]
  OBVIOUS
<1>3. todo \in Todo(answers)
  BY <1>2 DEF AInv, Tables, Todo
<1>4. fallback' = [fallback EXCEPT ![h] = todo]
  BY <1>2 DEF Decide
<1>5. fallback' \in [Handler -> Todo(answers)]
  BY <1>3, <1>4 DEF AInv, Tables
<1>6. Settings'
  BY <1>1 DEF Decide, AInv, Settings
<1>7. QED
  BY <1>1, <1>5, <1>6 DEF AInv, Tables, RunsSound

(* A message is set on its way in a slot of its own.                       *)
LEMMA LaunchKeeps ==
  ASSUME AInv, HasFree, NEW next, Sound(next, answers), runs' = Launched(next), answers' = answers
  PROVE  RunsSound(answers)'
<1>1. FreeSlot \in RowId
  BY DEF HasFree, FreeSlot
<1>2. QED
  BY <1>1, OneRun DEF Launched, Slot, AInv

LEMMA MessageRuns ==
  ASSUME AInv, NEW node \in Place, NEW data \in Known(answers), NEW by \in Origin
  PROVE  /\ Message(node, data, by) \in Run(answers)
         /\ Message(node, data, by).node = node
         /\ Message(node, data, by).step = "in"
         /\ Message(node, data, by).verdict = "none"
<1>1. PICK idle : idle = NoRun
  OBVIOUS
<1>2. idle \in Run(answers) /\ idle.verdict = "none" /\ "in" \in Step
  <2>1. Sound(NoRun, answers)
    BY NothingKnown DEF AInv
  <2>2. idle \in Run(answers)
    BY <1>1, <2>1 DEF Sound
  <2>3. idle.verdict = "none"
    BY <1>1 DEF NoRun
  <2>4. QED
    BY <2>2, <2>3 DEF Step
<1>3. PICK next : next = [idle EXCEPT !.node = node, !.step = "in", !.data = data,
                                      !.by = by, !.gate = TRUE]
  OBVIOUS
<1>4. next \in Run(answers) /\ next.node = node /\ next.step = "in" /\ next.verdict = "none"
  BY <1>2, <1>3 DEF Run
<1>5. Message(node, data, by) = next
  BY <1>1, <1>3 DEF Message
<1>6. QED
  BY <1>4, <1>5

LEMMA MessageSound ==
  ASSUME AInv, NEW node \in Place, NEW data \in Known(answers), NEW by \in Origin
  PROVE  Sound(Message(node, data, by), answers)
BY MessageRuns, SetOut

LEMMA ExecuteNextKeeps ==
  ASSUME AInv, NEW a \in asks, ExecuteNext(a)
  PROVE  AInv'
<1>1. /\ answers' = answers /\ UNCHANGED <<current, first, fallback, rows, store, tally>>
      /\ asks' = asks \ {a} /\ a \in {"first"} \cup Handler
  BY DEF ExecuteNext, people, AInv, Settings
<1>2. CASE runs' = runs
  BY <1>1, <1>2 DEF AInv, Tables, Settings, RunsSound
<1>3. CASE Active
  <2>1. PICK data : data = IF a = "first" THEN first.data ELSE fallback[a].data
    OBVIOUS
  <2>2. data \in Known(answers)
    BY <1>1, <2>1 DEF AInv, Tables, Todo
  <2>3. HasFree /\ runs' = Launched(Message("review", data, a))
    BY <1>3, <2>1 DEF ExecuteNext
  <2>4. Sound(Message("review", data, a), answers)
    BY <1>1, <2>2, MessageSound DEF Place, Origin
  <2>5. RunsSound(answers)'
    BY <1>1, <2>3, <2>4, LaunchKeeps
  <2>6. QED
    BY <1>1, <2>5 DEF AInv, Tables, Settings
<1>4. QED
  BY <1>2, <1>3 DEF ExecuteNext

LEMMA TerminateKeeps ==
  ASSUME AInv, Terminate
  PROVE  AInv'
<1>1. /\ answers' = answers /\ UNCHANGED <<current, store, runs, asks, tally>> /\ Ended("terminated")
  BY DEF Terminate
<1>2. Tables(answers)'
  BY <1>1, EndKeepsTables DEF AInv, Tables
<1>3. QED
  BY <1>1, <1>2 DEF AInv, Settings, RunsSound

-----------------------------------------------------------------------------
(* Crash and recovery.                                                     *)

LEMMA CrashKeeps ==
  ASSUME AInv, Crash
  PROVE  AInv'
<1>1. /\ answers' = answers /\ UNCHANGED <<current, first, fallback, rows, store>>
  BY DEF Crash, people
<1>2. Sound(NoRun, answers)
  BY NothingKnown DEF AInv
<1>3. RunsSound(answers)'
  BY <1>1, <1>2 DEF Crash, RunsSound, Sound
<1>4. Settings'
  BY <1>1 DEF Crash, AInv, Settings
<1>5. QED
  BY <1>1, <1>3, <1>4 DEF AInv, Tables

LEMMA RestoredSound ==
  ASSUME AInv, NEW node \in Place, NEW data \in Known(answers), NEW x \in RowId \cup {0}
  PROVE  /\ Sound(Restored(node, data, x), answers)
         /\ Sound([Restored(node, data, x) EXCEPT !.step = "look"], answers)
         /\ Sound([Restored(node, data, x) EXCEPT !.due = TRUE], answers)
<1>1. PICK fresh, by : fresh = Message(node, data, by) /\ by = "restart" /\ by \in Origin
  BY DEF Origin
<1>2. /\ fresh \in Run(answers) /\ fresh.node = node /\ fresh.step = "in"
      /\ fresh.verdict = "none"
  BY <1>1, MessageRuns
<1>3. PICK run : run = [fresh EXCEPT !.task = x]
  OBVIOUS
<1>4. run \in Run(answers) /\ run.node = node /\ run.step = "in" /\ run.verdict = "none"
  BY <1>2, <1>3 DEF Run
<1>5. Restored(node, data, x) = run
  BY <1>1, <1>3 DEF Restored
<1>6. Sound(run, answers)
  BY <1>4, SetOut
<1>7. Sound([run EXCEPT !.step = "look"], answers)
  <2>1. PICK next : next = [run EXCEPT !.step = "look"]
    OBVIOUS
  <2>2. next \in Run(answers) /\ next.node = node /\ next.step = "look" /\ next.verdict = "none"
    BY <1>4, <2>1 DEF Run, Step
  <2>3. QED
    BY <2>1, <2>2, SetOut
<1>8. Sound([run EXCEPT !.due = TRUE], answers)
  <2>1. PICK next : next = [run EXCEPT !.due = TRUE]
    OBVIOUS
  <2>2. next \in Run(answers) /\ next.node = node /\ next.step = "in" /\ next.verdict = "none"
    BY <1>4, <2>1 DEF Run
  <2>3. QED
    BY <2>1, <2>2, SetOut
<1>9. QED
  BY <1>5, <1>6, <1>7, <1>8

LEMMA PendingRow ==
  ASSUME AInv, NEW x \in RowId, Pending(x)
  PROVE  rows[x].node \in Place /\ rows[x].data \in Known(answers)
BY DEF AInv, Tables, Row, Pending

LEMMA RestoreKeeps ==
  ASSUME AInv, Restore
  PROVE  AInv'
<1>1. /\ answers' = answers /\ UNCHANGED <<first, fallback, rows, store, asks>>
      /\ current' \in Place \cup {"first"}
  BY DEF Restore, people, AInv, Settings, Place
<1>2. tally'.forms = tally.forms /\ DOMAIN tally' = DOMAIN tally
  BY DEF Restore, AInv, Settings
<1>3. CASE runs' = runs
  BY <1>1, <1>2, <1>3 DEF AInv, Tables, Settings, RunsSound
<1>4. CASE Active
  <2> DEFINE next(r) ==
        IF r \in Handler
          THEN IF OpenTodo(r) THEN [Restored("review", fallback[r].data, 0) EXCEPT !.step = "look"]
                              ELSE runs[r]
          ELSE IF r \in Resumed THEN Restored(rows[r].node, rows[r].data, r) ELSE runs[r]
  <2>1. runs' = [r \in Slot |-> next(r)]
    BY <1>4 DEF Restore
  <2>2. ASSUME NEW r \in Slot
        PROVE  Sound(next(r), answers)
    <3>1. Sound(runs[r], answers)
      BY RunAtHand
    <3>2. CASE r \in Handler
      <4>1. fallback[r].data \in Known(answers) /\ "review" \in Place
        BY <3>2 DEF AInv, Tables, Todo, Place
      <4>2. Sound([Restored("review", fallback[r].data, 0) EXCEPT !.step = "look"], answers)
        BY <4>1, RestoredSound
      <4>3. QED
        BY <3>1, <3>2, <4>2
    <3>3. CASE r \notin Handler
      <4>1. r \in RowId
        BY <3>3 DEF Slot
      <4>2. r \in Resumed => Sound(Restored(rows[r].node, rows[r].data, r), answers)
        BY <4>1, PendingRow, RestoredSound DEF Resumed
      <4>3. QED
        BY <3>1, <3>3, <4>2
    <3>4. QED
      BY <3>2, <3>3
  <2> HIDE DEF next
  <2>3. \A r \in Slot : next(r) \in Run(answers)
    BY <2>2 DEF Sound
  <2>4. RunsSound(answers)'
    BY <1>1, <2>1, <2>2, <2>3 DEF RunsSound
  <2>5. QED
    BY <1>1, <1>2, <2>4 DEF AInv, Tables, Settings
<1>5. QED
  BY <1>3, <1>4 DEF Restore

LEMMA ReDriveKeeps ==
  ASSUME AInv, ReDrive
  PROVE  AInv'
<1>1. /\ answers' = answers /\ UNCHANGED <<current, first, fallback, rows, store, asks>>
      /\ HasFree /\ runs' = Launched(Message(Redrives, store, "patrol"))
  BY DEF ReDrive, people
<1>2. Redrives \in Place /\ store \in Known(answers)
  BY DEF Redrives, AInv, Settings, Tables, Place
<1>3. RunsSound(answers)'
  <2>1. "patrol" \in Origin
    BY DEF Origin
  <2>2. QED
    BY <1>1, <1>2, <2>1, MessageSound, LaunchKeeps
<1>4. Settings'
  BY <1>1 DEF ReDrive, AInv, Settings
<1>5. QED
  BY <1>1, <1>3, <1>4 DEF AInv, Tables

LEMMA RescueKeeps ==
  ASSUME AInv, NEW x \in RowId, Rescue(x)
  PROVE  AInv'
<1>1. /\ answers' = answers /\ UNCHANGED <<current, first, fallback, rows, store, asks, tally>>
      /\ HasFree /\ runs' = Launched([Restored("wait", rows[x].data, x) EXCEPT !.due = TRUE])
  BY DEF Rescue, people
<1>2. rows[x].data \in Known(answers) /\ "wait" \in Place
  <2>1. Pending(x)
    BY DEF Rescue, Pending, NoRow
  <2>2. QED
    BY <2>1, PendingRow DEF Place
<1>3. Sound([Restored("wait", rows[x].data, x) EXCEPT !.due = TRUE], answers)
  BY <1>2, RestoredSound
<1>4. RunsSound(answers)'
  BY <1>1, <1>3, LaunchKeeps
<1>5. QED
  BY <1>1, <1>4 DEF AInv, Tables, Settings

-----------------------------------------------------------------------------
LEMMA InitAInv == Init => AInv
<1> SUFFICES ASSUME Init PROVE AInv
  OBVIOUS
<1>1. answers = <<>> /\ answers \in Seq(Answer)
  BY DEF Init
<1>2. NoData \in Known(answers) /\ NoRow \in Row(answers) /\ NoTodo \in Todo(answers)
      /\ Sound(NoRun, answers)
  BY <1>1, NothingKnown
<1>3. [state |-> "open", data |-> NoData] \in Todo(answers)
  BY <1>2 DEF Todo
<1>4. Tables(answers)
  BY <1>2, <1>3 DEF Init, Tables
<1>5. RunsSound(answers)
  BY <1>2 DEF Init, RunsSound, Sound
<1>6. Settings
  BY DEF Init, Settings
<1>7. QED
  BY <1>1, <1>4, <1>5, <1>6 DEF AInv

LEMMA NextAInv == AInv /\ [Next]_vars => AInv'
<1> SUFFICES ASSUME AInv, [Next]_vars PROVE AInv'
  OBVIOUS
<1>1. CASE \E r \in Slot : RunStep(r)
  <2>1. PICK r \in Slot : RunStep(r)
    BY <1>1
  <2>2. CASE Review(r)
    BY <2>2, LookKeeps, NoAnswerKeeps, SaveKeeps, JudgeKeeps, AnsweredKeeps DEF Review
  <2>3. CASE Aspect(r) \/ Call(r) \/ Fire(r)
    BY <2>3, BeforeKeeps, SuppressedKeeps, AfterKeeps, FinishKeeps, AfterFailureKeeps, AfterCCKeeps,
       CallKeeps, FireKeeps DEF Aspect
  <2>4. QED
    BY <2>1, <2>2, <2>3 DEF RunStep
<1>2. CASE Submit \/ Terminate \/ Crash \/ Restore \/ ReDrive
  BY <1>2, SubmitKeeps, TerminateKeeps, CrashKeeps, RestoreKeeps, ReDriveKeeps
<1>3. CASE \E h \in Handler : \E verdict \in {"approved", "rejected"} : Decide(h, verdict)
  BY <1>3, DecideKeeps
<1>4. CASE \E a \in asks : ExecuteNext(a)
  BY <1>4, ExecuteNextKeeps
<1>5. CASE \E x \in RowId : Rescue(x)
  BY <1>5, RescueKeeps
<1>6. CASE Expire \/ UNCHANGED vars
  BY <1>6 DEF Expire, people, vars, AInv, Tables, Settings, RunsSound
<1>7. QED
  BY <1>1, <1>2, <1>3, <1>4, <1>5, <1>6 DEF Next

LEMMA AInvFits == AInv => AnswerFits
<1> SUFFICES ASSUME AInv, NEW r \in Slot
             PROVE  /\ runs[r].step = "judge"
                         => answers[runs[r].answer].to.data.form = runs[r].data.form
                    /\ runs[r].verdict = "PASS"
                         => /\ runs[r].data.ai # 0
                            /\ answers[runs[r].data.ai].said = "PASS"
                            /\ answers[runs[r].data.ai].to.data.form = runs[r].data.form
  BY DEF AnswerFits
<1>1. Judged(runs[r], answers) /\ Consented(runs[r], answers)
  BY RunAtHand DEF Sound
<1>2. QED
  BY <1>1 DEF Judged, Consented

(* Whatever answers the model gives, however often people resubmit and     *)
(* replicas crash, the answer saved for one submission never decides about *)
(* another, and what goes on with the model's consent was consented to     *)
(* (reuseCachedOutput and MergeAgentOutput of components/ai_agent_node.go).*)
THEOREM ConsentFits == Spec => []AnswerFits
<1>1. Init => AInv
  BY InitAInv
<1>2. AInv /\ [Next]_vars => AInv'
  BY NextAInv
<1>3. AInv => AnswerFits
  BY AInvFits
<1>4. QED
  BY <1>1, <1>2, <1>3, PTL DEF Spec

-----------------------------------------------------------------------------
(* The model is asked, and the call made, no more often than is paid for.  *)
(* A chain is tame when no crash meets two people who answer for one       *)
(* review, or a submission sent back.                                      *)
Tame(f) == f.crashes = 0 \/ (f.reject = "terminate" /\ \A g, h \in f.handlers : g = h)

(* A run that may still make the call; one that may still ask the model,   *)
(* unless somebody was asked instead or it will find the answer saved; a   *)
(* row the next restore will have asked about, at nobody's expense.        *)
NobodyAsked == \A h \in Handler : fallback[h].state \notin {"open", "approved", "rejected"}
Upstream(run) == run.node \in {"review", "call"}
Bound(run) == \/ run.node = "review" /\ run.step # "failed"
              \/ run.node = "call" /\ run.step \in {"in", "act"}
Unaided == flow.crashes > 0 /\ ~flow.info
MayAsk(run) == /\ run.node = "review"
               /\ \/ run.step = "ask"
                  \/ /\ NobodyAsked /\ run.step \in {"in", "look"}
                     /\ ~(Unaided /\ Reusable(run))
Kept(x) == store.out # 0 /\ answers[store.out].to = [data |-> rows[x].data, by |-> "nobody"]
Lost == /\ Unaided /\ NobodyAsked
        /\ \E x \in RowId : rows[x].node = "review" /\ ~Kept(x)
        /\ \A r \in Slot : runs[r].node # "review"
Asking == {r \in Slot : MayAsk(runs[r])}
Calling == {r \in RowId : Bound(runs[r])}
Held == \E h \in Handler : OpenTodo(h) \/ Bound(runs[h])

One(b) == IF b THEN 1 ELSE 0
CallsPaid == tally.calls + One("first" \in asks) + Cardinality(Asking) + One(Lost)
               <= tally.forms + tally.again
EffectsPaid == tally.effects + Cardinality(asks) + Cardinality(Calling) + One(Held)
                 <= tally.asked + tally.forced

(* Until somebody is asked, a chain that can crash has one message: with   *)
(* the starter, or at review with its row, or further on.                  *)
Idle == (\A r \in Slot : runs[r] = NoRun) /\ (\A x \in RowId : rows[x] = NoRow)
WithStarter == /\ first.state = "open" \/ "first" \in asks => Idle
               /\ first.state # "open" \/ "first" \notin asks
OneRow == \A x \in RowId : rows[x].node = "review" =>
            /\ \A y \in RowId : y = x \/ rows[y] = NoRow
            /\ \A r \in Slot : runs[r] = NoRun \/ runs[r].node = "review"
AtWork(run) ==
  /\ \A y \in RowId : rows[y] # NoRow => y = run.task
  /\ run.step # "in" => run.task # 0
  /\ run.task # 0 => rows[run.task].node = "review"
  /\ run.task # 0 /\ run.step # "after" => rows[run.task].data = run.data
  /\ Unaided /\ run.step \in {"judge", "after"} => Kept(run.task)
OneReview == \A r \in Slot : runs[r].node = "review" =>
               /\ \A q \in Slot : q = r \/ runs[q] = NoRun
               /\ AtWork(runs[r])
Alone == NobodyAsked => WithStarter /\ OneRow /\ OneReview

(* Once somebody is asked the model is not; a person who is being asked    *)
(* holds the message.                                                      *)
Handed == ~NobodyAsked => \A r \in Slot : runs[r].node = "review" =>
                            runs[r].step \notin {"ask", "save", "judge"}
Waiting == \A h \in Handler : OpenTodo(h) /\ Upstream(runs[h]) => runs[h].step = "look"
Single == Alone /\ Handed /\ Waiting

Counts == tally \in [calls : Nat, effects : Nat, forms : Nat, asked : Nat, again : Nat,
                     forced : Nat, crashes : Nat]
Bare == ~flow.info => \A k \in DOMAIN answers : answers[k].to.by = "nobody"
ReviewStep == {"in", "look", "ask", "save", "judge", "after", "failed"}
Gates == \A r \in Slot : /\ Upstream(runs[r]) => runs[r].gate
                         /\ runs[r].node = "review" => runs[r].step \in ReviewStep
Unbroken == flow.crashes = 0 => /\ ~restart /\ tally.crashes = 0
                                /\ \A h \in Handler : runs[h] = NoRun
Named == \A h \in Handler : OpenTodo(h) \/ runs[h] # NoRun => h \in flow.handlers
AskedBack == asks \cap Handler # {} => ~NobodyAsked
Broad == flow \in Flows /\ Counts /\ Bare /\ Gates /\ Unbroken
Paid == CallsPaid /\ EffectsPaid /\ Named /\ AskedBack /\ (flow.crashes > 0 => Single)
SInv == Broad /\ (Tame(flow) => IF Active THEN Paid ELSE Sparing)

-----------------------------------------------------------------------------
(* Counting.                                                               *)

LEMMA CountSub ==
  ASSUME NEW S, IsFiniteSet(S), NEW T \in SUBSET S
  PROVE  IsFiniteSet(T) /\ Cardinality(T) \in Nat /\ Cardinality(T) <= Cardinality(S)
         /\ Cardinality(S) \in Nat
BY FS_Subset, FS_CardinalityType

LEMMA CountMore ==
  ASSUME NEW S, IsFiniteSet(S), NEW x, NEW T \in SUBSET (S \cup {x})
  PROVE  IsFiniteSet(T) /\ Cardinality(T) \in Nat /\ Cardinality(T) <= Cardinality(S) + 1
<1>1. IsFiniteSet(S \cup {x}) /\ Cardinality(S \cup {x}) <= Cardinality(S) + 1
      /\ Cardinality(S) \in Nat
  BY FS_AddElement, FS_CardinalityType
<1>2. IsFiniteSet(T) /\ Cardinality(T) \in Nat /\ Cardinality(T) <= Cardinality(S \cup {x})
      /\ Cardinality(S \cup {x}) \in Nat
  BY <1>1, CountSub
<1>3. QED
  BY <1>1, <1>2

LEMMA CountLess ==
  ASSUME NEW S, IsFiniteSet(S), NEW x \in S, NEW T \in SUBSET S, x \notin T
  PROVE  Cardinality(T) \in Nat /\ Cardinality(T) + 1 <= Cardinality(S)
<1>1. IsFiniteSet(S \ {x}) /\ Cardinality(S \ {x}) = Cardinality(S) - 1 /\ Cardinality(S) \in Nat
  BY FS_RemoveElement, FS_CardinalityType
<1>2. T \in SUBSET (S \ {x})
  OBVIOUS
<1>3. Cardinality(T) \in Nat /\ Cardinality(T) <= Cardinality(S \ {x})
  BY <1>1, <1>2, CountSub
<1>4. QED
  BY <1>1, <1>3

LEMMA SlotsFinite ==
  /\ IsFiniteSet(Slot) /\ IsFiniteSet(RowId) /\ IsFiniteSet({"first"} \cup Handler)
  /\ RowId \subseteq Slot /\ Handler \subseteq Slot /\ RowId \cap Handler = {} /\ 0 \notin RowId
<1>1. IsFiniteSet({"first"})
  BY FS_Singleton
<1>2. QED
  BY <1>1, SizeAssumption, RowAssumption, FS_Union DEF Slot

LEMMA SetsFinite ==
  ASSUME AInv
  PROVE  /\ IsFiniteSet(asks) /\ Cardinality(asks) \in Nat
         /\ IsFiniteSet(Asking) /\ Cardinality(Asking) \in Nat /\ Asking \in SUBSET Slot
         /\ IsFiniteSet(Calling) /\ Cardinality(Calling) \in Nat /\ Calling \in SUBSET RowId
         /\ \A r \in Slot : r \in Asking <=> MayAsk(runs[r])
         /\ \A r \in RowId : r \in Calling <=> Bound(runs[r])
<1>1. asks \in SUBSET ({"first"} \cup Handler)
  BY DEF AInv, Settings
<1>2. Asking \in SUBSET Slot /\ Calling \in SUBSET RowId
  BY DEF Asking, Calling
<1>3. QED
  BY <1>1, <1>2, SlotsFinite, CountSub DEF Asking, Calling

LEMMA OneNat == \A b \in BOOLEAN : One(b) \in {0, 1} /\ (b => One(b) = 1) /\ (~b => One(b) = 0)
BY DEF One

LEMMA NotIdle ==
  /\ NoRun.step = "idle" /\ NoRun.node = "none" /\ ~Upstream(NoRun) /\ ~Bound(NoRun) /\ ~MayAsk(NoRun)
  /\ NoRow.node = "none" /\ NoTodo.state = "none"
BY DEF NoRun, NoRow, NoTodo, Upstream, Bound, MayAsk

LEMMA FlowFacts ==
  ASSUME flow \in Flows
  PROVE  /\ flow.reject \in {"terminate", "toStarter"} /\ flow.handlers \subseteq Handler
         /\ flow.info \in BOOLEAN /\ flow.crashes \in Nat
         /\ flow.call \in {"httpCall", "startProcess", "ccTask"}
BY FlowAssumption, BoundAssumption DEF IsFlow

LEMMA TallyFacts ==
  ASSUME Counts
  PROVE  /\ tally.calls \in Nat /\ tally.effects \in Nat /\ tally.forms \in Nat
         /\ tally.asked \in Nat /\ tally.again \in Nat /\ tally.forced \in Nat
         /\ tally.crashes \in Nat
BY DEF Counts

(* What is paid for covers what was done.                                  *)
LEMMA PaidSpares ==
  ASSUME AInv, Counts, CallsPaid, EffectsPaid
  PROVE  Sparing
<1>1. One("first" \in asks) \in Nat /\ One(Lost) \in Nat /\ One(Held) \in Nat
  BY DEF One
<1>2. QED
  BY <1>1, SetsFinite, TallyFacts DEF CallsPaid, EffectsPaid, Sparing

(* Nothing is asked or called that was not to be.                          *)
LEMMA CallsKept ==
  ASSUME AInv, AInv', Counts, Counts', CallsPaid,
         tally'.calls = tally.calls, tally'.forms >= tally.forms, tally'.again >= tally.again,
         "first" \in asks' => "first" \in asks, Asking' \subseteq Asking, Lost' => Lost
  PROVE  CallsPaid'
<1>1. Cardinality(Asking') <= Cardinality(Asking) /\ Cardinality(Asking') \in Nat
      /\ Cardinality(Asking) \in Nat
  BY SetsFinite, CountSub
<1>2. One("first" \in asks') <= One("first" \in asks) /\ One(Lost') <= One(Lost)
  BY DEF One
<1>3. /\ One("first" \in asks') \in Nat /\ One("first" \in asks) \in Nat
      /\ One(Lost') \in Nat /\ One(Lost) \in Nat
  BY DEF One
<1>4. PICK a1, a2, l1, l2, c1, c2 :
        /\ a1 = One("first" \in asks) /\ a2 = One("first" \in asks') /\ l1 = One(Lost) /\ l2 = One(Lost')
        /\ c1 = Cardinality(Asking) /\ c2 = Cardinality(Asking')
  OBVIOUS
<1>5. tally.calls + a1 + c1 + l1 <= tally.forms + tally.again
  BY <1>4 DEF CallsPaid
<1>6. tally'.calls + a2 + c2 + l2 <= tally'.forms + tally'.again
  BY <1>1, <1>2, <1>3, <1>4, <1>5 DEF Counts
<1>7. QED
  BY <1>4, <1>6 DEF CallsPaid, One

LEMMA EffectsKept ==
  ASSUME AInv, AInv', Counts, Counts', EffectsPaid,
         tally'.effects = tally.effects, tally'.asked >= tally.asked, tally'.forced >= tally.forced,
         asks' \subseteq asks, Calling' \subseteq Calling, Held' => Held
  PROVE  EffectsPaid'
<1>1. Cardinality(Calling') <= Cardinality(Calling) /\ Cardinality(Calling') \in Nat
      /\ Cardinality(Calling) \in Nat
  BY SetsFinite, CountSub
<1>2. Cardinality(asks') <= Cardinality(asks) /\ Cardinality(asks') \in Nat /\ Cardinality(asks) \in Nat
  BY SetsFinite, CountSub
<1>3. One(Held') <= One(Held) /\ One(Held') \in Nat /\ One(Held) \in Nat
  BY DEF One
<1>4. PICK a1, a2, h1, h2, c1, c2 :
        /\ a1 = Cardinality(asks) /\ a2 = Cardinality(asks') /\ h1 = One(Held) /\ h2 = One(Held')
        /\ c1 = Cardinality(Calling) /\ c2 = Cardinality(Calling')
  OBVIOUS
<1>5. tally.effects + a1 + c1 + h1 <= tally.asked + tally.forced
  BY <1>4 DEF EffectsPaid
<1>6. tally'.effects + a2 + c2 + h2 <= tally'.asked + tally'.forced
  BY <1>1, <1>2, <1>3, <1>4, <1>5 DEF Counts
<1>7. QED
  BY <1>4, <1>6 DEF EffectsPaid, One

-----------------------------------------------------------------------------
(* How a run goes: it stops, goes on at its node, or goes to the next.     *)
Walk(run, next) ==
  \/ next = NoRun
  \/ /\ next.node = run.node /\ (Upstream(run) => next.gate = run.gate)
     /\ run.step # "failed" /\ next.step \notin {"in", "idle"}
     /\ run.node = "review" => next.step \in ReviewStep
     /\ next.step = "act" => run.step = "in"
  \/ /\ run.step = "after" /\ run.node # "end"
     /\ next.node = NextNode(run.node) /\ next.step = "in" /\ next.gate = run.gate
Walks(r) == \E next : runs' = [runs EXCEPT ![r] = next] /\ Walk(runs[r], next)
Spent == /\ tally' \in [calls : Nat, effects : Nat, forms : Nat, asked : Nat, again : Nat,
                        forced : Nat, crashes : Nat]
         /\ tally'.forms = tally.forms /\ tally'.asked = tally.asked /\ tally'.again = tally.again
         /\ tally'.forced = tally.forced /\ tally'.crashes = tally.crashes
Leaves(r) == Suppressed(r) \/ After(r) \/ Finish(r) \/ AfterFailure(r) \/ AfterCC(r)
Walked(r) == Walks(r) /\ Spent /\ UNCHANGED <<flow, asks, restart>> /\ runs[r].step # "idle"

LEMMA SameSpent == ASSUME Counts, tally' = tally PROVE Spent
BY DEF Counts, Spent

LEMMA StopWalks == ASSUME NEW r, Stop(r) PROVE Walks(r)
BY DEF Stop, Going, Walks, Walk

LEMMA GotoWalks ==
  ASSUME AInv, NEW r \in Slot, NEW step \in Step, Goto(r, step),
         runs[r].step # "failed", step \notin {"in", "idle"},
         runs[r].node = "review" => step \in ReviewStep,
         step = "act" => runs[r].step = "in"
  PROVE  Walks(r)
<1>1. PICK run : run = runs[r]
  OBVIOUS
<1>2. run \in Run(answers)
  BY <1>1, RunAtHand
<1>3. PICK next : next = [run EXCEPT !.step = step]
  OBVIOUS
<1>4. next.node = run.node /\ next.gate = run.gate /\ next.step = step
  BY <1>2, <1>3 DEF Run
<1>5. runs' = [runs EXCEPT ![r] = next] /\ Walk(run, next)
  BY <1>1, <1>3, <1>4 DEF Walk, Goto, Going
<1>6. QED
  BY <1>1, <1>5 DEF Walks

(* What a run is after Before.                                             *)
LEMMA EnteredRun ==
  ASSUME AInv, NEW r \in Slot, runs[r].step = "in", NEW task, Entered(r, task)
  PROVE  \E next : /\ runs' = [runs EXCEPT ![r] = next]
                   /\ next.node = runs[r].node /\ next.task = task /\ next.data = runs[r].data
                   /\ next.by = runs[r].by /\ next.answer = runs[r].answer
                   /\ next.step = FirstStep(runs[r])
                   /\ Upstream(runs[r]) => next.gate = runs[r].gate
                   /\ next.step \in {"look", "act", "parked", "after"}
                   /\ next.node = "review" => next.step = "look"
<1>1. PICK run : run = runs[r]
  OBVIOUS
<1>2. run \in Run(answers) /\ run.node \in Place /\ run.gate \in BOOLEAN
  BY <1>1, RunAtHand DEF Run
<1>3. PICK step, gate : step = FirstStep(run) /\ gate = (run.gate /\ step # "parked")
  OBVIOUS
<1>4. PICK next : next = [run EXCEPT !.step = step, !.task = task, !.gate = gate]
  OBVIOUS
<1>5. runs' = [runs EXCEPT ![r] = next]
  BY <1>1, <1>3, <1>4 DEF Entered, Going
<1>6. step \in {"look", "act", "parked", "after"} /\ (run.node = "review" => step = "look")
      /\ (Upstream(run) => step # "parked")
  BY <1>2, <1>3 DEF FirstStep, Place, Upstream
<1>7. /\ next.node = run.node /\ next.task = task /\ next.data = run.data /\ next.step = step
      /\ next.by = run.by /\ next.answer = run.answer /\ next.gate = gate
  BY <1>2, <1>4 DEF Run
<1>8. Upstream(run) => gate = run.gate
  BY <1>2, <1>3, <1>6
<1>9. QED
  BY <1>1, <1>3, <1>5, <1>6, <1>7, <1>8

LEMMA PassOnRun ==
  ASSUME AInv, NEW r \in Slot, PassOn(r)
  PROVE  \E next : /\ runs' = [runs EXCEPT ![r] = next]
                   /\ next.node = NextNode(runs[r].node) /\ next.step = "in"
                   /\ next.gate = runs[r].gate
<1>1. PICK run : run = runs[r]
  OBVIOUS
<1>2. run \in Run(answers)
  BY <1>1, RunAtHand
<1>3. PICK next : next = [run EXCEPT !.node = NextNode(run.node), !.step = "in", !.task = 0,
                                     !.due = FALSE, !.answer = 0]
  OBVIOUS
<1>4. next.node = NextNode(run.node) /\ next.step = "in" /\ next.gate = run.gate
  BY <1>2, <1>3 DEF Run
<1>5. runs' = [runs EXCEPT ![r] = next]
  BY <1>1, <1>3 DEF PassOn, Going
<1>6. QED
  BY <1>1, <1>4, <1>5

LEMMA BeforeWalks ==
  ASSUME AInv, Counts, NEW r \in Slot, Before(r)
  PROVE  Walked(r)
<1>1. runs[r].step = "in" /\ UNCHANGED <<flow, asks, restart, tally>> /\ \E task : Entered(r, task)
  BY DEF Before
<1>2. Walks(r)
  <2>1. PICK next : /\ runs' = [runs EXCEPT ![r] = next]
                    /\ next.node = runs[r].node
                    /\ Upstream(runs[r]) => next.gate = runs[r].gate
                    /\ next.step \in {"look", "act", "parked", "after"}
                    /\ next.node = "review" => next.step = "look"
    BY <1>1, EnteredRun
  <2>2. Walk(runs[r], next)
    BY <1>1, <2>1 DEF Walk, ReviewStep
  <2>3. QED
    BY <2>1, <2>2 DEF Walks
<1>3. QED
  BY <1>1, <1>2, SameSpent DEF Walked

LEMMA PassOnWalks ==
  ASSUME AInv, NEW r \in Slot, runs[r].step = "after", runs[r].node # "end", PassOn(r)
  PROVE  Walks(r)
BY PassOnRun DEF Walks, Walk

LEMMA AfterWalks ==
  ASSUME AInv, Counts, NEW r \in Slot, Leaves(r)
  PROVE  Walked(r)
<1>1. UNCHANGED <<flow, asks, restart, tally>> /\ runs[r].step \in {"after", "finish", "failed", "in"}
  BY DEF Leaves, Suppressed, After, Finish, AfterFailure, AfterCC, At
<1>2. Walks(r)
  <2>1. \/ Stop(r)
        \/ runs[r].step = "after" /\ runs[r].node # "end" /\ PassOn(r)
        \/ runs[r].step = "after" /\ runs[r].node = "end" /\ Goto(r, "finish")
    BY DEF Leaves, Suppressed, After, Finish, AfterFailure, AfterCC, Observed
  <2>2. QED
    BY <2>1, StopWalks, PassOnWalks, GotoWalks DEF Step
<1>3. QED
  BY <1>1, <1>2, SameSpent DEF Walked

LEMMA PassedWalks ==
  ASSUME AInv, NEW r \in Slot, NEW data, NEW verdict, Passed(r, data, verdict),
         runs[r].node = "review", runs[r].step # "failed"
  PROVE  Walks(r)
<1>1. PICK run : run = runs[r]
  OBVIOUS
<1>2. run \in Run(answers)
  BY <1>1, RunAtHand
<1>3. PICK next : next = [run EXCEPT !.step = "after", !.data = data, !.verdict = verdict]
  OBVIOUS
<1>4. next.node = run.node /\ next.gate = run.gate /\ next.step = "after"
  BY <1>2, <1>3 DEF Run
<1>5. runs' = [runs EXCEPT ![r] = next] /\ Walk(run, next)
  BY <1>1, <1>3, <1>4 DEF Walk, Passed, Going, ReviewStep
<1>6. QED
  BY <1>1, <1>5 DEF Walks

LEMMA LookRuns ==
  ASSUME AInv, NEW r \in Slot, Look(r), ~Stop(r), \A verdict : ~Passed(r, runs[r].data, verdict)
  PROVE  /\ NobodyAsked /\ UNCHANGED <<status, current, people, rows>>
         /\ \E next : /\ runs' = [runs EXCEPT ![r] = next]
                      /\ next.node = "review" /\ next.gate = runs[r].gate
                      /\ next.task = runs[r].task /\ next.data = runs[r].data
                      /\ \/ next.step = "judge" /\ next.answer = store.out /\ Reusable(runs[r])
                         \/ next.step = "ask" /\ ~Reusable(runs[r])
<1>1. PICK run : run = runs[r]
  OBVIOUS
<1>2. run \in Run(answers) /\ run.node = "review"
  BY <1>1, RunAtHand DEF Look, At
<1>3. /\ Said("open") \cup Said("rejected") \cup Said("approved") = {}
      /\ Going(r, IF Reusable(run) THEN [run EXCEPT !.step = "judge", !.answer = store.out]
                                   ELSE [run EXCEPT !.step = "ask"])
      /\ UNCHANGED <<status, current, people, rows>>
  BY <1>1 DEF Look, HandleReject
<1>4. NobodyAsked
  BY <1>3 DEF NobodyAsked, Said
<1>5. CASE Reusable(run)
  <2>1. PICK next : next = [run EXCEPT !.step = "judge", !.answer = store.out]
    OBVIOUS
  <2>2. /\ next.node = "review" /\ next.gate = run.gate /\ next.task = run.task
        /\ next.data = run.data /\ next.step = "judge" /\ next.answer = store.out
    BY <1>2, <2>1 DEF Run
  <2>3. runs' = [runs EXCEPT ![r] = next]
    BY <1>1, <1>3, <1>5, <2>1 DEF Going
  <2>4. QED
    BY <1>1, <1>3, <1>4, <1>5, <2>2, <2>3
<1>6. CASE ~Reusable(run)
  <2>1. PICK next : next = [run EXCEPT !.step = "ask"]
    OBVIOUS
  <2>2. /\ next.node = "review" /\ next.gate = run.gate /\ next.task = run.task
        /\ next.data = run.data /\ next.step = "ask"
    BY <1>2, <2>1 DEF Run
  <2>3. runs' = [runs EXCEPT ![r] = next]
    BY <1>1, <1>3, <1>6, <2>1 DEF Going
  <2>4. QED
    BY <1>1, <1>3, <1>4, <1>6, <2>2, <2>3
<1>7. QED
  BY <1>5, <1>6

LEMMA LookWalks ==
  ASSUME AInv, Counts, NEW r \in Slot, Look(r)
  PROVE  Walked(r)
<1>1. UNCHANGED <<flow, asks, restart, tally>> /\ runs[r].step = "look" /\ runs[r].node = "review"
  BY DEF Look, At
<1>2. Walks(r)
  <2>1. CASE Stop(r)
    BY <2>1, StopWalks
  <2>2. CASE \E verdict : Passed(r, runs[r].data, verdict)
    BY <1>1, <2>2, PassedWalks
  <2>3. CASE ~Stop(r) /\ \A verdict : ~Passed(r, runs[r].data, verdict)
    BY <1>1, <2>3, LookRuns DEF Walks, Walk, ReviewStep
  <2>4. QED
    BY <2>1, <2>2, <2>3
<1>3. QED
  BY <1>1, <1>2, SameSpent DEF Walked

LEMMA CallSpent == ASSUME Counts, CountCall
                   PROVE  /\ Spent /\ tally'.effects = tally.effects
                          /\ tally'.calls = IF Active THEN tally.calls + 1 ELSE tally.calls
BY DEF Counts, CountCall, Spent

LEMMA AskWalks ==
  ASSUME AInv, Counts, NEW r \in Slot, NoAnswer(r) \/ \E output \in Outputs : Answered(r, output)
  PROVE  Walked(r)
<1>1. UNCHANGED <<flow, asks, restart>> /\ runs[r].step = "ask" /\ runs[r].node = "review" /\ Spent
  BY CallSpent DEF NoAnswer, Answered, At
<1>2. Walks(r)
  <2>1. CASE Stop(r)
    BY <2>1, StopWalks
  <2>2. CASE Goto(r, "failed")
    BY <1>1, <2>2, GotoWalks DEF Step, ReviewStep
  <2>3. CASE runs' = [runs EXCEPT ![r] = [runs[r] EXCEPT !.step = "save", !.answer = Len(answers')]]
    <3>1. PICK run, answer : run = runs[r] /\ answer = Len(answers')
      OBVIOUS
    <3>2. PICK next : next = [run EXCEPT !.step = "save", !.answer = answer]
      OBVIOUS
    <3>3. run \in Run(answers)
      BY <3>1, RunAtHand
    <3>4. next.node = run.node /\ next.gate = run.gate /\ next.step = "save"
      BY <3>2, <3>3 DEF Run
    <3>5. runs' = [runs EXCEPT ![r] = next] /\ Walk(run, next)
      BY <1>1, <2>3, <3>1, <3>2, <3>4 DEF Walk, ReviewStep
    <3>6. QED
      BY <3>1, <3>5 DEF Walks
  <2>4. QED
    BY <2>1, <2>2, <2>3 DEF NoAnswer, Answered, Fallback, Going
<1>3. QED
  BY <1>1, <1>2 DEF Walked

LEMMA JudgeWalks ==
  ASSUME AInv, Counts, NEW r \in Slot, Save(r) \/ Judge(r) \/ Fire(r)
  PROVE  Walked(r)
<1>1. UNCHANGED <<flow, asks, restart, tally>> /\ runs[r].step \in {"save", "judge", "parked"}
  BY DEF Save, Judge, Fire, At
<1>2. Walks(r)
  <2>1. CASE Save(r)
    BY <2>1, GotoWalks DEF Save, At, Step, ReviewStep
  <2>2. CASE Fire(r)
    BY <2>2, GotoWalks DEF Fire, At, Step, ReviewStep
  <2>3. CASE Judge(r)
    <3>1. Stop(r) \/ \E data, verdict : Passed(r, data, verdict)
      BY <2>3 DEF Judge, HandleReject, HandleUnresolved, Fallback
    <3>2. QED
      BY <2>3, <3>1, StopWalks, PassedWalks DEF Judge, At
  <2>4. QED
    BY <2>1, <2>2, <2>3
<1>3. QED
  BY <1>1, <1>2, SameSpent DEF Walked

LEMMA ActedSpent ==
  ASSUME Counts, NEW r, NEW effect, NEW step, Acted(r, effect, step)
  PROVE  /\ Spent /\ tally'.calls = tally.calls
         /\ tally'.effects = IF effect /\ Active THEN tally.effects + 1 ELSE tally.effects
BY DEF Counts, Acted, Spent

LEMMA CallActs ==
  ASSUME NEW r, Call(r)
  PROVE  \E effect : \E step \in {"after", "failed"} : Acted(r, effect, step)
BY DEF Call, HttpCall, StartProcess, CCTask, HttpTells, StartTells, CCTells

LEMMA CallWalks ==
  ASSUME AInv, Counts, NEW r \in Slot, Call(r)
  PROVE  Walked(r)
<1>1. PICK effect, step : step \in {"after", "failed"} /\ Acted(r, effect, step)
  BY CallActs
<1>2. Spent
  BY <1>1, ActedSpent
<1>3. Walks(r)
  BY <1>1, GotoWalks DEF Acted, At, Step
<1>4. QED
  BY <1>1, <1>2, <1>3 DEF Walked, Acted, At

LEMMA RunStepWalks ==
  ASSUME AInv, Counts, NEW r \in Slot, RunStep(r)
  PROVE  Walked(r)
BY BeforeWalks, LookWalks, AskWalks, JudgeWalks, CallWalks, AfterWalks
   DEF RunStep, Aspect, Leaves, Review

-----------------------------------------------------------------------------
(* What the steps of a run leave alone.                                    *)
Ready == AInv /\ Broad /\ Tame(flow) /\ Active /\ Paid

LEMMA ReadyFacts ==
  ASSUME Ready
  PROVE  /\ AInv /\ flow \in Flows /\ Counts /\ Gates /\ Unbroken /\ Bare /\ Tame(flow)
         /\ Active /\ CallsPaid /\ EffectsPaid /\ Named /\ AskedBack
         /\ flow.crashes > 0 => Single
         /\ flow.crashes \in Nat
         /\ flow.crashes = 0 \/ flow.crashes > 0
BY FlowFacts DEF Ready, Broad, Paid

LEMMA RunsAfter ==
  ASSUME AInv, NEW r \in Slot, NEW next, runs' = [runs EXCEPT ![r] = next]
  PROVE  runs'[r] = next /\ \A q \in Slot : q # r => runs'[q] = runs[q]
BY DEF AInv, RunsSound

LEMMA WalkOn ==
  ASSUME NEW run, NEW next, run.step # "idle" => run.node \in Place, Walk(run, next)
  PROVE  /\ Bound(next) => Bound(run)
         /\ Upstream(next) => Upstream(run)
         /\ next.node = "review" => run.node = "review" /\ next.step \in ReviewStep \ {"in"}
         /\ Upstream(next) => next.gate = run.gate
BY NotIdle DEF Walk, Bound, Upstream, NextNode, Place, ReviewStep

LEMMA WalkAfter ==
  ASSUME AInv, NEW r \in Slot, Walked(r)
  PROVE  /\ \A q \in Slot : q # r => runs'[q] = runs[q]
         /\ Bound(runs'[r]) => Bound(runs[r])
         /\ Upstream(runs'[r]) => Upstream(runs[r]) /\ runs'[r].gate = runs[r].gate
         /\ runs'[r].node = "review" => runs[r].node = "review" /\ runs'[r].step \in ReviewStep \ {"in"}
         /\ runs[r] # NoRun /\ runs[r].node \in Place
         /\ runs'[r] = NoRun \/ runs'[r].step # "idle"
<1>1. runs[r].step # "idle" /\ runs[r].node \in Place
  BY RunAtHand DEF Walked
<1>2. PICK next : runs' = [runs EXCEPT ![r] = next] /\ Walk(runs[r], next)
  BY DEF Walked, Walks
<1>3. runs'[r] = next /\ \A q \in Slot : q # r => runs'[q] = runs[q]
  BY <1>2, RunsAfter
<1>4. QED
  BY <1>1, <1>2, <1>3, WalkOn, NotIdle DEF Walk

LEMMA WalkGates ==
  ASSUME AInv, Gates, NEW r \in Slot, Walked(r)
  PROVE  Gates'
<1>1. \A q \in Slot : q # r => runs'[q] = runs[q]
  BY WalkAfter
<1>2. ASSUME NEW q \in Slot
      PROVE  /\ Upstream(runs'[q]) => runs'[q].gate
             /\ runs'[q].node = "review" => runs'[q].step \in ReviewStep
  BY <1>1, WalkAfter DEF Gates
<1>3. QED
  BY <1>2 DEF Gates, Upstream

LEMMA WalkBroad ==
  ASSUME AInv, Broad, NEW r \in Slot, Walked(r), answers' = answers
  PROVE  Broad'
<1>1. Gates' /\ Counts' /\ flow' = flow /\ flow' \in Flows
  BY WalkGates DEF Broad, Walked, Spent, Counts
<1>2. Bare'
  BY <1>1 DEF Broad, Bare
<1>3. Unbroken'
  <2>1. ASSUME flow.crashes = 0, NEW h \in Handler
        PROVE  runs'[h] = NoRun
    <3>1. runs[h] = NoRun /\ h \in Slot
      BY <2>1, SlotsFinite DEF Broad, Unbroken
    <3>2. QED
      BY <3>1, WalkAfter
  <2>2. QED
    BY <1>1, <2>1 DEF Broad, Unbroken, Walked, Spent
<1>4. QED
  BY <1>1, <1>2, <1>3 DEF Broad

LEMMA WalkCalling ==
  ASSUME AInv, AInv', NEW r \in Slot, Walked(r)
  PROVE  Calling' \subseteq Calling
<1>1. ASSUME NEW q \in RowId, Bound(runs'[q])
      PROVE  Bound(runs[q])
  BY <1>1, WalkAfter, SlotsFinite
<1>2. Calling' = {q \in RowId : Bound(runs'[q])}
  BY DEF Calling, Bound
<1>3. QED
  BY <1>1, <1>2 DEF Calling

LEMMA WalkHeld ==
  ASSUME AInv, NEW r \in Slot, Walked(r), \A h \in Handler : OpenTodo(h)' => OpenTodo(h)
  PROVE  Held' => Held
<1>1. ASSUME NEW q \in Handler, Bound(runs'[q])
      PROVE  Bound(runs[q])
  BY <1>1, WalkAfter, SlotsFinite
<1>2. Held' => \E h \in Handler : OpenTodo(h)' \/ Bound(runs'[h])
  BY DEF Held, Bound
<1>3. QED
  BY <1>1, <1>2 DEF Held

LEMMA RunEffects ==
  ASSUME Ready, AInv', Broad', NEW r \in Slot, Walked(r), fallback' = fallback,
         tally'.effects = tally.effects
  PROVE  EffectsPaid'
<1>1. Calling' \subseteq Calling /\ (Held' => Held)
  BY WalkCalling, WalkHeld, ReadyFacts DEF OpenTodo
<1>2. Counts /\ Counts' /\ asks' = asks /\ tally'.asked = tally.asked /\ tally'.forced = tally.forced
  BY ReadyFacts DEF Broad, Walked, Spent
<1>3. tally'.asked >= tally.asked /\ tally'.forced >= tally.forced
  BY <1>2 DEF Counts
<1>4. QED
  BY <1>1, <1>2, <1>3, EffectsKept, ReadyFacts

(* Another run does not begin to ask.                                      *)
LEMMA OthersAsk ==
  ASSUME Ready, NEW r \in Slot, Walked(r), NobodyAsked' => NobodyAsked,
         NEW q \in Slot, q # r, MayAsk(runs[q])'
  PROVE  MayAsk(runs[q])
<1>1. runs'[q] = runs[q] /\ runs[r] # NoRun /\ flow' = flow
  BY WalkAfter, ReadyFacts DEF Walked
<1>2. CASE runs[q].step = "ask"
  BY <1>1, <1>2 DEF MayAsk
<1>3. CASE runs[q].step # "ask"
  <2>1. runs[q].node = "review" /\ NobodyAsked /\ runs[q].step \in {"in", "look"}
    BY <1>1, <1>3 DEF MayAsk
  <2>2. ~Unaided
    <3>1. ASSUME flow.crashes > 0
          PROVE  FALSE
      BY <1>1, <2>1, <3>1, ReadyFacts DEF Single, Alone, OneReview
    <3>2. QED
      BY <3>1 DEF Unaided
  <2>3. QED
    BY <2>1, <2>2 DEF MayAsk
<1>4. QED
  BY <1>2, <1>3

LEMMA RunAsking ==
  ASSUME Ready, AInv', NEW r \in Slot, Walked(r), NobodyAsked' => NobodyAsked,
         MayAsk(runs[r])' => MayAsk(runs[r])
  PROVE  Asking' \subseteq Asking
<1>1. ASSUME NEW q \in Slot, MayAsk(runs[q])'
      PROVE  MayAsk(runs[q])
  BY <1>1, OthersAsk
<1>2. QED
  BY <1>1 DEF Asking

LEMMA RunCalls ==
  ASSUME Ready, AInv', Broad', NEW r \in Slot, Walked(r), NobodyAsked' => NobodyAsked,
         tally'.calls = tally.calls, MayAsk(runs[r])' => MayAsk(runs[r]), ~Lost'
  PROVE  CallsPaid'
<1>1. Asking' \subseteq Asking
  BY RunAsking
<1>2. Counts /\ Counts' /\ asks' = asks /\ tally'.forms = tally.forms /\ tally'.again = tally.again
  BY ReadyFacts DEF Broad, Walked, Spent
<1>3. tally'.forms >= tally.forms /\ tally'.again >= tally.again
  BY <1>2 DEF Counts
<1>4. QED
  BY <1>1, <1>2, <1>3, CallsKept, ReadyFacts

LEMMA RunNamed ==
  ASSUME Ready, NEW r \in Slot, Walked(r), fallback' = fallback
  PROVE  Named' /\ AskedBack' /\ (NobodyAsked' <=> NobodyAsked)
<1>1. flow' = flow /\ asks' = asks /\ (NobodyAsked' <=> NobodyAsked)
  BY DEF Walked, NobodyAsked
<1>2. \A h \in Handler : runs'[h] # NoRun => runs[h] # NoRun
  BY WalkAfter, ReadyFacts, SlotsFinite
<1>3. Named'
  BY <1>1, <1>2, ReadyFacts DEF Named, OpenTodo
<1>4. QED
  BY <1>1, <1>3, ReadyFacts DEF AskedBack

(* Nobody is asked in this step: what is left is that the message remains  *)
(* the only one.                                                           *)
LEMMA RunSingle ==
  ASSUME Ready, Broad', NEW r \in Slot, Walked(r), fallback' = fallback,
         flow.crashes > 0 => Alone',
         flow.crashes > 0 /\ runs'[r].node = "review" /\ runs'[r].step \in {"ask", "save", "judge"}
           => NobodyAsked,
         r \in Handler /\ OpenTodo(r) /\ runs[r].step = "look" => runs'[r] = NoRun
  PROVE  flow'.crashes > 0 => Single'
<1> SUFFICES ASSUME flow.crashes > 0
             PROVE  Handed' /\ Waiting'
  BY DEF Walked, Single
<1>1. Handed /\ Waiting
  BY ReadyFacts DEF Single
<1>2. NobodyAsked' <=> NobodyAsked
  BY RunNamed
<1>3. \A q \in Slot : q # r => runs'[q] = runs[q]
  BY WalkAfter, ReadyFacts
<1>4. Handed'
  <2>1. ASSUME ~NobodyAsked, NEW q \in Slot, runs'[q].node = "review"
        PROVE  runs'[q].step \notin {"ask", "save", "judge"}
    BY <1>1, <1>3, <2>1 DEF Handed
  <2>2. QED
    BY <1>2, <2>1 DEF Handed
<1>5. Waiting'
  <2>1. ASSUME NEW h \in Handler, OpenTodo(h), Upstream(runs'[h])
        PROVE  runs'[h].step = "look"
    BY <1>1, <1>3, <2>1, WalkAfter, ReadyFacts, SlotsFinite, NotIdle DEF Waiting
  <2>2. QED
    BY <2>1 DEF Waiting, OpenTodo, Upstream
<1>6. QED
  BY <1>4, <1>5

(* A run beyond review goes on: nothing is at review.                      *)
LEMMA Elsewhere ==
  ASSUME Ready, NEW r \in Slot, Walked(r), runs[r].node # "review",
         fallback' = fallback, first' = first,
         \A x \in RowId : rows'[x].node = "review" => rows[x].node = "review"
  PROVE  ~Lost' /\ (flow.crashes > 0 => Alone')
<1>1. flow' = flow /\ asks' = asks /\ runs[r] # NoRun
  BY WalkAfter, ReadyFacts DEF Walked
<1>2. ASSUME flow.crashes > 0, NobodyAsked
      PROVE  /\ first.state # "open" /\ "first" \notin asks
             /\ \A x \in RowId : rows'[x].node # "review"
             /\ \A q \in Slot : runs'[q].node # "review"
  <2>1. WithStarter /\ OneRow /\ OneReview
    BY <1>2, ReadyFacts DEF Single, Alone
  <2>2. first.state # "open" /\ "first" \notin asks
    BY <1>1, <2>1 DEF WithStarter, Idle
  <2>3. \A x \in RowId : rows[x].node # "review"
    BY <1>1, <2>1 DEF OneRow
  <2>4. \A q \in Slot : runs[q].node # "review"
    BY <1>1, <2>1 DEF OneReview
  <2>5. \A q \in Slot : runs'[q].node # "review"
    BY <2>4, WalkAfter, ReadyFacts
  <2>6. QED
    BY <2>2, <2>3, <2>5
<1>3. NobodyAsked' <=> NobodyAsked
  BY RunNamed
<1>4. flow.crashes > 0 => Alone'
  BY <1>1, <1>2, <1>3 DEF Alone, WithStarter, OneRow, OneReview
<1>5. ~Lost'
  BY <1>1, <1>2, <1>3 DEF Lost, Unaided
<1>6. QED
  BY <1>4, <1>5

LEMMA ElsewherePaid ==
  ASSUME Ready, AInv', Broad', NEW r \in Slot, Walked(r), runs[r].node # "review",
         runs[r].step # "look", fallback' = fallback, first' = first, tally'.calls = tally.calls,
         EffectsPaid',
         \A x \in RowId : rows'[x].node = "review" => rows[x].node = "review"
  PROVE  Paid'
<1>1. ~Lost' /\ (flow.crashes > 0 => Alone')
  BY Elsewhere
<1>2. runs'[r].node # "review"
  BY WalkAfter, ReadyFacts
<1>3. ~MayAsk(runs[r])'
  BY <1>2 DEF MayAsk
<1>4. CallsPaid'
  BY <1>1, <1>3, RunNamed, RunCalls
<1>5. flow'.crashes > 0 => Single'
  BY <1>1, <1>2, RunSingle
<1>6. QED
  BY <1>4, <1>5, RunNamed DEF Paid

-----------------------------------------------------------------------------
(* Beyond review.                                                          *)

LEMMA ActedPaid ==
  ASSUME Ready, AInv', Broad', NEW r \in Slot, NEW effect, NEW step \in {"after", "failed"},
         Acted(r, effect, step), Walked(r)
  PROVE  EffectsPaid'
<1>1. /\ runs[r].node = "call" /\ runs[r].step = "act" /\ fallback' = fallback
      /\ Bound(runs[r]) /\ asks' = asks
  BY DEF Acted, At, Bound, people
<1>2. /\ Counts /\ Counts' /\ tally'.asked = tally.asked /\ tally'.forced = tally.forced
      /\ tally'.effects = tally.effects \/ tally'.effects = tally.effects + 1
  BY ActedSpent, ReadyFacts DEF Broad, Spent
<1>3. ~Bound(runs'[r])
  <2>1. PICK run : run = runs[r]
    OBVIOUS
  <2>2. PICK next : next = [run EXCEPT !.step = step]
    OBVIOUS
  <2>3. run \in Run(answers)
    BY <2>1, RunAtHand, ReadyFacts
  <2>4. next.node = "call" /\ next.step = step
    BY <1>1, <2>1, <2>2, <2>3 DEF Run
  <2>5. runs' = [runs EXCEPT ![r] = next]
    BY <2>1, <2>2 DEF Acted, Goto, Going
  <2>6. runs'[r] = next
    BY <2>5, RunsAfter, ReadyFacts
  <2>7. QED
    BY <2>4, <2>6 DEF Bound
<1>4. Calling' \subseteq Calling /\ (Held' => Held)
  BY <1>1, WalkCalling, WalkHeld, ReadyFacts DEF OpenTodo
<1>5. CASE r \in RowId
  <2>1. r \in Calling /\ r \notin Calling'
    BY <1>1, <1>3, <1>5 DEF Calling, Bound
  <2>2. Cardinality(Calling') + 1 <= Cardinality(Calling) /\ Cardinality(Calling') \in Nat
        /\ Cardinality(Calling) \in Nat
    BY <1>4, <2>1, CountLess, SetsFinite, ReadyFacts
  <2>3. One(Held') <= One(Held) /\ One(Held') \in Nat /\ One(Held) \in Nat
    BY <1>4 DEF One
  <2>4. PICK c1, c2, h1, h2, a : /\ c1 = Cardinality(Calling) /\ c2 = Cardinality(Calling')
                                 /\ h1 = One(Held) /\ h2 = One(Held') /\ a = Cardinality(asks)
    OBVIOUS
  <2>5. tally.effects + a + c1 + h1 <= tally.asked + tally.forced /\ a \in Nat
    BY <2>4, SetsFinite, ReadyFacts DEF EffectsPaid
  <2>6. tally'.effects + a + c2 + h2 <= tally'.asked + tally'.forced
    BY <1>2, <2>2, <2>3, <2>4, <2>5 DEF Counts
  <2>7. QED
    BY <1>1, <2>4, <2>6 DEF EffectsPaid, One
<1>6. CASE r \notin RowId
  <2>1. r \in Handler /\ runs[r] # NoRun
    BY <1>1, <1>6, NotIdle DEF Slot
  <2>2. flow.crashes > 0
    BY <2>1, ReadyFacts DEF Unbroken
  <2>3. r \in flow.handlers /\ \A h \in flow.handlers : h = r
    BY <2>1, <2>2, ReadyFacts DEF Named, Tame
  <2>4. ~OpenTodo(r)
    BY <1>1, <2>1, <2>2, ReadyFacts DEF Single, Waiting, Upstream
  <2>5. Held
    BY <1>1, <2>1 DEF Held
  <2>6. ~Held'
    <3>1. ASSUME NEW h \in Handler, OpenTodo(h) \/ Bound(runs'[h])
          PROVE  FALSE
      <4>1. h # r
        BY <1>3, <2>4, <3>1
      <4>2. OpenTodo(h) \/ runs[h] # NoRun
        BY <3>1, <4>1, WalkAfter, ReadyFacts, SlotsFinite, NotIdle
      <4>3. QED
        BY <2>3, <4>1, <4>2, ReadyFacts DEF Named
    <3>2. QED
      BY <1>1, <3>1 DEF Held, OpenTodo, Bound
  <2>7. Cardinality(Calling') <= Cardinality(Calling) /\ Cardinality(Calling') \in Nat
        /\ Cardinality(Calling) \in Nat
    BY <1>4, CountSub, SetsFinite, ReadyFacts
  <2>8. One(Held) = 1 /\ One(Held') = 0
    BY <2>5, <2>6 DEF One
  <2>9. PICK c1, c2, a : /\ c1 = Cardinality(Calling) /\ c2 = Cardinality(Calling')
                         /\ a = Cardinality(asks)
    OBVIOUS
  <2>10. tally.effects + a + c1 + 1 <= tally.asked + tally.forced /\ a \in Nat
    BY <2>8, <2>9, SetsFinite, ReadyFacts DEF EffectsPaid
  <2>11. tally'.effects + a + c2 + 0 <= tally'.asked + tally'.forced
    BY <1>2, <2>7, <2>9, <2>10 DEF Counts
  <2>12. QED
    BY <1>1, <2>8, <2>9, <2>11 DEF EffectsPaid, One
<1>7. QED
  BY <1>5, <1>6

LEMMA BeforeElsewhere ==
  ASSUME Ready, AInv', Broad', NEW r \in Slot, Before(r), runs[r].node # "review"
  PROVE  Paid'
<1>1. /\ Walked(r) /\ fallback' = fallback /\ first' = first /\ tally' = tally
      /\ runs[r].step = "in"
  BY BeforeWalks, ReadyFacts DEF Before, people
<1>2. \A x \in RowId : rows'[x].node = "review" => rows[x].node = "review"
  <2>1. CASE rows' = rows
    BY <2>1
  <2>2. CASE \E x \in RowId : rows' = [rows EXCEPT ![x] = [node |-> runs[r].node, data |-> runs[r].data]]
    BY <2>2, ReadyFacts DEF AInv, Tables
  <2>3. QED
    BY <2>1, <2>2 DEF Before
<1>3. QED
  BY <1>1, <1>2, RunEffects, ElsewherePaid

LEMMA AfterElsewhere ==
  ASSUME Ready, AInv', Broad', Active', NEW r \in Slot, runs[r].node # "review", Leaves(r)
  PROVE  Paid'
<1>1. Walked(r) /\ tally' = tally /\ runs[r].step # "look"
  BY AfterWalks, ReadyFacts DEF Leaves, Suppressed, After, Finish, AfterFailure, AfterCC, At
<1>2. status' = status /\ UNCHANGED people
      /\ (rows' = rows \/ \E x : rows' = [rows EXCEPT ![x] = NoRow])
  BY ReadyFacts DEF Leaves, Suppressed, After, Finish, AfterFailure, AfterCC, Ended, Active,
                    Completed, people
<1>3. \A x \in RowId : rows'[x].node = "review" => rows[x].node = "review"
  BY <1>2, NotIdle, ReadyFacts DEF AInv, Tables
<1>4. QED
  BY <1>1, <1>2, <1>3, RunEffects, ElsewherePaid DEF people

LEMMA CallPaid ==
  ASSUME Ready, AInv', Broad', NEW r \in Slot, Call(r)
  PROVE  Paid'
<1>1. PICK effect, step : step \in {"after", "failed"} /\ Acted(r, effect, step)
  BY CallActs
<1>2. Walked(r)
  BY CallWalks, ReadyFacts
<1>3. EffectsPaid'
  BY <1>1, <1>2, ActedPaid
<1>4. /\ runs[r].node = "call" /\ runs[r].step = "act" /\ rows' = rows
      /\ UNCHANGED <<first, fallback>> /\ tally'.calls = tally.calls
  BY <1>1, ActedSpent, ReadyFacts DEF Acted, At, people
<1>5. QED
  BY <1>2, <1>3, <1>4, ElsewherePaid

LEMMA FirePaid ==
  ASSUME Ready, AInv', Broad', NEW r \in Slot, Fire(r)
  PROVE  Paid'
<1>1. Walked(r)
  BY JudgeWalks, ReadyFacts
<1>2. /\ runs[r].node = "wait" /\ runs[r].step = "parked" /\ rows' = rows
      /\ UNCHANGED <<first, fallback, tally>>
  BY DEF Fire, At, people
<1>3. EffectsPaid'
  BY <1>1, <1>2, RunEffects
<1>4. QED
  BY <1>1, <1>2, <1>3, ElsewherePaid

-----------------------------------------------------------------------------
(* At review.                                                              *)

LEMMA RunPaid ==
  ASSUME Ready, AInv', Broad', NEW r \in Slot, Walked(r), fallback' = fallback,
         tally'.effects = tally.effects, CallsPaid', flow.crashes > 0 => Alone',
         flow.crashes > 0 /\ runs'[r].node = "review" /\ runs'[r].step \in {"ask", "save", "judge"}
           => NobodyAsked,
         r \in Handler /\ OpenTodo(r) /\ runs[r].step = "look" => runs'[r] = NoRun
  PROVE  Paid'
<1>1. flow'.crashes > 0 => Single'
  BY RunSingle
<1>2. EffectsPaid'
  BY RunEffects
<1>3. QED
  BY <1>1, <1>2, RunNamed DEF Paid

LEMMA Alongside ==
  ASSUME Ready, NEW r \in Slot, runs[r].node = "review", flow.crashes > 0, NobodyAsked
  PROVE  /\ first.state # "open" /\ "first" \notin asks
         /\ \A q \in Slot : q = r \/ runs[q] = NoRun
         /\ AtWork(runs[r])
<1>1. WithStarter /\ OneReview /\ runs[r] # NoRun
  BY ReadyFacts, NotIdle DEF Single, Alone
<1>2. QED
  BY <1>1 DEF WithStarter, Idle, OneReview

(* The message is still at review, with its row.                           *)
LEMMA StaysAlone ==
  ASSUME Ready, NEW r \in Slot, Walked(r), runs[r].node = "review", runs'[r].node = "review",
         rows' = rows, first' = first, fallback' = fallback,
         flow.crashes > 0 /\ NobodyAsked => AtWork(runs[r])'
  PROVE  ~Lost' /\ (flow.crashes > 0 => Alone')
<1>1. flow' = flow /\ asks' = asks /\ (NobodyAsked' <=> NobodyAsked)
  BY RunNamed DEF Walked
<1>2. ~Lost'
  BY DEF Lost
<1>3. ASSUME flow.crashes > 0, NobodyAsked
      PROVE  WithStarter' /\ OneRow' /\ OneReview'
  <2>1. OneRow
    BY <1>3, ReadyFacts DEF Single, Alone
  <2>2. \A q \in Slot : q = r \/ runs'[q] = NoRun
    BY <1>3, Alongside, WalkAfter, ReadyFacts
  <2>3. WithStarter'
    BY <1>1, <1>3, Alongside DEF WithStarter
  <2>4. OneRow'
    BY <2>1, <2>2 DEF OneRow
  <2>5. ASSUME NEW q \in Slot, runs'[q].node = "review"
        PROVE  q = r
    BY <2>2, <2>5, NotIdle
  <2>6. AtWork(runs[r])'
    BY <1>3
  <2>7. OneReview'
    BY <2>2, <2>5, <2>6 DEF OneReview
  <2>8. QED
    BY <2>3, <2>4, <2>7
<1>4. flow.crashes > 0 => Alone'
  BY <1>1, <1>3 DEF Alone
<1>5. QED
  BY <1>2, <1>4

(* With the task and the data it had.                                      *)
LEMMA StillAtWork ==
  ASSUME NEW r \in Slot, AtWork(runs[r]), rows' = rows, flow' = flow,
         runs'[r].task = runs[r].task, runs[r].step # "in", runs[r].step # "after",
         runs'[r].step # "after" => runs'[r].data = runs[r].data,
         Unaided /\ runs'[r].step \in {"judge", "after"} => Kept(runs[r].task)'
  PROVE  AtWork(runs[r])'
<1>1. PICK run, next : run = runs[r] /\ next = runs'[r]
  OBVIOUS
<1>2. /\ \A y \in RowId : rows'[y] # NoRow => y = next.task
      /\ next.task # 0 /\ rows'[next.task].node = "review"
      /\ next.step # "after" => rows'[next.task].data = next.data
  BY <1>1 DEF AtWork
<1>3. Unaided' /\ next.step \in {"judge", "after"} => Kept(next.task)'
  BY <1>1 DEF Unaided, Kept
<1>4. QED
  BY <1>1, <1>2, <1>3 DEF AtWork

(* What was given to the data of a row, whatever set it out, is kept.      *)
LEMMA KeptAnswer ==
  ASSUME answers \in Seq(Answer), Bare, flow.info = FALSE, NEW k \in DOMAIN answers
  PROVE  \A data : answers[k].to.data = data => answers[k].to = [data |-> data, by |-> "nobody"]
<1>1. answers[k].to \in [data : [form : Nat, ai : Nat, out : Nat], by : Origin]
  <2>1. answers[k] \in Answer
    OBVIOUS
  <2>2. QED
    BY <2>1 DEF Answer
<1>2. answers[k].to.by = "nobody"
  BY DEF Bare
<1>3. QED
  BY <1>1, <1>2

LEMMA ReusedKept ==
  ASSUME NEW run, Unaided, flow \in Flows
  PROVE  Reusable(run) <=> store.out # 0 /\ answers[store.out].to = [data |-> run.data, by |-> "nobody"]
<1>1. flow.info = FALSE
  BY FlowFacts DEF Unaided
<1>2. Payload(run) = [data |-> run.data, by |-> "nobody"]
  BY <1>1 DEF Payload
<1>3. QED
  BY <1>2 DEF Reusable

LEMMA BeforeReview ==
  ASSUME Ready, AInv', Broad', NEW r \in Slot, Before(r), runs[r].node = "review"
  PROVE  Paid'
<1>1. /\ Walked(r) /\ fallback' = fallback /\ first' = first /\ tally' = tally /\ flow' = flow
      /\ store' = store /\ answers' = answers /\ runs[r].step = "in" /\ asks' = asks
  BY BeforeWalks, ReadyFacts DEF Before, people, Walked
<1>2. /\ NobodyAsked' <=> NobodyAsked
      /\ runs[r].task \in RowId \cup {0}
  BY <1>1, RunNamed, RunAtHand, ReadyFacts
<1>3. PICK task \in RowId :
        /\ Entered(r, task)
        /\ \/ Reentry(runs[r]) /\ task = runs[r].task /\ rows' = rows
           \/ /\ ~Reentry(runs[r]) /\ rows[task] = NoRow
              /\ rows' = [rows EXCEPT ![task] = [node |-> "review", data |-> runs[r].data]]
  <2>1. Active /\ Observed("review")
    BY ReadyFacts DEF Observed
  <2>2. CASE Reentry(runs[r])
    BY <1>2, <2>1, <2>2 DEF Before, Reentry
  <2>3. CASE ~Reentry(runs[r])
    BY <2>1, <2>3 DEF Before
  <2>4. QED
    BY <2>2, <2>3
<1>4. /\ runs'[r].node = "review" /\ runs'[r].task = task /\ runs'[r].data = runs[r].data
      /\ runs'[r].by = runs[r].by /\ runs'[r].step = "look"
  BY <1>1, <1>3, EnteredRun, RunsAfter, ReadyFacts
<1>5. ~Lost'
  BY <1>4 DEF Lost
<1>6. MayAsk(runs[r])' => MayAsk(runs[r])
  <2>1. Payload(runs[r])' = Payload(runs[r])
    BY <1>1, <1>4 DEF Payload
  <2>2. Reusable(runs[r])' <=> Reusable(runs[r])
    BY <1>1, <2>1 DEF Reusable
  <2>3. QED
    BY <1>1, <1>2, <1>4, <2>2 DEF MayAsk, Unaided
<1>7. CallsPaid'
  BY <1>1, <1>2, <1>5, <1>6, RunCalls
<1>8. ASSUME flow.crashes > 0, NobodyAsked
      PROVE  WithStarter' /\ OneRow' /\ OneReview'
  <2>1. /\ first.state # "open" /\ "first" \notin asks
        /\ \A q \in Slot : q = r \/ runs[q] = NoRun
        /\ AtWork(runs[r])
    BY <1>8, Alongside
  <2>2. WithStarter'
    BY <1>1, <2>1 DEF WithStarter
  <2>3. \A q \in Slot : q = r \/ runs'[q] = NoRun
    BY <1>1, <2>1, WalkAfter, ReadyFacts
  <2>4. /\ rows'[task].node = "review" /\ rows'[task].data = runs[r].data
        /\ \A y \in RowId : y # task => rows'[y] = NoRow
    <3>1. rows \in [RowId -> Row(answers)]
      BY ReadyFacts DEF AInv, Tables
    <3>2. CASE Reentry(runs[r])
      <4>1. task = runs[r].task /\ rows' = rows /\ task # 0
        BY <1>3, <3>2, SlotsFinite
      <4>2. QED
        BY <1>1, <2>1, <4>1 DEF AtWork
    <3>3. CASE ~Reentry(runs[r])
      <4>1. rows' = [rows EXCEPT ![task] = [node |-> "review", data |-> runs[r].data]]
        BY <1>3, <3>3
      <4>2. runs[r].task = 0
        BY <2>1, <3>3 DEF AtWork, Reentry
      <4>3. \A y \in RowId : rows[y] = NoRow
        BY <2>1, <4>2, SlotsFinite DEF AtWork
      <4>4. QED
        BY <3>1, <4>1, <4>3
    <3>4. QED
      BY <3>2, <3>3
  <2>5. OneRow'
    BY <1>4, <2>3, <2>4, NotIdle DEF OneRow
  <2>6. AtWork(runs[r])'
    BY <1>4, <2>4, SlotsFinite DEF AtWork
  <2>7. \A q \in Slot : runs'[q].node = "review" => q = r
    BY <2>3, NotIdle
  <2>8. OneReview'
    BY <2>3, <2>6, <2>7 DEF OneReview
  <2>9. QED
    BY <2>2, <2>5, <2>8
<1>9. flow.crashes > 0 => Alone'
  BY <1>2, <1>8 DEF Alone
<1>10. QED
  BY <1>1, <1>4, <1>7, <1>9, RunPaid

LEMMA AfterReview ==
  ASSUME Ready, AInv', Broad', Active', NEW r \in Slot, runs[r].node = "review",
         Leaves(r)
  PROVE  Paid'
<1>1. /\ Walked(r) /\ tally' = tally /\ flow' = flow /\ asks' = asks
      /\ After(r) /\ runs[r].step = "after" /\ PassOn(r) /\ Completed(runs[r])
      /\ UNCHANGED people
  BY AfterWalks, ReadyFacts DEF Leaves, Suppressed, After, Finish, AfterFailure, AfterCC, At,
                                Walked, Ended, Active, Observed
<1>2. runs'[r].node = "call"
  BY <1>1, PassOnRun, RunsAfter, ReadyFacts DEF NextNode
<1>3. fallback' = fallback /\ first' = first /\ (NobodyAsked' <=> NobodyAsked)
  BY <1>1, RunNamed DEF people
<1>4. ASSUME flow.crashes > 0, NobodyAsked
      PROVE  /\ WithStarter' /\ \A x \in RowId : rows'[x].node # "review"
             /\ \A q \in Slot : runs'[q].node # "review"
  <2>1. /\ first.state # "open" /\ "first" \notin asks
        /\ \A q \in Slot : q = r \/ runs[q] = NoRun
        /\ AtWork(runs[r])
    BY <1>4, Alongside
  <2>2. \A q \in Slot : runs'[q].node # "review"
    BY <1>1, <1>2, <2>1, WalkAfter, ReadyFacts, NotIdle
  <2>3. rows' = [rows EXCEPT ![runs[r].task] = NoRow]
    BY <1>1, <2>1, ReadyFacts DEF Completed, AtWork
  <2>4. \A x \in RowId : rows'[x].node # "review"
    BY <2>1, <2>3, ReadyFacts, NotIdle DEF AtWork, AInv, Tables
  <2>5. QED
    BY <1>1, <1>3, <2>1, <2>2, <2>4 DEF WithStarter
<1>5. flow.crashes > 0 => Alone'
  BY <1>3, <1>4 DEF Alone, OneRow, OneReview
<1>6. ~Lost'
  BY <1>1, <1>3, <1>4 DEF Lost, Unaided
<1>7. CallsPaid'
  BY <1>1, <1>2, <1>3, <1>6, RunCalls DEF MayAsk
<1>8. QED
  BY <1>1, <1>2, <1>3, <1>5, <1>7, RunPaid

(* The model's answer, what is done without one, and where either leads.   *)

LEMMA TurnPaid ==
  ASSUME Ready, AInv', Broad', NEW r \in Slot, Walked(r), runs[r].node = "review",
         runs'[r].node = "review", rows' = rows, first' = first, fallback' = fallback,
         tally' = tally, MayAsk(runs[r])' => MayAsk(runs[r]),
         flow.crashes > 0 /\ NobodyAsked => AtWork(runs[r])',
         flow.crashes > 0 /\ runs'[r].step \in {"ask", "save", "judge"} => NobodyAsked,
         r \in Handler /\ OpenTodo(r) => runs[r].step # "look"
  PROVE  Paid'
<1>1. ~Lost' /\ (flow.crashes > 0 => Alone')
  BY StaysAlone
<1>2. CallsPaid'
  BY <1>1, RunNamed, RunCalls
<1>3. QED
  BY <1>1, <1>2, RunPaid

LEMMA AskedNobody ==
  ASSUME Ready, NEW r \in Slot, runs[r].node = "review",
         runs[r].step \in {"ask", "save", "judge"}, flow.crashes > 0
  PROVE  NobodyAsked
BY ReadyFacts DEF Single, Handed

(* The model is asked.                                                     *)
LEMMA AskPaid ==
  ASSUME Ready, AInv', Broad', NEW r \in Slot, Walked(r), NobodyAsked' => NobodyAsked,
         MayAsk(runs[r]), ~MayAsk(runs[r])', ~Lost',
         tally'.calls = tally.calls + 1
  PROVE  CallsPaid'
<1>1. Asking' \subseteq Asking /\ r \in Asking /\ r \notin Asking'
  BY RunAsking, ReadyFacts DEF Asking
<1>2. Counts /\ Counts' /\ asks' = asks /\ tally'.forms = tally.forms /\ tally'.again = tally.again
  BY ReadyFacts DEF Broad, Walked, Spent
<1>3. Cardinality(Asking') \in Nat /\ Cardinality(Asking') + 1 <= Cardinality(Asking)
      /\ Cardinality(Asking) \in Nat
  BY <1>1, CountLess, SetsFinite, ReadyFacts
<1>4. One(Lost') = 0 /\ One(Lost) \in {0, 1} /\ One("first" \in asks) \in {0, 1}
  BY DEF One
<1>5. PICK c1, c2, l, a : /\ c1 = Cardinality(Asking) /\ c2 = Cardinality(Asking')
                          /\ l = One(Lost) /\ a = One("first" \in asks)
  OBVIOUS
<1>6. tally.calls + a + c1 + l <= tally.forms + tally.again
  BY <1>5 DEF CallsPaid, Ready, Paid
<1>7. tally'.calls + a + c2 + 0 <= tally'.forms + tally'.again
  BY <1>2, <1>3, <1>4, <1>5, <1>6 DEF Counts
<1>8. QED
  BY <1>2, <1>4, <1>5, <1>7 DEF CallsPaid, One

(* The handlers get the message.                                           *)
LEMMA FallbackNotLost ==
  ASSUME Ready, NEW r \in Slot, NEW data, Fallback(r, data), flow' = flow, flow.handlers # {}
  PROVE  ~NobodyAsked' /\ ~Lost' /\ \A h \in Handler : OpenTodo(h)' => OpenTodo(h) \/ h \in flow.handlers
<1>1. PICK h \in flow.handlers : h \in Handler
  BY FlowFacts, ReadyFacts
<1>2. fallback' = [g \in Handler |-> IF g \in flow.handlers THEN [state |-> "open", data |-> data]
                                                         ELSE fallback[g]]
  BY ReadyFacts DEF Fallback
<1>3. fallback'[h].state = "open"
  BY <1>1, <1>2
<1>4. ~NobodyAsked'
  BY <1>1, <1>3 DEF NobodyAsked
<1>5. QED
  BY <1>2, <1>4 DEF Lost, OpenTodo

LEMMA FallbackPaid ==
  ASSUME Ready, AInv', Broad', NEW r \in Slot, Walked(r), NEW data, Fallback(r, data),
         flow.handlers # {}, runs[r].node = "review", runs[r].step \in {"ask", "judge"},
         tally'.effects = tally.effects, CallsPaid'
  PROVE  Paid'
<1>1. /\ flow' = flow /\ asks' = asks /\ ~NobodyAsked'
      /\ \A h \in Handler : OpenTodo(h)' => OpenTodo(h) \/ h \in flow.handlers
  BY FallbackNotLost DEF Walked
<1>2. runs'[r] = NoRun /\ \A q \in Slot : q # r => runs'[q] = runs[q]
  BY RunsAfter, ReadyFacts DEF Fallback, Stop, Going
<1>3. Named' /\ AskedBack'
  BY <1>1, <1>2, ReadyFacts, SlotsFinite DEF Named, AskedBack
<1>4. flow'.crashes > 0 => Single'
  <2>1. ASSUME flow.crashes > 0
        PROVE  \A q \in Slot : runs'[q] = NoRun
    BY <1>2, <2>1, AskedNobody, Alongside
  <2>2. ASSUME flow.crashes > 0
        PROVE  Handed' /\ Waiting'
    BY <2>1, <2>2, NotIdle, SlotsFinite DEF Handed, Waiting, Upstream
  <2>3. QED
    BY <1>1, <2>2 DEF Single, Alone
<1>5. EffectsPaid'
  <2>1. Calling' \subseteq Calling /\ Bound(runs[r]) /\ ~Bound(runs'[r])
    BY <1>2, WalkCalling, NotIdle, ReadyFacts DEF Bound
  <2>2. Counts /\ Counts' /\ tally'.asked = tally.asked /\ tally'.forced = tally.forced
    BY ReadyFacts DEF Broad, Walked, Spent
  <2>3. PICK c1, c2, h1, h2, a : /\ c1 = Cardinality(Calling) /\ c2 = Cardinality(Calling')
                                 /\ h1 = One(Held) /\ h2 = One(Held') /\ a = Cardinality(asks)
    OBVIOUS
  <2>4. c1 \in Nat /\ c2 \in Nat /\ a \in Nat /\ c2 <= c1
    BY <2>1, <2>3, SetsFinite, CountSub, ReadyFacts
  <2>5. h1 \in {0, 1} /\ h2 \in {0, 1}
    BY <2>3 DEF One
  <2>6. c2 + h2 <= c1 + h1
    <3>1. CASE r \in RowId
      <4>1. r \in Calling /\ r \notin Calling'
        BY <2>1, <3>1 DEF Calling, Bound
      <4>2. c2 + 1 <= c1
        BY <2>1, <2>3, <4>1, SetsFinite, CountLess, ReadyFacts
      <4>3. QED
        BY <2>4, <2>5, <4>2
    <3>2. CASE r \in Handler
      <4>1. Held
        BY <2>1, <3>2 DEF Held
      <4>2. h1 = 1
        BY <2>3, <4>1 DEF One
      <4>3. QED
        BY <2>4, <2>5, <4>2
    <3>3. QED
      BY <3>1, <3>2 DEF Slot
  <2>7. tally.effects + a + c1 + h1 <= tally.asked + tally.forced
    BY <2>3, ReadyFacts DEF EffectsPaid
  <2>8. tally'.effects + a + c2 + h2 <= tally'.asked + tally'.forced
    BY <2>2, <2>4, <2>5, <2>6, <2>7 DEF Counts
  <2>9. QED
    BY <1>1, <2>3, <2>8 DEF EffectsPaid, One
<1>6. QED
  BY <1>3, <1>4, <1>5 DEF Paid

(* The message goes back to the starter: no crash is in store.             *)
LEMMA RejectPaid ==
  ASSUME Ready, AInv', Broad', Active', NEW r \in Slot, Walked(r), NEW data,
         HandleReject(r, data), tally' = tally
  PROVE  Paid'
<1>1. flow.crashes = 0 /\ fallback' = fallback
  BY ReadyFacts, FlowFacts DEF HandleReject, Ended, Active, Tame
<1>2. runs'[r] = NoRun
  BY RunsAfter, ReadyFacts DEF HandleReject, Stop, Going
<1>3. ~Lost'
  BY <1>1 DEF Lost, Unaided, Walked
<1>4. CallsPaid'
  BY <1>1, <1>2, <1>3, RunNamed, RunCalls, NotIdle DEF MayAsk
<1>5. QED
  BY <1>1, <1>2, <1>4, RunPaid, NotIdle

(* The message goes on.                                                    *)
LEMMA PassedRun ==
  ASSUME AInv, NEW r \in Slot, NEW data, NEW verdict, Passed(r, data, verdict)
  PROVE  /\ runs'[r].node = runs[r].node /\ runs'[r].step = "after"
         /\ runs'[r].task = runs[r].task
         /\ UNCHANGED <<status, rows, first, fallback>>
<1>1. PICK run : run = runs[r]
  OBVIOUS
<1>2. run \in Run(answers)
  BY <1>1, RunAtHand
<1>3. PICK next : next = [run EXCEPT !.step = "after", !.data = data, !.verdict = verdict]
  OBVIOUS
<1>4. next.node = run.node /\ next.step = "after" /\ next.task = run.task
  BY <1>2, <1>3 DEF Run
<1>5. runs' = [runs EXCEPT ![r] = next]
  BY <1>1, <1>3 DEF Passed, Going
<1>6. runs'[r] = next
  BY <1>5, RunsAfter
<1>7. QED
  BY <1>1, <1>4, <1>6 DEF Passed, people

LEMMA LookPaid ==
  ASSUME Ready, AInv', Broad', Active', NEW r \in Slot, Look(r)
  PROVE  Paid'
<1>1. /\ Walked(r) /\ runs[r].step = "look" /\ runs[r].node = "review" /\ tally' = tally
      /\ store' = store /\ answers' = answers /\ flow' = flow
  BY LookWalks, ReadyFacts DEF Look, At
<1>2. CASE Said("open") # {} /\ Stop(r) /\ UNCHANGED people
  <2>1. fallback' = fallback /\ runs'[r] = NoRun /\ ~NobodyAsked
    BY <1>2, RunsAfter, ReadyFacts DEF people, Stop, Going, NobodyAsked, Said
  <2>2. NobodyAsked' <=> NobodyAsked
    BY <1>1, <2>1, RunNamed
  <2>3. ~Lost' /\ Alone'
    BY <2>1, <2>2 DEF Lost, Alone
  <2>4. CallsPaid'
    BY <1>1, <2>1, <2>2, <2>3, RunCalls, NotIdle DEF MayAsk
  <2>5. QED
    BY <1>1, <2>1, <2>3, <2>4, RunPaid, NotIdle
<1>3. CASE HandleReject(r, runs[r].data)
  BY <1>1, <1>3, RejectPaid
<1>4. CASE Said("open") = {} /\ Said("approved") # {} /\ Passed(r, runs[r].data, "HUMAN_PASS")
  <2>1. ~NobodyAsked
    BY <1>4 DEF NobodyAsked, Said
  <2>2. /\ runs'[r].node = "review" /\ runs'[r].step = "after" /\ rows' = rows
        /\ first' = first /\ fallback' = fallback
    BY <1>1, <1>4, PassedRun, ReadyFacts
  <2>3. \A h \in Handler : ~OpenTodo(h)
    BY <1>4 DEF Said, OpenTodo
  <2>4. ~MayAsk(runs[r])'
    BY <2>2 DEF MayAsk
  <2>5. QED
    BY <1>1, <2>1, <2>2, <2>3, <2>4, TurnPaid
<1>5. CASE ~Stop(r) /\ \A verdict : ~Passed(r, runs[r].data, verdict)
  <2>1. /\ NobodyAsked /\ UNCHANGED <<status, current, people, rows>>
        /\ runs'[r].node = "review" /\ runs'[r].task = runs[r].task /\ runs'[r].data = runs[r].data
        /\ \/ runs'[r].step = "judge" /\ Reusable(runs[r])
           \/ runs'[r].step = "ask" /\ ~Reusable(runs[r])
    BY <1>5, LookRuns, RunsAfter, ReadyFacts
  <2>2. MayAsk(runs[r])' => MayAsk(runs[r])
    BY <1>1, <2>1 DEF MayAsk
  <2>3. \A h \in Handler : ~OpenTodo(h)
    BY <2>1 DEF NobodyAsked, OpenTodo
  <2>4. ASSUME flow.crashes > 0
        PROVE  AtWork(runs[r])'
    <3>1. AtWork(runs[r])
      BY <1>1, <2>1, <2>4, Alongside
    <3>2. ASSUME Unaided, runs'[r].step = "judge"
          PROVE  Kept(runs[r].task)'
      <4>1. Reusable(runs[r]) /\ rows[runs[r].task].data = runs[r].data
        BY <1>1, <2>1, <3>1, <3>2 DEF AtWork
      <4>2. Kept(runs[r].task)
        BY <3>2, <4>1, ReusedKept, ReadyFacts DEF Kept
      <4>3. QED
        BY <1>1, <2>1, <4>2 DEF Kept
    <3>3. QED
      BY <1>1, <2>1, <3>1, <3>2, StillAtWork
  <2>5. QED
    BY <1>1, <2>1, <2>2, <2>3, <2>4, TurnPaid DEF people
<1>6. CASE /\ Said("open") \cup Said("rejected") \cup Said("approved") = {}
           /\ Going(r, IF Reusable(runs[r]) THEN [runs[r] EXCEPT !.step = "judge", !.answer = store.out]
                                            ELSE [runs[r] EXCEPT !.step = "ask"])
  <2>1. PICK run : run = runs[r]
    OBVIOUS
  <2>2. run \in Run(answers)
    BY <2>1, RunAtHand, ReadyFacts
  <2>3. PICK n1, n2 : n1 = [run EXCEPT !.step = "judge", !.answer = store.out]
                      /\ n2 = [run EXCEPT !.step = "ask"]
    OBVIOUS
  <2>4. n1.step = "judge" /\ n2.step = "ask"
    BY <2>2, <2>3 DEF Run
  <2>5. runs' = [runs EXCEPT ![r] = n1] \/ runs' = [runs EXCEPT ![r] = n2]
    BY <1>6, <2>1, <2>3 DEF Going
  <2>6. runs'[r] = n1 \/ runs'[r] = n2
    BY <2>5, RunsAfter, ReadyFacts
  <2>7. runs'[r].step \in {"judge", "ask"}
    BY <2>4, <2>6
  <2>8. ~Stop(r)
    <3>1. ASSUME Stop(r)
          PROVE  FALSE
      <4>1. runs'[r] = NoRun
        BY <3>1, RunsAfter, ReadyFacts DEF Stop, Going
      <4>2. QED
        BY <2>7, <4>1, NotIdle
    <3>2. QED
      BY <3>1
  <2>9. \A verdict : ~Passed(r, runs[r].data, verdict)
    BY <2>7, PassedRun, ReadyFacts
  <2>10. QED
    BY <1>5, <2>8, <2>9
<1>7. QED
  <2>1. \/ Said("open") # {} /\ Stop(r) /\ UNCHANGED <<status, current, people, rows>>
        \/ HandleReject(r, runs[r].data)
        \/ /\ Said("open") \cup Said("rejected") = {} /\ Said("approved") # {}
           /\ Passed(r, runs[r].data, "HUMAN_PASS")
        \/ /\ Said("open") \cup Said("rejected") \cup Said("approved") = {}
           /\ Going(r, IF Reusable(runs[r]) THEN [runs[r] EXCEPT !.step = "judge", !.answer = store.out]
                                            ELSE [runs[r] EXCEPT !.step = "ask"])
    BY DEF Look
  <2>2. QED
    BY <1>2, <1>3, <1>4, <1>6, <2>1

LEMMA AnsweredPaid ==
  ASSUME Ready, AInv', Broad', NEW r \in Slot, NEW output \in Outputs, Answered(r, output)
  PROVE  Paid'
<1>1. /\ Walked(r) /\ runs[r].step = "ask" /\ runs[r].node = "review" /\ flow' = flow
      /\ rows' = rows /\ first' = first /\ fallback' = fallback
      /\ tally'.calls = tally.calls + 1 /\ tally'.effects = tally.effects
  BY AskWalks, CallSpent, ReadyFacts DEF Answered, At, people
<1>2. /\ runs'[r].node = "review" /\ runs'[r].step = "save" /\ runs'[r].task = runs[r].task
      /\ runs'[r].data = runs[r].data
  <2>1. PICK run, answer : run = runs[r] /\ answer = Len(answers')
    OBVIOUS
  <2>2. PICK next : next = [run EXCEPT !.step = "save", !.answer = answer]
    OBVIOUS
  <2>3. run \in Run(answers)
    BY <2>1, RunAtHand, ReadyFacts
  <2>4. /\ next.node = run.node /\ next.step = "save" /\ next.task = run.task /\ next.data = run.data
    BY <2>2, <2>3 DEF Run
  <2>5. runs' = [runs EXCEPT ![r] = next]
    BY <2>1, <2>2 DEF Answered, Going
  <2>6. runs'[r] = next
    BY <2>5, RunsAfter, ReadyFacts
  <2>7. QED
    BY <1>1, <2>1, <2>4, <2>6
<1>3. flow.crashes > 0 /\ NobodyAsked => AtWork(runs[r])'
  BY <1>1, <1>2, Alongside, StillAtWork
<1>4. ~Lost' /\ (flow.crashes > 0 => Alone')
  BY <1>1, <1>2, <1>3, StaysAlone
<1>5. CallsPaid'
  <2>1. MayAsk(runs[r]) /\ ~MayAsk(runs[r])'
    BY <1>1, <1>2 DEF MayAsk
  <2>2. QED
    BY <1>1, <1>4, <2>1, RunNamed, AskPaid
<1>6. QED
  BY <1>1, <1>4, <1>5, AskedNobody, RunPaid

LEMMA NoAnswerPaid ==
  ASSUME Ready, AInv', Broad', NEW r \in Slot, NoAnswer(r)
  PROVE  Paid'
<1>1. /\ Walked(r) /\ runs[r].step = "ask" /\ runs[r].node = "review" /\ flow' = flow
      /\ tally'.calls = tally.calls + 1 /\ tally'.effects = tally.effects /\ MayAsk(runs[r])
  BY AskWalks, CallSpent, ReadyFacts DEF NoAnswer, At, MayAsk
<1>2. CASE flow.handlers # {} /\ Fallback(r, runs[r].data)
  <2>1. ~NobodyAsked' /\ ~Lost'
    BY <1>1, <1>2, FallbackNotLost
  <2>2. ~MayAsk(runs[r])'
    <3>1. runs'[r] = NoRun
      BY <1>2, RunsAfter, ReadyFacts DEF Fallback, Stop, Going
    <3>2. QED
      BY <3>1, NotIdle DEF MayAsk
  <2>3. CallsPaid'
    BY <1>1, <2>1, <2>2, AskPaid
  <2>4. QED
    BY <1>1, <1>2, <2>3, FallbackPaid
<1>3. CASE Goto(r, "failed") /\ UNCHANGED <<status, current, people, rows>>
  <2>1. rows' = rows /\ first' = first /\ fallback' = fallback
    BY <1>3 DEF people
  <2>2. /\ runs'[r].node = "review" /\ runs'[r].step = "failed" /\ runs'[r].task = runs[r].task
        /\ runs'[r].data = runs[r].data
    <3>1. PICK run : run = runs[r]
      OBVIOUS
    <3>2. PICK next : next = [run EXCEPT !.step = "failed"]
      OBVIOUS
    <3>3. run \in Run(answers)
      BY <3>1, RunAtHand, ReadyFacts
    <3>4. /\ next.node = run.node /\ next.step = "failed" /\ next.task = run.task /\ next.data = run.data
      BY <3>2, <3>3 DEF Run
    <3>5. runs' = [runs EXCEPT ![r] = next]
      BY <1>3, <3>1, <3>2 DEF Goto, Going
    <3>6. runs'[r] = next
      BY <3>5, RunsAfter, ReadyFacts
    <3>7. QED
      BY <1>1, <3>1, <3>4, <3>6
  <2>3. flow.crashes > 0 /\ NobodyAsked => AtWork(runs[r])'
    BY <1>1, <2>1, <2>2, Alongside, StillAtWork
  <2>4. ~Lost' /\ (flow.crashes > 0 => Alone')
    BY <1>1, <2>1, <2>2, <2>3, StaysAlone
  <2>5. CallsPaid'
    <3>1. ~MayAsk(runs[r])'
      BY <2>2 DEF MayAsk
    <3>2. QED
      BY <1>1, <2>1, <2>4, <3>1, RunNamed, AskPaid
  <2>6. QED
    BY <1>1, <2>1, <2>2, <2>4, <2>5, RunPaid
<1>4. QED
  BY <1>2, <1>3 DEF NoAnswer

(* The answer is kept with the data of the row it was given to.            *)
LEMMA SavePaid ==
  ASSUME Ready, AInv', Broad', NEW r \in Slot, Save(r)
  PROVE  Paid'
<1>1. /\ Walked(r) /\ runs[r].step = "save" /\ runs[r].node = "review" /\ flow' = flow
      /\ rows' = rows /\ first' = first /\ fallback' = fallback /\ tally' = tally
      /\ answers' = answers
  BY JudgeWalks, ReadyFacts DEF Save, At, people
<1>2. PICK run : run = runs[r]
  OBVIOUS
<1>3. run \in Run(answers) /\ Judged(run, answers) /\ answers \in Seq(Answer)
  BY <1>2, RunAtHand, ReadyFacts DEF Sound, AInv
<1>4. /\ runs'[r].node = "review" /\ runs'[r].step = "judge" /\ runs'[r].task = run.task
      /\ runs'[r].data = run.data
  <2>1. PICK next : next = [run EXCEPT !.step = "judge"]
    OBVIOUS
  <2>2. next.node = run.node /\ next.step = "judge" /\ next.task = run.task /\ next.data = run.data
    BY <1>3, <2>1 DEF Run
  <2>3. runs' = [runs EXCEPT ![r] = next]
    BY <1>2, <2>1 DEF Save, Goto, Going
  <2>4. runs'[r] = next
    BY <2>3, RunsAfter, ReadyFacts
  <2>5. QED
    BY <1>1, <1>2, <2>2, <2>4
<1>5. store'.out = run.answer
  <2>1. store' = [store EXCEPT !.out = run.answer] /\ store \in Known(answers)
    BY <1>2, ReadyFacts DEF Save, Saved, AInv, Tables
  <2>2. PICK answer, old : answer = run.answer /\ old = store
    OBVIOUS
  <2>3. [old EXCEPT !.out = answer].out = answer
    BY <2>1, <2>2 DEF Known
  <2>4. QED
    BY <2>1, <2>2, <2>3
<1>6. ASSUME flow.crashes > 0, NobodyAsked
      PROVE  AtWork(runs[r])'
  <2>1. AtWork(run)
    BY <1>1, <1>2, <1>6, Alongside
  <2>2. ASSUME Unaided
        PROVE  Kept(run.task)'
    <3>1. run.answer # 0 /\ answers[run.answer].to.data = run.data
      BY <1>1, <1>2, <1>3 DEF Judged
    <3>2. run.answer \in DOMAIN answers
      BY <1>3, <3>1 DEF Run
    <3>3. flow.info = FALSE
      BY <2>2, FlowFacts, ReadyFacts DEF Unaided
    <3>4. answers[run.answer].to = [data |-> run.data, by |-> "nobody"]
      BY <1>3, <3>1, <3>2, <3>3, KeptAnswer, ReadyFacts
    <3>5. rows[run.task].data = run.data
      BY <1>1, <1>2, <2>1 DEF AtWork
    <3>6. QED
      BY <1>1, <1>5, <3>1, <3>4, <3>5 DEF Kept
  <2>3. QED
    BY <1>1, <1>2, <1>4, <2>1, <2>2, StillAtWork
<1>7. flow.crashes > 0 => NobodyAsked
  BY <1>1, AskedNobody
<1>8. ~MayAsk(runs[r])'
  BY <1>4 DEF MayAsk
<1>9. QED
  BY <1>1, <1>4, <1>6, <1>7, <1>8, TurnPaid

LEMMA JudgePaid ==
  ASSUME Ready, AInv', Broad', Active', NEW r \in Slot, Judge(r)
  PROVE  Paid'
<1>1. /\ Walked(r) /\ runs[r].step = "judge" /\ runs[r].node = "review" /\ flow' = flow
      /\ tally' = tally /\ store' = store /\ answers' = answers
  BY JudgeWalks, ReadyFacts DEF Judge, At
<1>2. ASSUME NEW data, NEW verdict, Passed(r, data, verdict)
      PROVE  Paid'
  <2>1. /\ runs'[r].node = "review" /\ runs'[r].step = "after" /\ runs'[r].task = runs[r].task
        /\ rows' = rows /\ first' = first /\ fallback' = fallback
    BY <1>1, <1>2, PassedRun, ReadyFacts
  <2>2. flow.crashes > 0 /\ NobodyAsked => AtWork(runs[r])'
    <3>1. ASSUME flow.crashes > 0, NobodyAsked
          PROVE  AtWork(runs[r])'
      <4>1. AtWork(runs[r])
        BY <1>1, <3>1, Alongside
      <4>2. Unaided => Kept(runs[r].task)'
        BY <1>1, <2>1, <4>1 DEF AtWork, Kept
      <4>3. QED
        BY <1>1, <2>1, <4>1, <4>2, StillAtWork
    <3>2. QED
      BY <3>1
  <2>3. ~MayAsk(runs[r])'
    BY <2>1 DEF MayAsk
  <2>4. QED
    BY <1>1, <2>1, <2>2, <2>3, TurnPaid
<1>3. ASSUME NEW data, HandleReject(r, data)
      PROVE  Paid'
  BY <1>1, <1>3, RejectPaid
<1>4. ASSUME NEW data, flow.handlers # {}, Fallback(r, data)
      PROVE  Paid'
  <2>1. ~NobodyAsked' /\ ~Lost'
    BY <1>1, <1>4, FallbackNotLost
  <2>2. ~MayAsk(runs[r])'
    <3>1. runs'[r] = NoRun
      BY <1>4, RunsAfter, ReadyFacts DEF Fallback, Stop, Going
    <3>2. QED
      BY <3>1, NotIdle DEF MayAsk
  <2>3. CallsPaid'
    BY <1>1, <2>1, <2>2, RunCalls
  <2>4. QED
    BY <1>1, <1>4, <2>3, FallbackPaid
<1>5. \E data : \/ \E verdict : Passed(r, data, verdict)
                \/ HandleReject(r, data)
                \/ flow.handlers # {} /\ Fallback(r, data)
  BY DEF Judge, HandleUnresolved
<1>6. QED
  BY <1>2, <1>3, <1>4, <1>5

LEMMA RunStepPaid ==
  ASSUME Ready, AInv', Broad', Active', NEW r \in Slot, RunStep(r)
  PROVE  Paid'
<1>1. CASE Before(r)
  BY <1>1, BeforeReview, BeforeElsewhere
<1>2. CASE Review(r)
  BY <1>2, LookPaid, AnsweredPaid, NoAnswerPaid, SavePaid, JudgePaid DEF Review
<1>3. CASE Call(r)
  BY <1>3, CallPaid
<1>4. CASE Fire(r)
  BY <1>4, FirePaid
<1>5. CASE Leaves(r)
  BY <1>5, AfterReview, AfterElsewhere
<1>6. QED
  BY <1>1, <1>2, <1>3, <1>4, <1>5 DEF RunStep, Aspect, Leaves

-----------------------------------------------------------------------------
(* A message set on its way.                                               *)

LEMMA LaunchedRun ==
  ASSUME AInv, HasFree, NEW next, runs' = Launched(next)
  PROVE  \E s \in RowId : /\ s \in Slot /\ s \notin Handler /\ runs[s] = NoRun /\ runs'[s] = next
                          /\ \A q \in Slot : q # s => runs'[q] = runs[q]
<1>1. FreeSlot \in RowId /\ runs[FreeSlot] = NoRun
  BY DEF HasFree, FreeSlot
<1>2. PICK s \in RowId : s = FreeSlot
  BY <1>1
<1>3. runs' = [runs EXCEPT ![s] = next] /\ s \in Slot /\ s \notin Handler
  BY <1>2, SlotsFinite DEF Launched
<1>4. runs'[s] = next /\ \A q \in Slot : q # s => runs'[q] = runs[q]
  BY <1>3, RunsAfter
<1>5. QED
  BY <1>1, <1>2, <1>3, <1>4

LEMMA MessageIs ==
  ASSUME AInv, NEW node \in Place, NEW data \in Known(answers), NEW by \in Origin,
         NEW m, m = Message(node, data, by)
  PROVE  /\ m \in Run(answers)
         /\ m.node = node /\ m.step = "in" /\ m.data = data /\ m.by = by
         /\ m.task = 0 /\ m.gate
<1>1. PICK idle : idle = NoRun
  OBVIOUS
<1>2. idle \in Run(answers) /\ idle.task = 0
  <2>1. idle \in Run(answers)
    BY <1>1, NothingKnown DEF AInv, Sound
  <2>2. idle.task = 0
    BY <1>1 DEF NoRun
  <2>3. QED
    BY <2>1, <2>2
<1>3. PICK next : next = [idle EXCEPT !.node = node, !.step = "in", !.data = data,
                                      !.by = by, !.gate = TRUE]
  OBVIOUS
<1>4. "in" \in Step
  BY DEF Step
<1>5. next \in Run(answers) /\ next.node = node /\ next.step = "in" /\ next.data = data
      /\ next.by = by /\ next.task = 0 /\ next.gate
  BY <1>2, <1>3, <1>4 DEF Run
<1>6. m = next
  BY <1>1, <1>3 DEF Message
<1>7. QED
  BY <1>5, <1>6

LEMMA RestoredIs ==
  ASSUME AInv, NEW node \in Place, NEW data \in Known(answers), NEW x \in RowId \cup {0},
         NEW run, run = Restored(node, data, x)
  PROVE  /\ run \in Run(answers)
         /\ run.node = node /\ run.step = "in" /\ run.data = data /\ run.by = "restart"
         /\ run.task = x /\ run.gate
<1>1. PICK fresh, by : by \in Origin /\ by = "restart" /\ fresh = Message(node, data, by)
  BY DEF Origin
<1>2. /\ fresh \in Run(answers) /\ fresh.node = node /\ fresh.step = "in" /\ fresh.data = data
      /\ fresh.by = by /\ fresh.gate
  BY <1>1, MessageIs
<1>3. run = [fresh EXCEPT !.task = x]
  BY <1>1 DEF Restored
<1>4. QED
  BY <1>1, <1>2, <1>3 DEF Run

(* No drive holds the gate: nothing is at review or at the call.           *)
LEMMA Ungated ==
  ASSUME AInv, Gates, ~Gated
  PROVE  /\ \A r \in Slot : ~Upstream(runs[r]) /\ ~Bound(runs[r]) /\ ~MayAsk(runs[r])
         /\ Asking = {} /\ Calling = {} /\ Cardinality(Asking) = 0 /\ Cardinality(Calling) = 0
<1>1. \A r \in Slot : ~Upstream(runs[r])
  BY DEF Gates, Gated
<1>2. \A r \in Slot : ~Bound(runs[r]) /\ ~MayAsk(runs[r])
  BY <1>1 DEF Upstream, Bound, MayAsk
<1>3. Asking = {} /\ Calling = {}
  BY <1>2, SlotsFinite DEF Asking, Calling
<1>4. QED
  BY <1>1, <1>2, <1>3, FS_EmptySet

(* One that may be asked about, or that nobody was to be.                  *)
LEMMA OneMore ==
  ASSUME NEW x, NEW T \in SUBSET {x}
  PROVE  Cardinality(T) \in {0, 1}
<1>1. Cardinality({}) = 0 /\ Cardinality({x}) = 1
  BY FS_EmptySet, FS_Singleton
<1>2. T = {} \/ T = {x}
  OBVIOUS
<1>3. QED
  BY <1>1, <1>2

-----------------------------------------------------------------------------
(* People answer.                                                          *)

LEMMA SubmitPaid ==
  ASSUME Ready, AInv', Broad', Submit
  PROVE  Paid'
<1>1. /\ UNCHANGED <<flow, fallback, rows, store, runs, answers>>
      /\ asks' = asks \cup {"first"} /\ asks \in SUBSET ({"first"} \cup Handler)
      /\ first'.state = "answered" /\ first.state = "open"
  BY ReadyFacts DEF Submit, AInv, Settings
<1>2. /\ Counts /\ Counts' /\ tally'.calls = tally.calls /\ tally'.effects = tally.effects
      /\ tally'.forms = tally.forms + 1 /\ tally'.asked = tally.asked + 1
      /\ tally'.again = tally.again /\ tally'.forced = tally.forced
  BY ReadyFacts DEF Submit, Broad, Counts
<1>3. /\ NobodyAsked' <=> NobodyAsked
      /\ Lost' <=> Lost
      /\ Held' <=> Held
      /\ Asking' = Asking /\ Calling' = Calling
  BY <1>1 DEF NobodyAsked, Lost, Unaided, Kept, Held, OpenTodo, Bound, Asking, MayAsk, Reusable,
              Payload, Calling
<1>4. CallsPaid'
  <2>1. PICK a1, a2, l, c : /\ a1 = One("first" \in asks) /\ a2 = One("first" \in asks')
                            /\ l = One(Lost) /\ c = Cardinality(Asking)
    OBVIOUS
  <2>2. a1 \in {0, 1} /\ a2 \in {0, 1} /\ l \in {0, 1} /\ c \in Nat
    BY <2>1, SetsFinite, ReadyFacts DEF One
  <2>3. tally.calls + a1 + c + l <= tally.forms + tally.again
    BY <2>1, ReadyFacts DEF CallsPaid
  <2>4. tally'.calls + a2 + c + l <= tally'.forms + tally'.again
    BY <1>2, <2>2, <2>3 DEF Counts
  <2>5. QED
    BY <1>3, <2>1, <2>4 DEF CallsPaid, One
<1>5. EffectsPaid'
  <2>1. PICK a1, a2, h, c : /\ a1 = Cardinality(asks) /\ a2 = Cardinality(asks')
                            /\ h = One(Held) /\ c = Cardinality(Calling)
    OBVIOUS
  <2>2. a1 \in Nat /\ a2 \in Nat /\ a2 <= a1 + 1 /\ h \in {0, 1} /\ c \in Nat
    BY <1>1, <2>1, SetsFinite, CountMore, ReadyFacts DEF One
  <2>3. tally.effects + a1 + c + h <= tally.asked + tally.forced
    BY <2>1, ReadyFacts DEF EffectsPaid
  <2>4. tally'.effects + a2 + c + h <= tally'.asked + tally'.forced
    BY <1>2, <2>2, <2>3 DEF Counts
  <2>5. QED
    BY <1>3, <2>1, <2>4 DEF EffectsPaid, One
<1>6. Named' /\ AskedBack'
  BY <1>1, <1>3, NameAssumption, ReadyFacts DEF Named, OpenTodo, AskedBack
<1>7. flow'.crashes > 0 => Single'
  <2>1. ASSUME flow.crashes > 0
        PROVE  Alone' /\ Handed' /\ Waiting'
    <3>1. Alone /\ Handed /\ Waiting
      BY <2>1, ReadyFacts DEF Single
    <3>2. Handed' /\ Waiting'
      BY <1>1, <1>3, <3>1 DEF Handed, Waiting, OpenTodo, Upstream
    <3>3. ASSUME NobodyAsked
          PROVE  WithStarter' /\ OneRow' /\ OneReview'
      <4>1. Idle /\ OneRow /\ OneReview
        BY <1>1, <3>1, <3>3 DEF Alone, WithStarter
      <4>2. WithStarter'
        BY <1>1, <4>1 DEF WithStarter, Idle
      <4>3. OneRow' /\ OneReview'
        BY <1>1, <4>1, NotIdle DEF OneRow, OneReview, Idle
      <4>4. QED
        BY <4>2, <4>3
    <3>4. QED
      BY <1>3, <3>2, <3>3 DEF Alone
  <2>2. QED
    BY <1>1, <2>1 DEF Single
<1>8. QED
  BY <1>4, <1>5, <1>6, <1>7 DEF Paid

LEMMA DecidePaid ==
  ASSUME Ready, AInv', Broad', NEW h \in Handler, NEW verdict \in {"approved", "rejected"},
         Decide(h, verdict)
  PROVE  Paid'
<1>1. /\ UNCHANGED <<flow, first, rows, store, runs, answers>> /\ asks' = asks \cup {h}
      /\ OpenTodo(h)
  BY DEF Decide
<1>2. /\ Counts /\ Counts' /\ tally'.calls = tally.calls /\ tally'.effects = tally.effects
      /\ tally'.forms = tally.forms /\ tally'.asked = tally.asked + 1
      /\ tally'.again = tally.again /\ tally'.forced = tally.forced
  BY ReadyFacts DEF Decide, Broad, Counts
<1>3. fallback'[h].state = verdict /\ \A g \in Handler : g # h => fallback'[g] = fallback[g]
  <2>1. PICK todo : todo = [fallback[h] EXCEPT !.state = verdict]
    OBVIOUS
  <2>2. todo.state = verdict
    BY <2>1, ReadyFacts DEF AInv, Tables, Todo
  <2>3. fallback' = [fallback EXCEPT ![h] = todo] /\ fallback \in [Handler -> Todo(answers)]
    BY <2>1, ReadyFacts DEF Decide, AInv, Tables
  <2>4. QED
    BY <2>2, <2>3
<1>4. ~NobodyAsked /\ ~NobodyAsked' /\ ~Lost' /\ \A g \in Handler : OpenTodo(g)' => OpenTodo(g)
  BY <1>1, <1>3 DEF NobodyAsked, OpenTodo, Lost
<1>5. Asking' = Asking /\ Calling' = Calling /\ (Held' => Held)
  BY <1>1, <1>4 DEF Asking, MayAsk, Calling, Held, Bound
<1>6. CallsPaid'
  <2>1. "first" \in asks' => "first" \in asks
    BY <1>1, NameAssumption
  <2>2. tally'.forms >= tally.forms /\ tally'.again >= tally.again
    BY <1>2 DEF Counts
  <2>3. QED
    BY <1>2, <1>4, <1>5, <2>1, <2>2, CallsKept, ReadyFacts
<1>7. EffectsPaid'
  <2>1. PICK a1, a2, h1, h2, c : /\ a1 = Cardinality(asks) /\ a2 = Cardinality(asks')
                                 /\ h1 = One(Held) /\ h2 = One(Held') /\ c = Cardinality(Calling)
    OBVIOUS
  <2>2. a1 \in Nat /\ a2 \in Nat /\ a2 <= a1 + 1 /\ c \in Nat
    BY <1>1, <2>1, SetsFinite, CountMore, ReadyFacts
  <2>3. h1 \in {0, 1} /\ h2 \in {0, 1} /\ h2 <= h1
    BY <1>5, <2>1 DEF One
  <2>4. tally.effects + a1 + c + h1 <= tally.asked + tally.forced
    BY <2>1, ReadyFacts DEF EffectsPaid
  <2>5. tally'.effects + a2 + c + h2 <= tally'.asked + tally'.forced
    BY <1>2, <2>2, <2>3, <2>4 DEF Counts
  <2>6. QED
    BY <1>5, <2>1, <2>5 DEF EffectsPaid, One
<1>8. Named' /\ AskedBack'
  BY <1>1, <1>4, ReadyFacts DEF Named, AskedBack
<1>9. flow'.crashes > 0 => Single'
  BY <1>1, <1>4, ReadyFacts DEF Single, Alone, Handed, Waiting, Upstream
<1>10. QED
  BY <1>6, <1>7, <1>8, <1>9 DEF Paid

(* The drive that was asked for sets out.                                  *)
LEMMA ExecuteNextPaid ==
  ASSUME Ready, AInv', Broad', NEW a \in asks, ExecuteNext(a)
  PROVE  Paid'
<1>1. /\ UNCHANGED <<flow, first, fallback, rows, store, tally, answers>> /\ asks' = asks \ {a}
      /\ a \in {"first"} \cup Handler /\ ~Gated /\ HasFree
  BY ReadyFacts DEF ExecuteNext, people, AInv, Settings
<1>2. PICK data \in Known(answers) : runs' = Launched(Message("review", data, a))
  <2>1. PICK data : data = IF a = "first" THEN first.data ELSE fallback[a].data
    OBVIOUS
  <2>2. data \in Known(answers)
    BY <1>1, <2>1, ReadyFacts DEF AInv, Tables, Todo
  <2>3. runs' = Launched(Message("review", data, a))
    BY <2>1, ReadyFacts DEF ExecuteNext
  <2>4. QED
    BY <2>2, <2>3
<1>3. PICK s \in RowId :
        /\ s \in Slot /\ s \notin Handler /\ runs[s] = NoRun
        /\ runs'[s].node = "review" /\ runs'[s].step = "in" /\ runs'[s].task = 0
        /\ \A q \in Slot : q # s => runs'[q] = runs[q]
  <2>1. a \in Origin /\ \E next : next = Message("review", data, a)
    BY <1>1 DEF Origin
  <2> PICK next : next = Message("review", data, a)
    BY <2>1
  <2>2. next.node = "review" /\ next.step = "in" /\ next.task = 0
    <3>1. PICK node : node = "review" /\ node \in Place
      BY DEF Place
    <3>2. AInv /\ next = Message(node, data, a) /\ a \in Origin /\ data \in Known(answers)
      BY <1>2, <2>1, <3>1, ReadyFacts
    <3>3. next.node = node /\ next.step = "in" /\ next.task = 0
      BY <3>1, <3>2, MessageIs
    <3>4. QED
      BY <3>1, <3>3
  <2>3. \E s \in RowId : /\ s \in Slot /\ s \notin Handler /\ runs[s] = NoRun /\ runs'[s] = next
                         /\ \A q \in Slot : q # s => runs'[q] = runs[q]
    BY <1>1, <1>2, <2>1, LaunchedRun, ReadyFacts
  <2>4. QED
    BY <2>2, <2>3
<1>4. /\ NobodyAsked' <=> NobodyAsked
      /\ ~Lost'
      /\ a # "first" => ~NobodyAsked
  BY <1>1, <1>3, ReadyFacts DEF NobodyAsked, Lost, AskedBack
<1>5. /\ \A r \in Slot : ~Upstream(runs[r]) /\ ~Bound(runs[r]) /\ ~MayAsk(runs[r])
      /\ Cardinality(Asking) = 0 /\ Cardinality(Calling) = 0
  BY <1>1, Ungated, ReadyFacts
<1>6. Calling' \in SUBSET {s} /\ Asking' \in SUBSET {s} /\ (a # "first" => Asking' = {})
  <2>1. ASSUME NEW q \in Slot, q # s
        PROVE  ~Bound(runs'[q]) /\ ~MayAsk(runs[q])'
    BY <1>3, <1>5, <2>1 DEF Upstream, MayAsk, Bound
  <2>2. a # "first" => ~MayAsk(runs[s])'
    BY <1>3, <1>4 DEF MayAsk
  <2>3. Calling' = {r \in RowId : Bound(runs'[r])} /\ Asking' = {r \in Slot : MayAsk(runs[r])'}
    BY DEF Calling, Asking, Bound
  <2>4. QED
    BY <2>1, <2>2, <2>3, SlotsFinite
<1>7. Held' <=> Held
  BY <1>1, <1>3, SlotsFinite DEF Held, OpenTodo, Bound
<1>8. Counts
  BY ReadyFacts
<1>9. CallsPaid'
  <2>1. PICK a1, a2, l, c : /\ a1 = One("first" \in asks) /\ a2 = One("first" \in asks')
                            /\ l = One(Lost) /\ c = Cardinality(Asking')
    OBVIOUS
  <2>2. a1 \in {0, 1} /\ a2 \in {0, 1} /\ l \in {0, 1} /\ c \in {0, 1} /\ One(Lost') = 0
    BY <1>4, <1>6, <2>1, OneMore DEF One
  <2>3. a2 + c <= a1
    <3>1. CASE a = "first"
      BY <1>1, <2>1, <2>2, <3>1 DEF One
    <3>2. CASE a # "first"
      <4>1. c = 0
        BY <1>6, <2>1, <3>2, FS_EmptySet
      <4>2. a2 <= a1
        BY <1>1, <2>1, <2>2, <3>2 DEF One
      <4>3. QED
        BY <2>2, <4>1, <4>2
    <3>3. QED
      BY <3>1, <3>2
  <2>4. tally.calls + a1 + 0 + l <= tally.forms + tally.again
    BY <1>5, <2>1, ReadyFacts DEF CallsPaid
  <2>5. tally.calls + a2 + c + 0 <= tally.forms + tally.again
    BY <1>8, <2>2, <2>3, <2>4 DEF Counts
  <2>6. QED
    BY <1>1, <2>1, <2>2, <2>5 DEF CallsPaid, One
<1>10. EffectsPaid'
  <2>1. PICK a1, a2, h, c : /\ a1 = Cardinality(asks) /\ a2 = Cardinality(asks')
                            /\ h = One(Held) /\ c = Cardinality(Calling')
    OBVIOUS
  <2>2. a1 \in Nat /\ a2 \in Nat /\ a2 + 1 <= a1 /\ h \in {0, 1} /\ c \in {0, 1}
    <3>1. asks' \in SUBSET asks /\ a \notin asks' /\ IsFiniteSet(asks)
      BY <1>1, SetsFinite, ReadyFacts
    <3>2. a1 \in Nat /\ a2 \in Nat /\ a2 + 1 <= a1
      BY <2>1, <3>1, CountLess, SetsFinite, ReadyFacts
    <3>3. QED
      BY <1>6, <2>1, <3>2, OneMore DEF One
  <2>3. tally.effects + a1 + 0 + h <= tally.asked + tally.forced
    BY <1>5, <2>1, ReadyFacts DEF EffectsPaid
  <2>4. tally.effects + a2 + c + h <= tally.asked + tally.forced
    BY <1>8, <2>2, <2>3 DEF Counts
  <2>5. QED
    BY <1>1, <1>7, <2>1, <2>4 DEF EffectsPaid, One
<1>11. Named' /\ AskedBack'
  BY <1>1, <1>3, <1>4, SlotsFinite, ReadyFacts DEF Named, OpenTodo, AskedBack
<1>12. flow'.crashes > 0 => Single'
  <2>1. ASSUME flow.crashes > 0
        PROVE  Alone' /\ Handed' /\ Waiting'
    <3>1. Alone /\ Handed /\ Waiting
      BY <2>1, ReadyFacts DEF Single
    <3>2. Handed'
      BY <1>3, <1>4, <3>1 DEF Handed
    <3>3. Waiting'
      BY <1>1, <1>3, <3>1, SlotsFinite DEF Waiting, OpenTodo, Upstream
    <3>4. ASSUME NobodyAsked
          PROVE  WithStarter' /\ OneRow' /\ OneReview'
      <4>1. /\ \A r \in Slot : runs[r] = NoRun
            /\ \A x \in RowId : rows[x] = NoRow
            /\ first.state # "open" /\ "first" \notin asks'
        BY <1>1, <1>4, <3>1, <3>4 DEF Alone, WithStarter, Idle
      <4>2. WithStarter' /\ OneRow'
        BY <1>1, <4>1, NotIdle DEF WithStarter, OneRow
      <4>3. AtWork(runs[s])'
        BY <1>1, <1>3, <4>1 DEF AtWork
      <4>4. \A q \in Slot : q = s \/ runs'[q] = NoRun
        BY <1>3, <4>1
      <4>5. OneReview'
        BY <4>3, <4>4, NotIdle DEF OneReview
      <4>6. QED
        BY <4>2, <4>5
    <3>5. QED
      BY <1>4, <3>2, <3>3, <3>4 DEF Alone
  <2>2. QED
    BY <1>1, <2>1 DEF Single
<1>13. QED
  BY <1>9, <1>10, <1>11, <1>12 DEF Paid

-----------------------------------------------------------------------------
(* The crash: the call that was not kept, and the row whose model was not  *)
(* asked yet or whose answer was not kept.                                 *)

LEMMA LostBefore ==
  ASSUME Ready, flow.crashes > 0, Unaided, NobodyAsked,
         NEW x \in RowId, rows[x].node = "review", ~Kept(x)
  PROVE  \/ Lost
         \/ \E r \in Slot : \/ MayAsk(runs[r])
                            \/ At(r, "review", "save") \/ At(r, "review", "failed")
<1>1. CASE \A r \in Slot : runs[r].node # "review"
  BY <1>1 DEF Lost
<1>2. CASE \E r \in Slot : runs[r].node = "review"
  <2>1. PICK r \in Slot : runs[r].node = "review"
    BY <1>2
  <2>2. AtWork(runs[r]) /\ runs[r].step \in ReviewStep
    BY <2>1, Alongside, ReadyFacts DEF Gates
  <2>3. runs[r].task = x /\ runs[r].task # 0
    BY <2>2, SlotsFinite, NotIdle DEF AtWork
  <2>4. runs[r].step \notin {"judge", "after"}
    BY <2>2, <2>3 DEF AtWork
  <2>5. CASE runs[r].step \in {"save", "failed"}
    BY <2>1, <2>5 DEF At
  <2>6. CASE runs[r].step = "ask"
    BY <2>1, <2>6 DEF MayAsk
  <2>7. CASE runs[r].step \in {"in", "look"}
    <3>1. rows[x].data = runs[r].data
      BY <2>2, <2>3, <2>7 DEF AtWork
    <3>2. ~Reusable(runs[r])
      BY <3>1, ReusedKept, ReadyFacts DEF Kept
    <3>3. QED
      BY <2>1, <2>7, <3>2 DEF MayAsk
  <2>8. QED
    BY <2>2, <2>4, <2>5, <2>6, <2>7 DEF ReviewStep
<1>3. QED
  BY <1>1, <1>2

LEMMA CrashTallied ==
  ASSUME AInv, Counts, Crash
  PROVE  LET undone == {r \in Slot : At(r, "review", "save") \/ At(r, "review", "failed")} IN
         /\ IsFiniteSet(undone) /\ Cardinality(undone) \in Nat
         /\ tally'.again = tally.again + Cardinality(undone) /\ tally'.crashes = tally.crashes + 1
         /\ tally'.calls = tally.calls /\ tally'.effects = tally.effects
         /\ tally'.forms = tally.forms /\ tally'.asked = tally.asked /\ tally'.forced = tally.forced
         /\ Counts'
<1> DEFINE undone == {r \in Slot : At(r, "review", "save") \/ At(r, "review", "failed")}
<1>1. IsFiniteSet(undone) /\ Cardinality(undone) \in Nat
  BY SlotsFinite, CountSub
<1>2. tally' = [tally EXCEPT !.crashes = @ + 1, !.again = @ + Cardinality(undone)]
  BY DEF Crash
<1> HIDE DEF undone
<1>3. PICK n \in Nat : n = Cardinality(undone)
  BY <1>1
<1>4. PICK old : old = tally
  OBVIOUS
<1>5. tally' = [old EXCEPT !.crashes = old.crashes + 1, !.again = old.again + n]
  BY <1>2, <1>3, <1>4
<1>6. old \in [calls : Nat, effects : Nat, forms : Nat, asked : Nat, again : Nat,
               forced : Nat, crashes : Nat]
  BY <1>4 DEF Counts
<1>7. PICK c \in Nat, a \in Nat : c = old.crashes + 1 /\ a = old.again + n
  BY <1>3, <1>6
<1>8. tally' = [old EXCEPT !.crashes = c, !.again = a]
  BY <1>5, <1>7
<1>9. /\ tally'.again = a /\ tally'.crashes = c
      /\ tally'.calls = old.calls /\ tally'.effects = old.effects
      /\ tally'.forms = old.forms /\ tally'.asked = old.asked /\ tally'.forced = old.forced
      /\ tally' \in [calls : Nat, effects : Nat, forms : Nat, asked : Nat, again : Nat,
                     forced : Nat, crashes : Nat]
  BY <1>6, <1>7, <1>8
<1>10. Counts'
  BY <1>9 DEF Counts
<1>11. QED
  BY <1>1, <1>3, <1>4, <1>7, <1>9, <1>10 DEF undone

LEMMA CrashPaid ==
  ASSUME Ready, AInv', Broad', Crash
  PROVE  Paid'
<1>1. /\ UNCHANGED <<flow, first, fallback, rows, store, answers>> /\ asks' = {}
      /\ \A r \in Slot : runs'[r] = NoRun
  BY DEF Crash, people
<1>2. PICK undone :
        /\ undone = {r \in Slot : At(r, "review", "save") \/ At(r, "review", "failed")}
        /\ IsFiniteSet(undone) /\ Cardinality(undone) \in Nat
        /\ tally'.again = tally.again + Cardinality(undone)
        /\ tally'.calls = tally.calls /\ tally'.effects = tally.effects
        /\ tally'.forms = tally.forms /\ tally'.asked = tally.asked /\ tally'.forced = tally.forced
  BY CrashTallied, ReadyFacts
<1>3. flow.crashes > 0 /\ Single
  <2>1. tally.crashes \in Nat /\ flow.crashes \in Nat /\ tally.crashes < flow.crashes
    BY ReadyFacts DEF Crash, Counts
  <2>2. flow.crashes > 0
    BY <2>1
  <2>3. QED
    BY <2>2, ReadyFacts
<1>4. /\ NobodyAsked' <=> NobodyAsked
      /\ Asking' = {} /\ Calling' = {} /\ (Held' => Held)
  BY <1>1, NotIdle, SlotsFinite DEF NobodyAsked, Asking, MayAsk, Calling, Bound, Held, OpenTodo
<1>5. CallsPaid'
  <2>1. PICK a, l, c, n, l2 :
          /\ a = One("first" \in asks) /\ l = One(Lost) /\ c = Cardinality(Asking)
          /\ n = Cardinality(undone) /\ l2 = One(Lost')
    OBVIOUS
  <2>2. a \in {0, 1} /\ l \in {0, 1} /\ c \in Nat /\ n \in Nat /\ l2 \in {0, 1}
    BY <1>2, <2>1, SetsFinite, ReadyFacts DEF One
  <2>3. l2 <= l + c + n
    <3>1. CASE Lost'
      <4>1. Lost \/ Asking # {} \/ undone # {}
        <5>1. PICK x \in RowId : rows[x].node = "review" /\ ~Kept(x)
          BY <1>1, <3>1 DEF Lost, Kept
        <5>2. Unaided /\ NobodyAsked
          BY <1>1, <1>4, <3>1 DEF Lost, Unaided
        <5>3. \/ Lost
              \/ \E r \in Slot : \/ MayAsk(runs[r])
                                 \/ At(r, "review", "save") \/ At(r, "review", "failed")
          BY <1>3, <5>1, <5>2, LostBefore
        <5>4. QED
          BY <1>2, <5>3 DEF Asking
      <4>2. Lost => l = 1
        BY <2>1 DEF One
      <4>3. Asking # {} => c # 0
        BY <2>1, SetsFinite, FS_EmptySet, ReadyFacts
      <4>4. undone # {} => n # 0
        BY <1>2, <2>1, FS_EmptySet
      <4>5. QED
        BY <2>2, <4>1, <4>2, <4>3, <4>4
    <3>2. CASE ~Lost'
      <4>1. l2 = 0
        BY <2>1, <3>2 DEF One
      <4>2. QED
        BY <2>2, <4>1
    <3>3. QED
      BY <3>1, <3>2
  <2>4. tally.calls + a + c + l <= tally.forms + tally.again /\ Counts
    BY <2>1, ReadyFacts DEF CallsPaid
  <2>5. tally'.calls + 0 + 0 + l2 <= tally'.forms + tally'.again
    BY <1>2, <2>1, <2>2, <2>3, <2>4 DEF Counts
  <2>6. One("first" \in asks') = 0 /\ Cardinality(Asking') = 0
    BY <1>1, <1>4, FS_EmptySet DEF One
  <2>7. QED
    BY <2>1, <2>5, <2>6 DEF CallsPaid, One
<1>6. EffectsPaid'
  <2>1. asks' \subseteq asks /\ Calling' \subseteq Calling
    BY <1>1, <1>4
  <2>2. Counts /\ Counts' /\ tally'.asked >= tally.asked /\ tally'.forced >= tally.forced
    BY <1>2, ReadyFacts DEF Broad, Counts
  <2>3. QED
    BY <1>2, <1>4, <2>1, <2>2, EffectsKept, ReadyFacts
<1>7. Named' /\ AskedBack'
  BY <1>1, SlotsFinite, ReadyFacts DEF Named, OpenTodo, AskedBack
<1>8. Handed' /\ Waiting'
  BY <1>1, NotIdle, SlotsFinite DEF Handed, Waiting, Upstream
<1>9. Alone'
  <2>1. ASSUME NobodyAsked
        PROVE  WithStarter' /\ OneRow' /\ OneReview'
    <3>1. WithStarter /\ OneRow /\ OneReview
      BY <1>3, <2>1 DEF Single, Alone
    <3>2. WithStarter'
      BY <1>1, <3>1 DEF WithStarter, Idle
    <3>3. OneRow' /\ OneReview'
      BY <1>1, <3>1, NotIdle DEF OneRow, OneReview
    <3>4. QED
      BY <3>2, <3>3
  <2>2. QED
    BY <1>4, <2>1 DEF Alone
<1>10. QED
  BY <1>5, <1>6, <1>7, <1>8, <1>9 DEF Paid, Single

-----------------------------------------------------------------------------
(* The patrol, and an overdue delay.                                       *)

LEMMA ReDrivePaid ==
  ASSUME Ready, AInv', Broad', ReDrive
  PROVE  Paid'
<1>1. /\ UNCHANGED <<flow, first, fallback, rows, store, answers>> /\ asks' = asks /\ asks = {}
      /\ HasFree /\ runs' = Launched(Message(Redrives, store, "patrol"))
      /\ \A r \in Slot : runs[r] = NoRun
      /\ \A x \in RowId : rows[x] = NoRow
      /\ first.state # "open" /\ \A h \in Handler : ~OpenTodo(h)
  BY DEF ReDrive, people, Stuck, Asked
<1>2. PICK node : node = Redrives /\ node \in Place
  BY ReadyFacts DEF Redrives, AInv, Settings, Place
<1>3. PICK s \in RowId :
        /\ s \in Slot /\ s \notin Handler
        /\ runs'[s].node = node /\ runs'[s].step = "in" /\ runs'[s].task = 0
        /\ \A q \in Slot : q # s => runs'[q] = NoRun
  <2>1. PICK next, by, data :
          by \in Origin /\ by = "patrol" /\ data = store /\ next = Message(node, data, by)
    BY DEF Origin
  <2>2. AInv /\ data \in Known(answers)
    BY <2>1, ReadyFacts DEF AInv, Tables
  <2>3. next.node = node /\ next.step = "in" /\ next.task = 0
    <3>1. /\ AInv /\ next = Message(node, data, by) /\ by \in Origin
          /\ data \in Known(answers) /\ node \in Place
      BY <1>2, <2>1, <2>2
    <3>2. QED
      BY <3>1, MessageIs
  <2>4. \E s \in RowId : /\ s \in Slot /\ s \notin Handler /\ runs[s] = NoRun /\ runs'[s] = next
                         /\ \A q \in Slot : q # s => runs'[q] = runs[q]
    BY <1>1, <1>2, <2>1, LaunchedRun, ReadyFacts
  <2>5. QED
    BY <1>1, <2>3, <2>4
<1>4. /\ Counts /\ Counts' /\ tally'.calls = tally.calls /\ tally'.effects = tally.effects
      /\ tally'.forms = tally.forms /\ tally'.asked = tally.asked
      /\ tally'.again = tally.again + (IF node = "review" THEN 1 ELSE 0)
      /\ tally'.forced = tally.forced + (IF node \in {"review", "call"} THEN 1 ELSE 0)
  BY <1>2, ReadyFacts DEF ReDrive, Broad, Counts
<1>5. ~Lost' /\ ~Held'
  BY <1>1, <1>3, NotIdle, SlotsFinite DEF Lost, Held, OpenTodo, Bound
<1>6. /\ Asking' \in SUBSET {s} /\ (node # "review" => Asking' = {})
      /\ Calling' \in SUBSET {s} /\ (node \notin {"review", "call"} => Calling' = {})
  BY <1>3, NotIdle, SlotsFinite DEF Asking, MayAsk, Calling, Bound
<1>7. CallsPaid'
  <2>1. PICK a, l, c, c2 : /\ a = One("first" \in asks) /\ l = One(Lost) /\ c = Cardinality(Asking)
                           /\ c2 = Cardinality(Asking')
    OBVIOUS
  <2>2. a \in {0, 1} /\ l \in {0, 1} /\ c \in Nat /\ One("first" \in asks') = 0 /\ One(Lost') = 0
    BY <1>1, <1>5, <2>1, SetsFinite, ReadyFacts DEF One
  <2>3. c2 \in {0, 1} /\ (node # "review" => c2 = 0)
    BY <1>6, <2>1, OneMore, FS_EmptySet
  <2>4. tally.calls + a + c + l <= tally.forms + tally.again
    BY <2>1, ReadyFacts DEF CallsPaid
  <2>5. tally'.calls + 0 + c2 + 0 <= tally'.forms + tally'.again
    <3>1. CASE node = "review"
      BY <1>4, <2>2, <2>3, <2>4, <3>1 DEF Counts
    <3>2. CASE node # "review"
      BY <1>4, <2>2, <2>3, <2>4, <3>2 DEF Counts
    <3>3. QED
      BY <3>1, <3>2
  <2>6. QED
    BY <2>1, <2>2, <2>5 DEF CallsPaid, One
<1>8. EffectsPaid'
  <2>1. PICK a, h, c, c2 : /\ a = Cardinality(asks) /\ h = One(Held) /\ c = Cardinality(Calling)
                           /\ c2 = Cardinality(Calling')
    OBVIOUS
  <2>2. a \in Nat /\ h \in {0, 1} /\ c \in Nat /\ One(Held') = 0
    BY <1>5, <2>1, SetsFinite, ReadyFacts DEF One
  <2>3. c2 \in {0, 1} /\ (node \notin {"review", "call"} => c2 = 0)
    BY <1>6, <2>1, OneMore, FS_EmptySet
  <2>4. tally.effects + a + c + h <= tally.asked + tally.forced
    BY <2>1, ReadyFacts DEF EffectsPaid
  <2>5. tally'.effects + a + c2 + 0 <= tally'.asked + tally'.forced
    <3>1. CASE node \in {"review", "call"}
      BY <1>4, <2>2, <2>3, <2>4, <3>1 DEF Counts
    <3>2. CASE node \notin {"review", "call"}
      BY <1>4, <2>2, <2>3, <2>4, <3>2 DEF Counts
    <3>3. QED
      BY <3>1, <3>2
  <2>6. QED
    BY <1>1, <2>1, <2>2, <2>5 DEF EffectsPaid, One
<1>9. Named' /\ AskedBack'
  BY <1>1, <1>3, SlotsFinite DEF Named, OpenTodo, AskedBack
<1>10. Single'
  <2>1. WithStarter' /\ OneRow'
    BY <1>1, NotIdle DEF WithStarter, OneRow
  <2>2. AtWork(runs[s])'
    BY <1>1, <1>3 DEF AtWork
  <2>3. OneReview'
    BY <1>3, <2>2, NotIdle DEF OneReview
  <2>4. Handed'
    BY <1>3, NotIdle DEF Handed
  <2>5. Waiting'
    BY <1>1 DEF Waiting, OpenTodo
  <2>6. QED
    BY <2>1, <2>3, <2>4, <2>5 DEF Single, Alone
<1>11. QED
  BY <1>7, <1>8, <1>9, <1>10 DEF Paid

LEMMA RescuePaid ==
  ASSUME Ready, AInv', Broad', NEW x \in RowId, Rescue(x)
  PROVE  Paid'
<1>1. /\ UNCHANGED <<flow, first, fallback, rows, store, answers, tally>> /\ asks' = asks
      /\ HasFree /\ rows[x].node = "wait"
      /\ runs' = Launched([Restored("wait", rows[x].data, x) EXCEPT !.due = TRUE])
  BY DEF Rescue, people
<1>2. PICK s \in RowId :
        /\ s \in Slot /\ s \notin Handler /\ runs[s] = NoRun /\ runs'[s].node = "wait"
        /\ \A q \in Slot : q # s => runs'[q] = runs[q]
  <2>1. PICK node : node = "wait" /\ node \in Place
    BY DEF Place
  <2>2. PICK data : data = rows[x].data /\ data \in Known(answers)
    <3>1. Pending(x)
      BY <1>1, NotIdle DEF Pending
    <3>2. QED
      BY <3>1, PendingRow, ReadyFacts
  <2>3. PICK run, next : run = Restored(node, data, x) /\ next = [run EXCEPT !.due = TRUE]
    OBVIOUS
  <2>4. AInv /\ x \in RowId \cup {0}
    BY ReadyFacts
  <2>5. next.node = node
    <3>1. /\ AInv /\ run = Restored(node, data, x) /\ x \in RowId \cup {0}
          /\ data \in Known(answers) /\ node \in Place
      BY <2>1, <2>2, <2>3, <2>4
    <3>2. run \in Run(answers) /\ run.node = node
      BY <3>1, RestoredIs
    <3>3. QED
      BY <2>3, <3>2 DEF Run
  <2>6. runs' = Launched(next)
    BY <1>1, <2>1, <2>2, <2>3
  <2>7. \E s \in RowId : /\ s \in Slot /\ s \notin Handler /\ runs[s] = NoRun /\ runs'[s] = next
                         /\ \A q \in Slot : q # s => runs'[q] = runs[q]
    BY <1>1, <2>4, <2>6, LaunchedRun
  <2>8. QED
    BY <2>1, <2>5, <2>7
<1>3. NobodyAsked' <=> NobodyAsked
  BY <1>1 DEF NobodyAsked
<1>4. /\ Lost' => Lost
      /\ Asking' \subseteq Asking
      /\ Calling' \subseteq Calling
      /\ Held' => Held
  <2>1. Lost' => Lost
    BY <1>1, <1>2, <1>3, NotIdle DEF Lost, Unaided, Kept
  <2>2. ASSUME NEW q \in Slot, MayAsk(runs[q])'
        PROVE  MayAsk(runs[q])
    <3>1. q # s
      BY <1>2, <2>2 DEF MayAsk
    <3>2. runs'[q] = runs[q]
      BY <1>2, <3>1
    <3>3. QED
      BY <1>1, <1>3, <2>2, <3>2 DEF MayAsk, Unaided, Reusable, Payload
  <2>3. ASSUME NEW q \in Slot, Bound(runs'[q])
        PROVE  Bound(runs[q])
    BY <1>2, <2>3 DEF Bound
  <2>4. Asking' \subseteq Asking
    BY <2>2 DEF Asking
  <2>5. Calling' \subseteq Calling
    BY <2>3, SlotsFinite DEF Calling, Bound
  <2>6. Held' => Held
    BY <1>1, <1>2, SlotsFinite DEF Held, OpenTodo, Bound
  <2>7. QED
    BY <2>1, <2>4, <2>5, <2>6
<1>5. Counts /\ Counts' /\ tally.forms <= tally'.forms /\ tally.again <= tally'.again
      /\ tally.asked <= tally'.asked /\ tally.forced <= tally'.forced
  BY <1>1, ReadyFacts DEF Broad, Counts
<1>6. CallsPaid' /\ EffectsPaid'
  BY <1>1, <1>4, <1>5, CallsKept, EffectsKept, ReadyFacts
<1>7. Named' /\ AskedBack'
  BY <1>1, <1>2, <1>3, SlotsFinite, ReadyFacts DEF Named, OpenTodo, AskedBack
<1>8. ASSUME flow.crashes > 0
      PROVE  Alone' /\ Handed' /\ Waiting'
  <2>1. Alone /\ Handed /\ Waiting
    BY <1>8, ReadyFacts DEF Single
  <2>2. Handed'
    BY <1>2, <1>3, <2>1 DEF Handed
  <2>3. Waiting'
    BY <1>1, <1>2, <2>1, SlotsFinite DEF Waiting, OpenTodo, Upstream
  <2>4. ASSUME NobodyAsked
        PROVE  WithStarter' /\ OneRow' /\ OneReview'
    <3>1. WithStarter /\ OneRow /\ OneReview
      BY <2>1, <2>4 DEF Alone
    <3>2. first.state # "open" /\ "first" \notin asks
      BY <1>1, <3>1, NotIdle DEF WithStarter, Idle
    <3>3. \A y \in RowId : rows[y].node # "review"
      BY <1>1, <3>1, NotIdle DEF OneRow
    <3>4. \A q \in Slot : runs'[q].node # "review"
      <4>1. ASSUME NEW q \in Slot, runs[q].node = "review"
            PROVE  FALSE
        <5>1. AtWork(runs[q])
          BY <3>1, <4>1 DEF OneReview
        <5>2. x = runs[q].task /\ x # 0
          BY <1>1, <5>1, NotIdle, SlotsFinite DEF AtWork
        <5>3. QED
          BY <1>1, <5>1, <5>2 DEF AtWork
      <4>2. QED
        BY <1>2, <4>1
    <3>5. QED
      BY <1>1, <3>2, <3>3, <3>4 DEF WithStarter, OneRow, OneReview
  <2>5. QED
    BY <1>3, <2>2, <2>3, <2>4 DEF Alone
<1>9. QED
  BY <1>1, <1>6, <1>7, <1>8 DEF Paid, Single

-----------------------------------------------------------------------------
(* The restore after a restart.                                            *)

LEMMA RestoredRuns ==
  ASSUME AInv, Active, Restore
  PROVE  /\ \A h \in Handler :
              /\ OpenTodo(h) => /\ runs'[h].node = "review" /\ runs'[h].step = "look"
                                /\ runs'[h].gate
              /\ ~OpenTodo(h) => runs'[h] = runs[h]
         /\ \A x \in RowId :
              /\ x \in Resumed => /\ runs'[x].node = rows[x].node /\ runs'[x].step = "in"
                                    /\ runs'[x].data = rows[x].data /\ runs'[x].by = "restart"
                                    /\ runs'[x].task = x /\ runs'[x].gate
              /\ x \notin Resumed => runs'[x] = runs[x]
<1> DEFINE next(r) ==
      IF r \in Handler
        THEN IF OpenTodo(r) THEN [Restored("review", fallback[r].data, 0) EXCEPT !.step = "look"]
                            ELSE runs[r]
        ELSE IF r \in Resumed THEN Restored(rows[r].node, rows[r].data, r) ELSE runs[r]
<1>1. \A r \in Slot : runs'[r] = next(r)
  BY DEF Restore
<1>2. ASSUME NEW h \in Handler, OpenTodo(h)
      PROVE  runs'[h].node = "review" /\ runs'[h].step = "look" /\ runs'[h].gate
  <2>1. PICK data, node, x :
          /\ data = fallback[h].data /\ data \in Known(answers) /\ node = "review"
          /\ node \in Place /\ x = 0
    BY DEF AInv, Tables, Todo, Place
  <2>2. PICK run, other : run = Restored(node, data, x) /\ other = [run EXCEPT !.step = "look"]
    OBVIOUS
  <2>3. /\ AInv /\ run = Restored(node, data, x) /\ data \in Known(answers) /\ node \in Place
        /\ x \in RowId \cup {0}
    BY <2>1, <2>2
  <2>4. run \in Run(answers) /\ run.node = node /\ run.gate
    BY <2>3, RestoredIs
  <2>5. other.node = node /\ other.step = "look" /\ other.gate
    BY <2>2, <2>4 DEF Run
  <2>6. h \in Slot /\ runs'[h] = other
    BY <1>1, <1>2, <2>1, <2>2, SlotsFinite
  <2>7. QED
    BY <2>1, <2>5, <2>6
<1>3. ASSUME NEW h \in Handler, ~OpenTodo(h)
      PROVE  runs'[h] = runs[h]
  BY <1>1, <1>3, SlotsFinite
<1>4. ASSUME NEW x \in Resumed
      PROVE  /\ runs'[x].node = rows[x].node /\ runs'[x].step = "in"
             /\ runs'[x].data = rows[x].data /\ runs'[x].by = "restart"
             /\ runs'[x].task = x /\ runs'[x].gate
  <2>1. PICK data, node : /\ data = rows[x].data /\ node = rows[x].node
                          /\ data \in Known(answers) /\ node \in Place
    BY PendingRow DEF Resumed
  <2>2. x \in RowId /\ x \in Slot /\ x \notin Handler
    BY SlotsFinite DEF Resumed
  <2>3. PICK run : run = Restored(node, data, x)
    OBVIOUS
  <2>4. /\ AInv /\ run = Restored(node, data, x) /\ data \in Known(answers) /\ node \in Place
        /\ x \in RowId \cup {0}
    BY <2>1, <2>2, <2>3
  <2>5. /\ run.node = node /\ run.step = "in" /\ run.data = data /\ run.by = "restart"
        /\ run.task = x /\ run.gate
    BY <2>4, RestoredIs
  <2>6. runs'[x] = run
    BY <1>1, <1>4, <2>1, <2>2, <2>3
  <2>7. QED
    BY <2>1, <2>5, <2>6
<1>5. ASSUME NEW x \in RowId, x \notin Resumed
      PROVE  runs'[x] = runs[x]
  BY <1>1, <1>5, SlotsFinite
<1> HIDE DEF next
<1>6. QED
  BY <1>2, <1>3, <1>4, <1>5

(* What it drives again is tallied.                                        *)
Driven == {x \in Resumed : rows[x].node \in {"review", "call"}}
Reviewed == {x \in Resumed : rows[x].node = "review"}

LEMMA RestoreTallied ==
  ASSUME AInv, flow \in Flows, Counts, Active, Restore
  PROVE  /\ IsFiniteSet(Driven) /\ Cardinality(Driven) \in Nat
         /\ IsFiniteSet(Reviewed) /\ Cardinality(Reviewed) \in Nat
         /\ tally'.forced = tally.forced + Cardinality(Driven)
         /\ flow.info => tally'.again = tally.again + Cardinality(Reviewed)
         /\ ~flow.info => tally'.again = tally.again
         /\ tally'.calls = tally.calls /\ tally'.effects = tally.effects
         /\ tally'.forms = tally.forms /\ tally'.asked = tally.asked
         /\ tally'.crashes = tally.crashes
         /\ Counts'
<1>1. /\ IsFiniteSet(Driven) /\ Cardinality(Driven) \in Nat
      /\ IsFiniteSet(Reviewed) /\ Cardinality(Reviewed) \in Nat
  BY SlotsFinite, CountSub DEF Driven, Reviewed, Resumed
<1>2. tally' = [tally EXCEPT !.forced = @ + Cardinality(Driven),
                             !.again = @ + IF flow.info THEN Cardinality(Reviewed) ELSE 0]
  BY DEF Restore, Driven, Reviewed
<1>3. PICK old, d, q :
        /\ old = tally /\ d = Cardinality(Driven)
        /\ q = IF flow.info THEN Cardinality(Reviewed) ELSE 0
  OBVIOUS
<1>4. old \in [calls : Nat, effects : Nat, forms : Nat, asked : Nat, again : Nat,
               forced : Nat, crashes : Nat]
  BY <1>3 DEF Counts
<1>5. PICK f \in Nat, a \in Nat : f = old.forced + d /\ a = old.again + q
  <2>1. d \in Nat /\ q \in Nat
    BY <1>1, <1>3
  <2>2. QED
    BY <1>4, <2>1
<1>6. tally' = [old EXCEPT !.forced = f, !.again = a]
  BY <1>2, <1>3, <1>5
<1>7. /\ tally'.again = a /\ tally'.forced = f /\ tally'.crashes = old.crashes
      /\ tally'.calls = old.calls /\ tally'.effects = old.effects
      /\ tally'.forms = old.forms /\ tally'.asked = old.asked
      /\ tally' \in [calls : Nat, effects : Nat, forms : Nat, asked : Nat, again : Nat,
                     forced : Nat, crashes : Nat]
  BY <1>4, <1>5, <1>6
<1>8. Counts'
  BY <1>7 DEF Counts
<1>9. a = old.again \/ flow.info
  <2>1. ~flow.info => q = 0
    BY <1>3
  <2>2. QED
    BY <1>4, <1>5, <2>1
<1>10. QED
  BY <1>1, <1>3, <1>5, <1>7, <1>8, <1>9

(* A message at review after the restore is the one of its row.            *)
LEMMA RestoredReview ==
  ASSUME Ready, Restore, NobodyAsked, NEW r \in Slot, runs'[r].node = "review"
  PROVE  /\ r \in RowId /\ rows[r].node = "review" /\ r \in Resumed /\ rows[r] # NoRow
         /\ runs'[r].step = "in" /\ runs'[r].data = rows[r].data /\ runs'[r].by = "restart"
         /\ runs'[r].task = r
<1>1. ~Upstream(runs[r])
  BY Ungated, ReadyFacts DEF Restore
<1>2. \A h \in Handler : ~OpenTodo(h)
  BY DEF NobodyAsked, OpenTodo
<1>3. r \in RowId
  BY <1>1, <1>2, RestoredRuns, ReadyFacts DEF Slot, Upstream
<1>4. r \in Resumed
  BY <1>1, <1>3, RestoredRuns, ReadyFacts DEF Upstream
<1>5. QED
  BY <1>3, <1>4, RestoredRuns, ReadyFacts DEF Resumed, Pending

LEMMA RestoreCalls ==
  ASSUME Ready, AInv', Broad', Restore
  PROVE  CallsPaid'
<1>1. /\ UNCHANGED <<flow, first, fallback, rows, store, asks, answers>> /\ ~Gated /\ restart
  BY DEF Restore, people
<1>2. flow.crashes > 0 /\ Single
  BY <1>1, ReadyFacts DEF Unbroken
<1>3. Cardinality(Asking) = 0 /\ \A r \in Slot : runs[r].node # "review"
  BY <1>1, Ungated, ReadyFacts DEF Upstream
<1>4. NobodyAsked' <=> NobodyAsked
  BY <1>1 DEF NobodyAsked
<1>5. ~Lost'
  <2>1. ASSUME Lost'
        PROVE  FALSE
    <3>1. PICK x \in RowId : rows[x].node = "review"
      BY <1>1, <2>1 DEF Lost
    <3>2. OneRow
      BY <1>2, <1>4, <2>1 DEF Lost, Single, Alone
    <3>3. x \in Resumed /\ x \in Slot
      BY <1>3, <3>1, <3>2, NotIdle, SlotsFinite DEF OneRow, Resumed, Pending
    <3>4. runs'[x].node = "review"
      BY <3>1, <3>3, RestoredRuns, ReadyFacts
    <3>5. QED
      BY <2>1, <3>3, <3>4 DEF Lost
  <2>2. QED
    BY <2>1
<1>6. ASSUME NEW r \in Asking'
      PROVE  /\ NobodyAsked /\ r \in Reviewed
             /\ Unaided => ~Kept(r)
  <2>1. r \in Slot /\ runs'[r].node = "review" /\ MayAsk(runs[r])'
    BY DEF Asking, MayAsk
  <2>2. NobodyAsked
    <3>1. ASSUME ~NobodyAsked
          PROVE  FALSE
      <4>1. runs'[r].step = "ask"
        BY <1>4, <2>1, <3>1 DEF MayAsk
      <4>2. CASE r \in Handler
        BY <1>3, <2>1, <4>1, <4>2, RestoredRuns, ReadyFacts
      <4>3. CASE r \in RowId
        BY <1>3, <2>1, <4>1, <4>3, RestoredRuns, ReadyFacts
      <4>4. QED
        BY <2>1, <4>2, <4>3 DEF Slot
    <3>2. QED
      BY <3>1
  <2>3. /\ r \in RowId /\ rows[r].node = "review" /\ r \in Resumed
        /\ runs'[r].step = "in" /\ runs'[r].data = rows[r].data
    BY <2>1, <2>2, RestoredReview
  <2>4. ASSUME Unaided, Kept(r)
        PROVE  FALSE
    <3>1. flow.info = FALSE
      BY <2>4, FlowFacts, ReadyFacts DEF Unaided
    <3>2. Payload(runs[r])' = [data |-> rows[r].data, by |-> "nobody"]
      BY <1>1, <2>3, <3>1 DEF Payload
    <3>3. Reusable(runs[r])'
      BY <1>1, <2>4, <3>2 DEF Reusable, Kept
    <3>4. Unaided'
      BY <1>1, <2>4 DEF Unaided
    <3>5. QED
      BY <2>1, <2>3, <3>3, <3>4 DEF MayAsk
  <2>5. QED
    BY <2>2, <2>3, <2>4 DEF Reviewed
<1>7. /\ IsFiniteSet(Reviewed) /\ Cardinality(Reviewed) \in Nat
      /\ flow.info => tally'.again = tally.again + Cardinality(Reviewed)
      /\ ~flow.info => tally'.again = tally.again
      /\ tally'.calls = tally.calls /\ tally'.forms = tally.forms
  BY RestoreTallied, ReadyFacts
<1>8. PICK a, l, c, q : /\ a = One("first" \in asks) /\ l = One(Lost)
                        /\ c = Cardinality(Asking') /\ q = Cardinality(Reviewed)
  OBVIOUS
<1>9. a \in {0, 1} /\ l \in {0, 1} /\ c \in Nat /\ q \in Nat
  <2>1. Asking' \subseteq Reviewed
    BY <1>6
  <2>2. QED
    BY <1>7, <1>8, <2>1, CountSub DEF One
<1>10. tally.calls + a + 0 + l <= tally.forms + tally.again /\ Counts
  BY <1>3, <1>8, ReadyFacts DEF CallsPaid
<1>11. CASE flow.info
  <2>1. Asking' \subseteq Reviewed
    BY <1>6
  <2>2. c <= q
    BY <1>7, <1>8, <2>1, CountSub
  <2>3. tally'.calls + a + c + 0 <= tally'.forms + tally'.again
    BY <1>7, <1>8, <1>9, <1>10, <1>11, <2>2 DEF Counts
  <2>4. QED
    BY <1>1, <1>5, <1>8, <2>3 DEF CallsPaid, One
<1>12. CASE ~flow.info
  <2>1. Unaided
    BY <1>2, <1>12 DEF Unaided
  <2>2. c <= l
    <3>1. CASE Asking' = {}
      <4>1. c = 0
        BY <1>8, <3>1, FS_EmptySet
      <4>2. QED
        BY <1>9, <4>1
    <3>2. CASE Asking' # {}
      <4>1. PICK x \in Asking' : TRUE
        BY <3>2
      <4>2. NobodyAsked /\ x \in Reviewed /\ ~Kept(x)
        BY <1>6, <2>1, <4>1
      <4>3. x \in RowId /\ rows[x].node = "review"
        BY <4>2 DEF Reviewed, Resumed
      <4>4. Lost
        BY <1>3, <2>1, <4>2, <4>3 DEF Lost
      <4>5. OneRow
        BY <1>2, <4>2 DEF Single, Alone
      <4>6. Asking' \in SUBSET {x}
        <5>1. ASSUME NEW y \in Asking', y # x
              PROVE  FALSE
          <6>1. y \in RowId /\ rows[y].node = "review"
            BY <1>6 DEF Reviewed, Resumed
          <6>2. rows[y] = NoRow
            BY <4>3, <4>5, <5>1, <6>1 DEF OneRow
          <6>3. QED
            BY <6>1, <6>2, NotIdle
        <5>2. QED
          BY <5>1
      <4>7. c \in {0, 1}
        BY <1>8, <4>6, OneMore
      <4>8. l = 1
        BY <1>8, <4>4 DEF One
      <4>9. QED
        BY <4>7, <4>8
    <3>3. QED
      BY <3>1, <3>2
  <2>3. tally'.calls + a + c + 0 <= tally'.forms + tally'.again
    BY <1>7, <1>9, <1>10, <1>12, <2>2 DEF Counts
  <2>4. QED
    BY <1>1, <1>5, <1>8, <2>3 DEF CallsPaid, One
<1>13. QED
  BY <1>11, <1>12

LEMMA RestoreEffects ==
  ASSUME Ready, AInv', Broad', Restore
  PROVE  EffectsPaid'
<1>1. fallback' = fallback /\ asks' = asks /\ ~Gated
  BY DEF Restore, people
<1>2. /\ \A r \in Slot : ~Upstream(runs[r]) /\ ~Bound(runs[r])
      /\ Cardinality(Calling) = 0
  BY <1>1, Ungated, ReadyFacts
<1>3. Calling' \subseteq Driven
  <2>1. ASSUME NEW x \in RowId, Bound(runs'[x])
        PROVE  x \in Driven
    <3>1. x \in Resumed
      BY <1>2, <2>1, RestoredRuns, ReadyFacts, SlotsFinite
    <3>2. runs'[x].node = rows[x].node
      BY <3>1, RestoredRuns, ReadyFacts DEF Resumed
    <3>3. QED
      BY <2>1, <3>1, <3>2 DEF Driven, Bound
  <2>2. QED
    BY <2>1 DEF Calling, Bound
<1>4. Held' => Held
  <2>1. ASSUME NEW h \in Handler, OpenTodo(h)' \/ Bound(runs'[h])
        PROVE  OpenTodo(h)
    <3>1. OpenTodo(h)' <=> OpenTodo(h)
      BY <1>1 DEF OpenTodo
    <3>2. QED
      BY <1>2, <2>1, <3>1, RestoredRuns, ReadyFacts, SlotsFinite
  <2>2. QED
    BY <2>1 DEF Held, Bound
<1>5. /\ IsFiniteSet(Driven) /\ Cardinality(Driven) \in Nat
      /\ tally'.forced = tally.forced + Cardinality(Driven)
      /\ tally'.effects = tally.effects /\ tally'.asked = tally.asked
  BY RestoreTallied, ReadyFacts
<1>6. PICK a, h, h2, c, d : /\ a = Cardinality(asks) /\ h = One(Held) /\ h2 = One(Held')
                            /\ c = Cardinality(Calling') /\ d = Cardinality(Driven)
  OBVIOUS
<1>7. a \in Nat /\ h \in {0, 1} /\ h2 \in {0, 1} /\ h2 <= h
  BY <1>4, <1>6, SetsFinite, ReadyFacts DEF One
<1>8. c \in Nat /\ d \in Nat /\ c <= d
  BY <1>3, <1>5, <1>6, CountSub
<1>9. tally.effects + a + 0 + h <= tally.asked + tally.forced /\ Counts
  BY <1>2, <1>6, ReadyFacts DEF EffectsPaid
<1>10. tally'.effects + a + c + h2 <= tally'.asked + tally'.forced
  BY <1>5, <1>6, <1>7, <1>8, <1>9 DEF Counts
<1>11. QED
  BY <1>1, <1>6, <1>10 DEF EffectsPaid, One

LEMMA RestorePaid ==
  ASSUME Ready, AInv', Broad', Restore
  PROVE  Paid'
<1>1. /\ UNCHANGED <<flow, first, fallback, rows, store, asks, answers>> /\ ~Gated /\ restart
  BY DEF Restore, people
<1>2. flow.crashes > 0 /\ Single
  BY <1>1, ReadyFacts DEF Unbroken
<1>3. \A r \in Slot : ~Upstream(runs[r]) /\ runs[r].node # "review"
  BY <1>1, Ungated, ReadyFacts DEF Upstream
<1>4. NobodyAsked' <=> NobodyAsked
  BY <1>1 DEF NobodyAsked
<1>5. Named' /\ AskedBack'
  <2>1. ASSUME NEW h \in Handler, OpenTodo(h)' \/ runs'[h] # NoRun
        PROVE  h \in flow.handlers
    BY <1>1, <2>1, RestoredRuns, ReadyFacts DEF OpenTodo, Named
  <2>2. QED
    BY <1>1, <1>4, <2>1, ReadyFacts DEF Named, AskedBack
<1>6. Handed'
  <2>1. ASSUME NEW r \in Slot, runs'[r].node = "review"
        PROVE  runs'[r].step \in {"in", "look"}
    <3>1. CASE r \in Handler
      BY <1>3, <2>1, <3>1, RestoredRuns, ReadyFacts
    <3>2. CASE r \in RowId
      BY <1>3, <2>1, <3>2, RestoredRuns, ReadyFacts
    <3>3. QED
      BY <3>1, <3>2 DEF Slot
  <2>2. QED
    BY <2>1 DEF Handed
<1>7. Waiting'
  <2>1. ASSUME NEW h \in Handler, OpenTodo(h)'
        PROVE  runs'[h].step = "look"
    BY <1>1, <2>1, RestoredRuns, ReadyFacts DEF OpenTodo
  <2>2. QED
    BY <2>1 DEF Waiting, Upstream
<1>8. ASSUME NobodyAsked
      PROVE  WithStarter' /\ OneRow' /\ OneReview'
  <2>1. WithStarter /\ OneRow /\ \A h \in Handler : ~OpenTodo(h)
    BY <1>2, <1>8 DEF Single, Alone, NobodyAsked, OpenTodo
  <2>2. \A r \in Slot : \/ runs'[r] = runs[r]
                        \/ r \in RowId /\ rows[r] # NoRow /\ runs'[r].node = rows[r].node
    BY <2>1, RestoredRuns, ReadyFacts DEF Slot, Resumed, Pending
  <2>3. WithStarter'
    BY <1>1, <2>1, <2>2 DEF WithStarter, Idle
  <2>4. OneRow'
    <3>1. ASSUME NEW x \in RowId, rows[x].node = "review", NEW r \in Slot
          PROVE  runs'[r] = NoRun \/ runs'[r].node = "review"
      BY <2>1, <2>2, <3>1 DEF OneRow
    <3>2. QED
      BY <1>1, <2>1, <3>1 DEF OneRow
  <2>5. ASSUME NEW r \in Slot, runs'[r].node = "review"
        PROVE  /\ \A q \in Slot : q = r \/ runs'[q] = NoRun
               /\ AtWork(runs[r])'
    <3>1. /\ r \in RowId /\ rows[r].node = "review" /\ rows[r] # NoRow
          /\ runs'[r].step = "in" /\ runs'[r].data = rows[r].data /\ runs'[r].task = r
      BY <1>8, <2>5, RestoredReview
    <3>2. /\ \A y \in RowId : y = r \/ rows[y] = NoRow
          /\ \A q \in Slot : runs[q] = NoRun \/ runs[q].node = "review"
      BY <2>1, <3>1 DEF OneRow
    <3>3. \A q \in Slot : q = r \/ runs'[q] = NoRun
      BY <1>3, <2>2, <3>2
    <3>4. AtWork(runs[r])'
      BY <1>1, <3>1, <3>2 DEF AtWork
    <3>5. QED
      BY <3>3, <3>4
  <2>6. OneReview'
    BY <2>5 DEF OneReview
  <2>7. QED
    BY <2>3, <2>4, <2>6
<1>9. Alone'
  BY <1>4, <1>8 DEF Alone
<1>10. QED
  BY <1>5, <1>6, <1>7, <1>9, RestoreCalls, RestoreEffects DEF Paid, Single

-----------------------------------------------------------------------------
(* What holds whatever the chain.                                          *)

LEMMA AnsweredBroad ==
  ASSUME AInv, Broad, NEW r \in Slot, NEW output \in Outputs, Answered(r, output)
  PROVE  Broad'
<1>1. /\ Walked(r) /\ flow' = flow /\ answers \in Seq(Answer)
      /\ answers' = Append(answers, [to |-> Payload(runs[r]), said |-> ExtractDecision(output)])
  BY AskWalks DEF Answered, Broad, AInv
<1>2. Gates' /\ Counts' /\ flow' \in Flows
  BY <1>1, WalkGates DEF Broad, Walked, Spent, Counts
<1>3. Bare'
  <2>1. PICK more : more = [to |-> Payload(runs[r]), said |-> ExtractDecision(output)]
    OBVIOUS
  <2>2. answers' = Append(answers, more) /\ more.to = Payload(runs[r])
    BY <1>1, <2>1
  <2>3. \A k \in DOMAIN answers' : \/ k \in DOMAIN answers /\ answers'[k] = answers[k]
                                   \/ answers'[k] = more
    BY <1>1, <2>2
  <2>4. ~flow.info => more.to.by = "nobody"
    <3>1. PICK by : by = IF flow.info THEN runs[r].by ELSE "nobody"
      OBVIOUS
    <3>2. more.to.by = by
      BY <2>2, <3>1 DEF Payload
    <3>3. ~flow.info => by = "nobody"
      BY <3>1
    <3>4. QED
      BY <3>2, <3>3
  <2>5. QED
    BY <1>1, <2>3, <2>4 DEF Broad, Bare
<1>4. Unbroken'
  <2>1. ASSUME flow.crashes = 0, NEW h \in Handler
        PROVE  runs'[h] = NoRun
    <3>1. runs[h] = NoRun /\ h \in Slot
      BY <2>1, SlotsFinite DEF Broad, Unbroken
    <3>2. QED
      BY <1>1, <3>1, WalkAfter
  <2>2. QED
    BY <1>1, <2>1 DEF Broad, Unbroken, Walked, Spent
<1>5. QED
  BY <1>2, <1>3, <1>4 DEF Broad

LEMMA RunStepBroad ==
  ASSUME AInv, Broad, NEW r \in Slot, RunStep(r)
  PROVE  Broad'
<1>1. CASE \E output \in Outputs : Answered(r, output)
  BY <1>1, AnsweredBroad
<1>2. CASE ~ \E output \in Outputs : Answered(r, output)
  <2>1. answers' = answers
    BY <1>2 DEF RunStep, Aspect, Review, Before, Suppressed, Look, NoAnswer, Save, Judge, Call,
                HttpCall, StartProcess, CCTask, Acted, Fire, After, Finish, AfterFailure, AfterCC
  <2>2. Walked(r)
    BY RunStepWalks DEF Broad
  <2>3. QED
    BY <2>1, <2>2, WalkBroad
<1>3. QED
  BY <1>1, <1>2

LEMMA SameRunsBroad ==
  ASSUME Broad, UNCHANGED <<flow, answers, runs, restart>>, Counts',
         tally'.crashes = tally.crashes
  PROVE  Broad'
BY DEF Broad, Bare, Gates, Unbroken, Upstream

LEMMA LaunchBroad ==
  ASSUME AInv, Broad, HasFree, NEW next, runs' = Launched(next),
         next.gate, next.step \in {"in", "look"},
         UNCHANGED <<flow, answers, restart>>, Counts', tally'.crashes = tally.crashes
  PROVE  Broad'
<1>1. PICK s \in RowId : /\ s \in Slot /\ s \notin Handler /\ runs'[s] = next
                         /\ \A q \in Slot : q # s => runs'[q] = runs[q]
  BY LaunchedRun
<1>2. Gates'
  BY <1>1 DEF Broad, Gates, Upstream, ReviewStep
<1>3. Unbroken'
  BY <1>1, SlotsFinite DEF Broad, Unbroken
<1>4. QED
  BY <1>2, <1>3 DEF Broad, Bare

LEMMA PeopleBroad ==
  ASSUME AInv, Broad,
         \/ Submit \/ Terminate
         \/ \E h \in Handler : \E verdict \in {"approved", "rejected"} : Decide(h, verdict)
  PROVE  Broad'
<1>1. UNCHANGED <<flow, answers, runs, restart>>
  BY DEF Submit, Terminate, Decide
<1>2. Counts' /\ tally'.crashes = tally.crashes
  <2>1. PICK old : old = tally
    OBVIOUS
  <2>2. old \in [calls : Nat, effects : Nat, forms : Nat, asked : Nat, again : Nat,
                 forced : Nat, crashes : Nat]
    BY <2>1 DEF Broad, Counts
  <2>3. PICK f \in Nat, a \in Nat : f = old.forms + 1 /\ a = old.asked + 1
    BY <2>2
  <2>4. \/ tally' = [old EXCEPT !.forms = f, !.asked = a]
        \/ tally' = [old EXCEPT !.asked = a]
        \/ tally' = old
    BY <2>1, <2>3 DEF Submit, Terminate, Decide
  <2>5. QED
    BY <2>1, <2>2, <2>3, <2>4 DEF Counts
<1>3. QED
  BY <1>1, <1>2, SameRunsBroad

LEMMA ExecuteNextBroad ==
  ASSUME AInv, Broad, NEW a \in asks, ExecuteNext(a)
  PROVE  Broad'
<1>1. /\ UNCHANGED <<flow, answers, restart, tally>> /\ Counts'
      /\ a \in {"first"} \cup Handler
  BY DEF ExecuteNext, Broad, Counts, AInv, Settings
<1>2. CASE ~Active
  BY <1>1, <1>2, SameRunsBroad DEF ExecuteNext
<1>3. CASE Active
  <2>1. PICK data, node : /\ data = IF a = "first" THEN first.data ELSE fallback[a].data
                          /\ node = "review"
    OBVIOUS
  <2>2. data \in Known(answers) /\ node \in Place
    BY <1>1, <2>1 DEF AInv, Tables, Todo, Place
  <2>3. PICK next : next = Message(node, data, a)
    OBVIOUS
  <2>4. next.step = "in" /\ next.gate
    <3>1. a \in Origin
      BY <1>1 DEF Origin
    <3>2. QED
      BY <2>2, <2>3, <3>1, MessageIs
  <2>5. HasFree /\ runs' = Launched(next)
    BY <1>3, <2>1, <2>3 DEF ExecuteNext
  <2>6. QED
    BY <1>1, <2>4, <2>5, LaunchBroad
<1>4. QED
  BY <1>2, <1>3

LEMMA CrashBroad ==
  ASSUME AInv, Broad, Crash
  PROVE  Broad'
<1>1. /\ UNCHANGED <<flow, answers>> /\ \A r \in Slot : runs'[r] = NoRun
      /\ tally.crashes < flow.crashes
  BY DEF Crash
<1>2. Counts'
  BY CrashTallied DEF Broad
<1>3. flow.crashes # 0
  <2>1. flow.crashes \in Nat /\ tally.crashes \in Nat
    BY FlowFacts DEF Broad, Counts
  <2>2. QED
    BY <1>1, <2>1
<1>4. QED
  BY <1>1, <1>2, <1>3, NotIdle DEF Broad, Bare, Gates, Unbroken, Upstream

LEMMA RestoreBroad ==
  ASSUME AInv, Broad, Restore
  PROVE  Broad'
<1>1. /\ UNCHANGED <<flow, answers>> /\ restart /\ flow.crashes # 0
  BY DEF Restore, Broad, Unbroken
<1>2. CASE ~Active
  BY <1>1, <1>2 DEF Restore, Broad, Counts, Bare, Gates, Unbroken, Upstream
<1>3. CASE Active
  <2>1. Counts'
    BY <1>3, RestoreTallied DEF Broad
  <2>2. ASSUME NEW r \in Slot
        PROVE  /\ Upstream(runs'[r]) => runs'[r].gate
               /\ runs'[r].node = "review" => runs'[r].step \in ReviewStep
    <3>1. \/ runs'[r] = runs[r]
          \/ runs'[r].gate /\ runs'[r].step \in {"in", "look"}
      <4>1. CASE r \in Handler
        BY <1>3, <4>1, RestoredRuns
      <4>2. CASE r \in RowId
        BY <1>3, <4>2, RestoredRuns
      <4>3. QED
        BY <4>1, <4>2 DEF Slot
    <3>2. QED
      BY <3>1 DEF Broad, Gates, ReviewStep
  <2>3. Gates'
    BY <2>2 DEF Gates, Upstream
  <2>4. QED
    BY <1>1, <2>1, <2>3 DEF Broad, Bare, Unbroken
<1>4. QED
  BY <1>2, <1>3

LEMMA ReDriveBroad ==
  ASSUME AInv, Broad, ReDrive
  PROVE  Broad'
<1>1. /\ UNCHANGED <<flow, answers, restart>> /\ HasFree
      /\ runs' = Launched(Message(Redrives, store, "patrol"))
  BY DEF ReDrive
<1>2. Counts' /\ tally'.crashes = tally.crashes
  <2>1. PICK old : old = tally
    OBVIOUS
  <2>2. old \in [calls : Nat, effects : Nat, forms : Nat, asked : Nat, again : Nat,
                 forced : Nat, crashes : Nat]
    BY <2>1 DEF Broad, Counts
  <2>3. PICK f \in Nat, a \in Nat :
          /\ f = IF Redrives \in {"review", "call"} THEN old.forced + 1 ELSE old.forced
          /\ a = IF Redrives = "review" THEN old.again + 1 ELSE old.again
    BY <2>2
  <2>4. tally' = [old EXCEPT !.forced = f, !.again = a]
    BY <2>1, <2>3 DEF ReDrive
  <2>5. QED
    BY <2>1, <2>2, <2>3, <2>4 DEF Counts
<1>3. PICK node, data, by : /\ node = Redrives /\ node \in Place /\ data = store
                            /\ data \in Known(answers) /\ by = "patrol" /\ by \in Origin
  BY DEF Redrives, AInv, Settings, Tables, Place, Origin
<1>4. PICK next : next = Message(node, data, by)
  OBVIOUS
<1>5. next.step = "in" /\ next.gate
  <2>1. /\ AInv /\ next = Message(node, data, by) /\ by \in Origin
        /\ data \in Known(answers) /\ node \in Place
    BY <1>3, <1>4
  <2>2. QED
    BY <2>1, MessageIs
<1>6. runs' = Launched(next)
  BY <1>1, <1>3, <1>4
<1>7. QED
  BY <1>1, <1>2, <1>5, <1>6, LaunchBroad

LEMMA RescueBroad ==
  ASSUME AInv, Broad, NEW x \in RowId, Rescue(x)
  PROVE  Broad'
<1>1. /\ UNCHANGED <<flow, answers, restart, tally>> /\ HasFree /\ rows[x].node = "wait" /\ Counts'
      /\ runs' = Launched([Restored("wait", rows[x].data, x) EXCEPT !.due = TRUE])
  BY DEF Rescue, Broad, Counts
<1>2. PICK node, data : /\ node = "wait" /\ node \in Place
                        /\ data = rows[x].data /\ data \in Known(answers)
  BY <1>1, PendingRow, NotIdle DEF Pending, Place
<1>3. PICK run, next : run = Restored(node, data, x) /\ next = [run EXCEPT !.due = TRUE]
  OBVIOUS
<1>4. next.step = "in" /\ next.gate
  <2>1. /\ AInv /\ run = Restored(node, data, x) /\ x \in RowId \cup {0}
        /\ data \in Known(answers) /\ node \in Place
    BY <1>2, <1>3
  <2>2. run \in Run(answers) /\ run.step = "in" /\ run.gate
    BY <2>1, RestoredIs
  <2>3. QED
    BY <1>3, <2>2 DEF Run
<1>5. runs' = Launched(next)
  BY <1>1, <1>2, <1>3
<1>6. QED
  BY <1>1, <1>4, <1>5, LaunchBroad

LEMMA NextBroad ==
  ASSUME AInv, Broad, [Next]_vars
  PROVE  Broad'
<1>1. CASE \E r \in Slot : RunStep(r)
  BY <1>1, RunStepBroad
<1>2. CASE \/ Submit \/ Terminate
           \/ \E h \in Handler : \E verdict \in {"approved", "rejected"} : Decide(h, verdict)
  BY <1>2, PeopleBroad
<1>3. CASE \E a \in asks : ExecuteNext(a)
  BY <1>3, ExecuteNextBroad
<1>4. CASE Crash \/ Restore \/ ReDrive
  BY <1>4, CrashBroad, RestoreBroad, ReDriveBroad
<1>5. CASE \E x \in RowId : Rescue(x)
  BY <1>5, RescueBroad
<1>6. CASE Expire \/ UNCHANGED vars
  <2>1. UNCHANGED <<flow, answers, runs, restart>> /\ tally' = tally
    BY <1>6 DEF Expire, vars
  <2>2. Counts'
    BY <2>1 DEF Broad, Counts
  <2>3. QED
    BY <2>1, <2>2, SameRunsBroad
<1>7. QED
  BY <1>1, <1>2, <1>3, <1>4, <1>5, <1>6 DEF Next

-----------------------------------------------------------------------------
(* The end, and the whole.                                                 *)

(* The instance ends once; a step that ends it, and what is done after it, *)
(* asks and calls nothing.                                                 *)
LEMMA EndedStays ==
  ASSUME AInv, [Next]_vars, Active'
  PROVE  Active
BY DEF vars, Next, RunStep, Aspect, Review, Before, Suppressed, Look, HandleReject, Ended, Passed,
       Answered, NoAnswer, Fallback, Save, Judge, HandleUnresolved, Call, HttpCall, StartProcess,
       CCTask, Acted, Fire, After, Finish, AfterFailure, AfterCC, Submit, Decide, ExecuteNext,
       Terminate, Crash, Restore, ReDrive, Rescue, Expire, Active

LEMMA NoneOnceEnded ==
  ASSUME AInv, Counts, Counts', [Next]_vars, ~Active'
  PROVE  /\ tally'.calls = tally.calls /\ tally'.effects = tally.effects
         /\ tally'.forms >= tally.forms /\ tally'.again >= tally.again
         /\ tally'.asked >= tally.asked /\ tally'.forced >= tally.forced
<1>1. CASE tally' = tally
  BY <1>1 DEF Counts
<1>2. CASE \E r \in Slot : RunStep(r)
  <2>1. PICK r \in Slot : RunStep(r)
    BY <1>2
  <2>2. Spent
    BY <2>1, RunStepWalks DEF Walked
  <2>3. CASE status' = status
    <3>1. ~Active
      BY <2>3 DEF Active
    <3>2. \/ tally' = tally
          \/ CountCall
          \/ Call(r)
      BY <2>1 DEF RunStep, Aspect, Review, Before, Suppressed, Look, NoAnswer, Answered, Save, Judge,
         Fire, After, Finish, AfterFailure, AfterCC
    <3>3. CASE CountCall
      BY <2>2, <3>1, <3>3, CallSpent DEF Spent, Counts
    <3>4. CASE Call(r)
      <4>1. PICK effect, step : Acted(r, effect, step)
        BY <3>4, CallActs
      <4>2. tally'.calls = tally.calls /\ tally'.effects = tally.effects
        BY <3>1, <4>1, ActedSpent
      <4>3. QED
        BY <2>2, <4>2 DEF Spent, Counts
    <3>5. QED
      BY <1>1, <3>2, <3>3, <3>4
  <2>4. CASE status' # status
    <3>1. tally' = tally
      BY <2>1, <2>4 DEF RunStep, Aspect, Review, Call, HttpCall, StartProcess, CCTask, Acted, Before,
         Suppressed, Look, NoAnswer, Fallback, Answered, Save, Judge, Fire, After, Finish,
         AfterFailure, AfterCC
    <3>2. QED
      BY <1>1, <3>1
  <2>5. QED
    BY <2>3, <2>4
<1>3. CASE Crash
  BY <1>3, CrashTallied DEF Counts
<1>4. CASE Restore
  BY <1>1, <1>4 DEF Restore, Active
<1>5. CASE \/ Submit \/ ReDrive
           \/ \E h \in Handler : \E verdict \in {"approved", "rejected"} : Decide(h, verdict)
  BY <1>5 DEF Submit, ReDrive, Stuck, Decide, Active
<1>6. CASE \/ UNCHANGED vars \/ Terminate \/ \E a \in asks : ExecuteNext(a)
           \/ \E x \in RowId : Rescue(x)
           \/ Expire
  BY <1>1, <1>6 DEF vars, Terminate, ExecuteNext, Rescue, Expire
<1>7. QED
  BY <1>2, <1>3, <1>4, <1>5, <1>6 DEF Next

LEMMA NextPaid ==
  ASSUME Ready, AInv', Broad', Active', [Next]_vars
  PROVE  Paid'
<1>1. CASE \E r \in Slot : RunStep(r)
  BY <1>1, RunStepPaid
<1>2. CASE Submit \/ \E h \in Handler : \E verdict \in {"approved", "rejected"} : Decide(h, verdict)
  BY <1>2, SubmitPaid, DecidePaid
<1>3. CASE \E a \in asks : ExecuteNext(a)
  BY <1>3, ExecuteNextPaid
<1>4. CASE Terminate
  BY <1>4 DEF Terminate, Ended, Active
<1>5. CASE Crash \/ Restore \/ ReDrive
  BY <1>5, CrashPaid, RestorePaid, ReDrivePaid
<1>6. CASE \E x \in RowId : Rescue(x)
  BY <1>6, RescuePaid
<1>7. CASE Expire \/ UNCHANGED vars
  <2>1. UNCHANGED <<flow, first, fallback, rows, store, runs, asks, answers, tally>>
    BY <1>7 DEF Expire, people, vars
  <2>2. QED
    BY <2>1, ReadyFacts DEF Paid, CallsPaid, EffectsPaid, Named, AskedBack, Single, One, Asking,
       Calling, Lost, Held, MayAsk, Bound, Upstream, NobodyAsked, OpenTodo, Unaided, Kept, Reusable,
       Payload, Alone, WithStarter, Idle, OneRow, OneReview, AtWork, Handed, Waiting, Ready
<1>8. QED
  BY <1>1, <1>2, <1>3, <1>4, <1>5, <1>6, <1>7 DEF Next

LEMMA NextSparing ==
  ASSUME Counts, Counts', Sparing,
         tally'.calls = tally.calls, tally'.effects = tally.effects,
         tally'.forms >= tally.forms, tally'.again >= tally.again,
         tally'.asked >= tally.asked, tally'.forced >= tally.forced
  PROVE  Sparing'
BY DEF Counts, Sparing

LEMMA NextSInv == AInv /\ AInv' /\ SInv /\ [Next]_vars => SInv'
<1> SUFFICES ASSUME AInv, AInv', SInv, [Next]_vars
             PROVE  SInv'
  OBVIOUS
<1>1. Broad' /\ Counts /\ Counts'
  BY NextBroad DEF SInv, Broad
<1>2. flow' = flow
  BY DEF vars, Next, RunStep, Aspect, Review, Before, Suppressed, Look, Answered, NoAnswer, Save,
     Judge, Call, HttpCall, StartProcess, CCTask, Acted, Fire, After, Finish, AfterFailure, AfterCC,
     Submit, Decide, ExecuteNext, Terminate, Crash, Restore, ReDrive, Rescue, Expire
<1>3. ASSUME Tame(flow), Active'
      PROVE  Paid'
  <2>1. Ready
    BY <1>3, EndedStays DEF SInv, Ready
  <2>2. QED
    BY <1>1, <1>3, <2>1, NextPaid
<1>4. ASSUME Tame(flow), ~Active'
      PROVE  Sparing'
  <2>1. Sparing
    BY <1>1, <1>4, PaidSpares DEF SInv, Paid
  <2>2. QED
    BY <1>1, <1>4, <2>1, NoneOnceEnded, NextSparing
<1>5. QED
  BY <1>1, <1>2, <1>3, <1>4 DEF SInv

LEMMA InitSInv == Init => SInv
<1> SUFFICES ASSUME Init PROVE SInv
  OBVIOUS
<1>1. /\ \A r \in Slot : runs[r] = NoRun
      /\ \A x \in RowId : rows[x] = NoRow
      /\ \A h \in Handler : fallback[h] = NoTodo
      /\ flow \in Flows /\ first.state = "open" /\ asks = {} /\ answers = <<>> /\ ~restart
  BY DEF Init
<1>2. Counts /\ tally.calls = 0 /\ tally.effects = 0 /\ tally.forms = 0 /\ tally.asked = 0
      /\ tally.again = 0 /\ tally.forced = 0 /\ tally.crashes = 0
  BY DEF Init, Counts
<1>3. Broad
  BY <1>1, <1>2, NotIdle, SlotsFinite DEF Broad, Bare, Gates, Unbroken, Upstream
<1>4. Asking = {} /\ Calling = {} /\ ~Lost /\ ~Held
  BY <1>1, NotIdle, SlotsFinite DEF Asking, MayAsk, Calling, Bound, Lost, Held, OpenTodo
<1>5. CallsPaid /\ EffectsPaid
  <2>1. Cardinality(Asking) = 0 /\ Cardinality(Calling) = 0 /\ Cardinality(asks) = 0
    BY <1>1, <1>4, FS_EmptySet
  <2>2. One("first" \in asks) = 0 /\ One(Lost) = 0 /\ One(Held) = 0
    BY <1>1, <1>4 DEF One
  <2>3. QED
    BY <1>2, <2>1, <2>2 DEF CallsPaid, EffectsPaid
<1>6. Named /\ AskedBack
  BY <1>1, NotIdle, SlotsFinite DEF Named, OpenTodo, AskedBack
<1>7. Single
  <2>1. Idle /\ OneRow /\ OneReview /\ WithStarter
    BY <1>1, NotIdle DEF Idle, OneRow, OneReview, WithStarter
  <2>2. Handed /\ Waiting
    BY <1>1, NotIdle, SlotsFinite DEF Handed, Waiting, Upstream
  <2>3. QED
    BY <2>1, <2>2 DEF Single, Alone
<1>8. Active
  BY DEF Init, Active
<1>9. QED
  BY <1>3, <1>5, <1>6, <1>7, <1>8 DEF SInv, Paid

(* Where no crash meets two people who answer for one review, or a         *)
(* submission sent back, the model is asked once for a submission and the  *)
(* call made once for an answer, but for what a crash, a restart or the    *)
(* patrol forced the engine to do over (Execute of                         *)
(* components/ai_agent_node.go; RestoreAll and the patrols of              *)
(* service/runtime_service_impl.go).                                       *)
THEOREM SparesModel == Spec => [](Tame(flow) => Sparing)
<1>1. Init => AInv /\ SInv
  BY InitAInv, InitSInv
<1>2. AInv /\ SInv /\ [Next]_vars => (AInv /\ SInv)'
  BY NextAInv, NextSInv
<1>3. AInv /\ SInv => (Tame(flow) => Sparing)
  BY PaidSpares DEF SInv, Paid, Broad
<1>4. QED
  BY <1>1, <1>2, <1>3, PTL DEF Spec
=============================================================================
