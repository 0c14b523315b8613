---------------------------- MODULE BallotProofs ----------------------------
(***************************************************************************)
(* Votes under the five rules, for every rule and every number of voters.  *)
(* First what the decision after a vote says about the votes still         *)
(* missing: the arithmetic of the rules is confined to these lemmas, and   *)
(* the proofs that use them know Outcome.  Then the node seen from its     *)
(* votes alone (module Ballot), and the rows of voters of TaskDesk, who    *)
(* are added, taken off, exchanged, cut off and recalled.                  *)
(***************************************************************************)
EXTENDS Ballot, TaskDeskProofs

-----------------------------------------------------------------------------
(* The rules. *)

Threshold == {"majority", "percent", "count"}

(* The number a threshold rule asks for is exactly where its outcome turns. *)
LEMMA RequiredIsThreshold ==
  ASSUME NEW r, ValidRule(r), r.type \in Threshold, NEW total \in Nat, NEW a \in Nat
  PROVE  /\ Required(r, total) \in Nat
         /\ a >= Required(r, total) <=> Outcome(r, total, a)
<1>1. CASE r.type = "majority"
  BY <1>1 DEF Required, Outcome
<1>2. CASE r.type = "percent"
  <2>1. PICK m \in Nat : m = total * r.value
    BY DEF ValidRule
  <2>2. Required(r, total) = AtLeastOne(Ceil(m))
    BY <1>2, <2>1 DEF Required
  <2>3. Outcome(r, total, a) <=> (a > 0 /\ 100 * a >= m)
    BY <1>2, <2>1 DEF Outcome
  <2>4. QED
    BY <2>2, <2>3 DEF AtLeastOne, Ceil
<1>3. CASE r.type = "count"
  BY <1>3 DEF Required, Outcome, AtLeastOne, ValidRule
<1>4. QED
  BY <1>1, <1>2, <1>3 DEF Threshold

LEMMA PercentShrinks ==
  ASSUME NEW v \in Nat, v <= 100, NEW t \in Nat, NEW d \in Nat, d <= t
  PROVE  /\ t * v \in Nat
         /\ (t - d) * v \in Nat
         /\ (t - d) * v <= t * v
         /\ t * v <= (t - d) * v + 100 * d
<1>1. (t - d) * v = t * v - d * v
  OBVIOUS
<1>2. d * v \in Nat /\ d * v <= d * 100
  OBVIOUS
<1>3. t * v \in Nat /\ (t - d) * v \in Nat
  OBVIOUS
<1>4. QED
  BY <1>1, <1>2, <1>3

(* More approvals never turn an approval into a rejection. *)
LEMMA OutcomeMonotone ==
  ASSUME NEW r, ValidRule(r), NEW total \in Nat, NEW a \in Nat, NEW b \in Nat,
         a <= b, b <= total, Outcome(r, total, a)
  PROVE  Outcome(r, total, b)
<1>1. CASE r.type = "percent"
  <2>1. PICK m \in Nat : m = total * r.value
    BY DEF ValidRule
  <2>2. QED
    BY <1>1, <2>1 DEF Outcome
<1>2. CASE r.type = "all"
  BY <1>2 DEF Outcome
<1>3. CASE r.type = "any"
  BY <1>3 DEF Outcome
<1>4. CASE r.type = "majority"
  BY <1>4 DEF Outcome
<1>5. CASE r.type = "count"
  BY <1>5 DEF Outcome, ValidRule
<1>6. QED
  BY <1>1, <1>2, <1>3, <1>4, <1>5 DEF ValidRule, RuleType

(* Cancelling voters who did not vote keeps an approval: the same          *)
(* approvals suffice for a smaller electorate that still contains them.    *)
LEMMA CancellingKeepsApproval ==
  ASSUME NEW r, ValidRule(r), NEW total \in Nat, NEW d \in Nat, NEW a \in Nat,
         d <= total, a <= total - d, Outcome(r, total, a)
  PROVE  Outcome(r, total - d, a)
<1>1. CASE r.type = "percent"
  <2>1. (total - d) * r.value <= total * r.value /\ (total - d) * r.value \in Nat
        /\ total * r.value \in Nat
    BY <1>1, PercentShrinks DEF ValidRule
  <2>2. a > 0 /\ 100 * a >= total * r.value
    BY <1>1 DEF Outcome
  <2>3. 100 * a >= (total - d) * r.value
    BY <2>1, <2>2
  <2>4. QED
    BY <1>1, <2>2, <2>3 DEF Outcome
<1>2. CASE r.type = "all"
  BY <1>2 DEF Outcome
<1>3. CASE r.type = "any"
  BY <1>3 DEF Outcome
<1>4. CASE r.type = "majority"
  BY <1>4 DEF Outcome
<1>5. CASE r.type = "count"
  BY <1>5 DEF Outcome, ValidRule
<1>6. QED
  BY <1>1, <1>2, <1>3, <1>4, <1>5 DEF ValidRule, RuleType

(* And it keeps a rejection: if the node fails although everybody left     *)
(* approves, it fails when some of them are cancelled.                     *)
LEMMA CancellingKeepsRejection ==
  ASSUME NEW r, ValidRule(r), NEW total \in Nat, NEW d \in Nat, NEW a \in Nat,
         d <= a, a <= total, ~Outcome(r, total, a)
  PROVE  ~Outcome(r, total - d, a - d)
<1>1. CASE r.type = "percent"
  <2>1. (total - d) * r.value \in Nat /\ total * r.value \in Nat
        /\ total * r.value <= (total - d) * r.value + 100 * d
    BY <1>1, PercentShrinks DEF ValidRule
  <2>2. ~(a > 0) \/ ~(100 * a >= total * r.value)
    BY <1>1 DEF Outcome
  <2>3. ~(a - d > 0) \/ ~(100 * (a - d) >= (total - d) * r.value)
    BY <2>1, <2>2
  <2>4. QED
    BY <1>1, <2>3 DEF Outcome
<1>2. CASE r.type = "all"
  BY <1>2 DEF Outcome
<1>3. CASE r.type = "any"
  BY <1>3 DEF Outcome
<1>4. CASE r.type = "majority"
  BY <1>4 DEF Outcome
<1>5. CASE r.type = "count"
  BY <1>5 DEF Outcome, ValidRule
<1>6. QED
  BY <1>1, <1>2, <1>3, <1>4, <1>5 DEF ValidRule, RuleType

(* What checkCountersignSubTaskCompletion says after a vote, with y and n  *)
(* votes cast and l left, in terms of the outcomes still possible.         *)
LEMMA DecisionIsSound ==
  ASSUME NEW r, ValidRule(r), NEW y \in Nat, NEW n \in Nat, NEW l \in Nat,
         NEW t, t = y + n + l
  PROVE  /\ Decides(r, t, y + n, y) /\ Approves(r, t, y + n, y) => Outcome(r, t, y)
         /\ Decides(r, t, y + n, y) /\ ~Approves(r, t, y + n, y) => ~Outcome(r, t, y + l)
         /\ ~Decides(r, t, y + n, y) /\ (r.type = "all" => n = 0)
              => Outcome(r, t, y + l) /\ ~Outcome(r, t, y)
<1>1. t \in Nat /\ t - (y + n) = l
  OBVIOUS
<1>2. CASE r.type = "all"
  BY <1>1, <1>2 DEF Decides, Approves, Outcome
<1>3. CASE r.type = "any"
  BY <1>1, <1>3 DEF Decides, Approves, Outcome
<1>4. CASE r.type \in Threshold
  <2>1. PICK k \in Nat : k = Required(r, t)
    BY <1>1, <1>4, RequiredIsThreshold
  <2>2. (y >= k <=> Outcome(r, t, y)) /\ (y + l >= k <=> Outcome(r, t, y + l))
    BY <1>1, <1>4, <2>1, RequiredIsThreshold
  <2>3. Decides(r, t, y + n, y) <=> (y >= k \/ y + l < k)
    BY <1>1, <1>4, <2>1 DEF Decides, Threshold
  <2>4. Approves(r, t, y + n, y) <=> y >= k
    BY <1>1, <1>4, <2>1 DEF Approves, Threshold
  <2>5. QED
    BY <1>1, <2>1, <2>2, <2>3, <2>4
<1>5. QED
  BY <1>2, <1>3, <1>4 DEF ValidRule, RuleType, Threshold

(* Under the rule all one rejection is enough. *)
LEMMA VetoIsSound ==
  ASSUME NEW r, r.type = "all", NEW y \in Nat, NEW n \in Nat \ {0}, NEW l \in Nat
  PROVE  ~Outcome(r, y + n + l, y + l)
BY DEF Outcome

(* A result is one or the other. *)
LEMMA OutcomeType ==
  ASSUME NEW r, ValidRule(r), NEW t, NEW a
  PROVE  Outcome(r, t, a) \in BOOLEAN
<1>1. CASE r.type = "all"
  BY <1>1 DEF Outcome
<1>2. CASE r.type = "any"
  BY <1>2 DEF Outcome
<1>3. CASE r.type = "majority"
  BY <1>3 DEF Outcome
<1>4. CASE r.type = "percent"
  BY <1>4 DEF Outcome
<1>5. CASE r.type = "count"
  BY <1>5 DEF Outcome
<1>6. QED
  BY <1>1, <1>2, <1>3, <1>4, <1>5 DEF ValidRule, RuleType

-----------------------------------------------------------------------------
(* The inductive invariant: an open node can still go either way, and the  *)
(* least and the most favourable votes of those left agree with a verdict. *)
Undecided ==
  (verdict = "open" /\ yes + no > 0) =>
     Outcome(rule, Total, yes + left) /\ ~Outcome(rule, Total, yes)
Sealed == /\ verdict = "approved" => Outcome(rule, Total, yes)
          /\ verdict = "rejected" => ~Outcome(rule, Total, yes + left)

BInv == BTypeOK /\ Undecided /\ Sealed

LEMMA InitBInv == BInit => BInv
BY DEF BInit, BInv, BTypeOK, Verdict, Undecided, Sealed

(* No rejection is on record while a node with the rule all is open. *)
LEMMA OpenMeansNoVeto ==
  ASSUME BInv, verdict = "open", rule.type = "all"
  PROVE  no = 0
<1>1. CASE yes + no > 0
  BY <1>1 DEF BInv, BTypeOK, Undecided, Outcome, Total
<1>2. CASE ~(yes + no > 0)
  BY <1>2 DEF BInv, BTypeOK
<1>3. QED
  BY <1>1, <1>2

LEMMA CastBInv ==
  ASSUME NEW approve \in BOOLEAN, BInv, Cast(approve)
  PROVE  BInv'
<1> USE DEF BInv, BTypeOK
<1>1. PICK y \in Nat, n \in Nat, l \in Nat :
        y = yes' /\ n = no' /\ l = left - 1 /\ y + n > 0
  BY DEF Cast
<1> DEFINE t == y + n + l
<1>2. /\ rule' = rule /\ ValidRule(rule) /\ t \in Nat
      /\ rule.type = "all" /\ ~BVetoes(approve) => n = 0
      /\ BVetoes(approve) => rule.type = "all" /\ n # 0
  BY <1>1, OpenMeansNoVeto DEF Cast, BVetoes
<1> DEFINE done == BVetoes(approve) \/ Decides(rule, t, y + n, y)
           approves == ~BVetoes(approve) /\ Approves(rule, t, y + n, y)
<1>3. /\ verdict' = IF done THEN (IF approves THEN "approved" ELSE "rejected") ELSE "open"
      /\ IF done THEN left' \in 0..l ELSE left' = l
  <2>1. yes' + no' + left - 1 = t
    BY <1>1
  <2>2. QED
    BY <1>1, <2>1 DEF Cast, Settle
<1>4. /\ done /\ approves => Outcome(rule, t, y)
      /\ done /\ ~approves => ~Outcome(rule, t, y + l)
      /\ ~done => Outcome(rule, t, y + l) /\ ~Outcome(rule, t, y)
  <2>1. /\ Decides(rule, t, y + n, y) /\ Approves(rule, t, y + n, y) => Outcome(rule, t, y)
        /\ Decides(rule, t, y + n, y) /\ ~Approves(rule, t, y + n, y) => ~Outcome(rule, t, y + l)
        /\ ~Decides(rule, t, y + n, y) /\ (rule.type = "all" => n = 0)
             => Outcome(rule, t, y + l) /\ ~Outcome(rule, t, y)
    BY <1>2, DecisionIsSound
  <2>2. BVetoes(approve) => ~Outcome(rule, t, y + l)
    BY <1>2, VetoIsSound
  <2>3. QED
    BY <1>2, <2>1, <2>2
<1> HIDE DEF done, approves
<1>5. BTypeOK'
  BY <1>1, <1>2, <1>3 DEF Verdict
<1>6. PICK d \in Nat : d <= l /\ left' = l - d /\ (~done => d = 0)
  <2>1. left' \in Nat /\ left' <= l
    BY <1>1, <1>3
  <2>2. QED
    BY <1>1, <1>3, <2>1
<1>7. Total' = t - d /\ y + left' = (y + l) - d
  BY <1>1, <1>6 DEF Total
<1>8. Undecided'
  BY <1>1, <1>2, <1>3, <1>4, <1>6, <1>7 DEF Undecided
<1>9. Sealed'
  <2>1. done /\ approves => Outcome(rule, t - d, y)
    BY <1>1, <1>2, <1>4, <1>6, CancellingKeepsApproval
  <2>2. done /\ ~approves => ~Outcome(rule, t - d, (y + l) - d)
    <3>1. PICK a \in Nat : a = y + l
      OBVIOUS
    <3>2. d <= a /\ a <= t
      BY <1>6, <3>1
    <3>3. ~Outcome(rule, t, a) => ~Outcome(rule, t - d, a - d)
      BY <1>2, <3>2, CancellingKeepsRejection
    <3>4. QED
      BY <1>4, <3>1, <3>3
  <2>3. QED
    BY <1>1, <1>2, <1>3, <1>7, <2>1, <2>2 DEF Sealed
<1>10. QED
  BY <1>5, <1>8, <1>9

(* A late vote moves one voter from left to yes or no. *)
LEMMA CastLateBInv ==
  ASSUME NEW approve \in BOOLEAN, BInv, CastLate(approve)
  PROVE  BInv'
<1> USE DEF BInv, BTypeOK, CastLate
<1>1. BTypeOK'
  BY DEF Verdict
<1>2. Total' = Total /\ Total \in Nat /\ yes <= yes' /\ yes' + left' <= yes + left
      /\ yes' <= Total /\ yes + left <= Total
  BY DEF Total
<1>3. Undecided'
  BY DEF Undecided
<1>4. Sealed'
  BY <1>1, <1>2, OutcomeMonotone DEF Sealed
<1>5. QED
  BY <1>1, <1>3, <1>4

LEMMA AbandonBInv ==
  ASSUME BInv, Abandon
  PROVE  BInv'
<1> USE DEF BInv, BTypeOK, Abandon
<1>1. BTypeOK'
  BY DEF Verdict
<1>2. Total \in Nat /\ Total' = Total - left /\ yes' = yes /\ yes' + left' = (yes + left) - left
      /\ yes <= Total - left /\ yes + left <= Total /\ left <= Total /\ left <= yes + left
  BY DEF Total
<1>3. Undecided'
  BY DEF Undecided
<1>4. Sealed'
  <2>1. Outcome(rule, Total, yes) => Outcome(rule, Total - left, yes)
    BY <1>2, CancellingKeepsApproval
  <2>2. ~Outcome(rule, Total, yes + left) => ~Outcome(rule, Total - left, (yes + left) - left)
    <3>1. PICK a \in Nat : a = yes + left
      OBVIOUS
    <3>2. ~Outcome(rule, Total, a) => ~Outcome(rule, Total - left, a - left)
      BY <1>2, <3>1, CancellingKeepsRejection
    <3>3. QED
      BY <3>1, <3>2
  <2>3. QED
    BY <1>2, <2>1, <2>2 DEF Sealed
<1>5. QED
  BY <1>1, <1>3, <1>4

LEMMA NextBInv == BInv /\ [BNext]_bvars => BInv'
<1>1. BInv /\ UNCHANGED bvars => BInv'
  BY DEF bvars, BInv, BTypeOK, Undecided, Sealed, Total
<1>2. QED
  BY <1>1, CastBInv, CastLateBInv, AbandonBInv DEF BNext

LEMMA SpecBInv == BSpec => []BInv
BY InitBInv, NextBInv, PTL DEF BSpec

-----------------------------------------------------------------------------
(* The counts are never negative and a verdict is one of four. *)
THEOREM BallotTypes == BSpec => []BTypeOK
BY SpecBInv, PTL DEF BInv

(* An early decision is the one all votes together would have given, for   *)
(* every rule, percentage, count and number of voters.                     *)
THEOREM EarlyDecisionStands == BSpec => []VerdictInevitable
<1>1. BInv => VerdictInevitable
  <2> SUFFICES ASSUME BInv, NEW x \in 0..left
               PROVE  /\ verdict = "approved" => Outcome(rule, Total, yes + x)
                      /\ verdict = "rejected" => ~Outcome(rule, Total, yes + x)
    BY DEF VerdictInevitable
  <2> USE DEF BInv, BTypeOK
  <2>1. /\ Total \in Nat /\ x \in Nat
        /\ yes <= yes + x /\ yes + x <= yes + left /\ yes + left <= Total
    BY DEF Total
  <2>2. QED
    BY <2>1, OutcomeMonotone DEF Sealed
<1>2. QED
  BY SpecBInv, <1>1, PTL

(* A node that stays open after a vote could still go either way. *)
THEOREM NobodyAskedInVain == BSpec => []OpenWhileUndecided
<1>1. BInv => OpenWhileUndecided
  <2> SUFFICES ASSUME BInv, verdict = "open", yes + no > 0
               PROVE  /\ \E x \in 0..left : Outcome(rule, Total, yes + x)
                      /\ \E x \in 0..left : ~Outcome(rule, Total, yes + x)
    BY DEF OpenWhileUndecided
  <2>1. left \in 0..left /\ 0 \in 0..left /\ yes + 0 = yes
    BY DEF BInv, BTypeOK
  <2>2. Outcome(rule, Total, yes + left) /\ ~Outcome(rule, Total, yes + 0)
    BY <2>1 DEF BInv, Undecided
  <2>3. QED
    BY <2>1, <2>2
<1>2. QED
  BY SpecBInv, <1>1, PTL

(* Counting again after the rest was cancelled gives the verdict again.    *)
THEOREM RecountStands == BSpec => []RecountAgrees
<1>1. BInv => RecountAgrees
  <2> SUFFICES ASSUME BInv, verdict \in {"approved", "rejected"}, rule.type # "all"
               PROVE  /\ Decides(rule, Total, yes + no, yes)
                      /\ Approves(rule, Total, yes + no, yes) <=> verdict = "approved"
    BY DEF RecountAgrees
  <2> USE DEF BInv, BTypeOK
  <2>1. /\ Total \in Nat /\ Total = yes + no + left
        /\ yes <= yes + left /\ yes + left <= Total
    BY DEF Total
  <2>2. Outcome(rule, Total, yes) => Outcome(rule, Total, yes + left)
    BY <2>1, OutcomeMonotone
  <2>3. /\ verdict = "approved" => Outcome(rule, Total, yes)
        /\ verdict = "rejected" => ~Outcome(rule, Total, yes + left)
    BY DEF Sealed
  <2>4. Decides(rule, Total, yes + no, yes)
    BY <2>1, <2>2, <2>3, DecisionIsSound
  <2>5. Approves(rule, Total, yes + no, yes) => Outcome(rule, Total, yes)
    BY <2>1, <2>4, DecisionIsSound
  <2>6. ~Approves(rule, Total, yes + no, yes) => ~Outcome(rule, Total, yes + left)
    BY <2>1, <2>4, DecisionIsSound
  <2>7. QED
    BY <2>2, <2>3, <2>4, <2>5, <2>6
<1>2. QED
  BY SpecBInv, <1>1, PTL

(* A verdict is never changed, not by votes that come later either. *)
THEOREM VerdictStands == BSpec => VerdictFinal
<1>1. [BNext]_bvars => [verdict # "open" => verdict' = verdict]_bvars
  BY DEF BNext, Cast, CastLate, Abandon
<1>2. QED
  BY <1>1, PTL DEF BSpec, VerdictFinal
-----------------------------------------------------------------------------
(* Rejections.                                                             *)

(* A rejected main task stands before the judge: its node is asked for, or *)
(* driven, or yet to be cleared.                                           *)
Refusal(x) == x.parent = NoId /\ x.status = "completed" /\ x.reason = "rejected"
Due(n) == n \in asks \cup {at} \/ \E k \in 1..(Len(resets) - 1) : n = resets[k]
Standing == \A i \in Ids : Refusal(task[i]) => Due(task[i].node)

(* What was due is due, and new rejections are asked for. *)
LEMMA StandingSame ==
  ASSUME Standing, asks \subseteq asks', at' = at, resets' = resets,
         \A j \in DOMAIN task' : Refusal(task'[j]) =>
           \/ task'[j].node \in asks'
           \/ j \in DOMAIN task /\ Refusal(task[j]) /\ task'[j].node = task[j].node
  PROVE  Standing'
<1>1. \A n : Due(n) => Due(n)'
  BY DEF Due
<1>2. \A n \in asks' : Due(n)'
  BY DEF Due
<1>3. QED
  BY <1>1, <1>2 DEF Standing, Ids

(* A step of the drive judges them. *)
LEMMA DriveStands ==
  ASSUME DeskInv, Standing, Drive
  PROVE  Standing'
<1>. USE DEF Standing, Due, Ids
<1>1. /\ OneDrive /\ NoNode \notin Nodes /\ resets \in Seq(Nodes) /\ Len(resets) \in Nat
      /\ resets = <<>> => Len(resets) = 0
      /\ \A j \in DOMAIN task : task[j].node \in Nodes
  <2>1. resets \in Seq(Nodes)
    BY DEF DeskInv, DriveTyped
  <2>2. Len(resets) \in Nat
    BY <2>1, LenProperties
  <2>3. QED
    BY <2>1, <2>2, DriveFacts DEF DeskInv
<1>2. CASE inst # "active" /\ task' = task
  BY <1>1, <1>2 DEF OneDrive
<1>3. ASSUME NEW n \in Nodes, ExecuteNext(n), inst = "active" PROVE Standing'
  <2>1. /\ at = NoNode /\ resets = <<>> /\ n \in asks /\ at' = n /\ task' = task
        /\ \A m \in asks : m = n
    BY <1>1, <1>3 DEF ExecuteNext, GateFree, rowVars, OneDrive
  <2>2. \A j \in DOMAIN task : Refusal(task[j]) => task[j].node = n
    BY <1>1, <2>1
  <2>3. QED
    BY <2>1, <2>2
<1>4. ASSUME at \in Nodes, \A j \in DOMAIN task : task[j].node # at PROVE \A j \in DOMAIN task : ~Refusal(task[j])
  <2>1. asks = {} /\ resets = <<>>
    BY <1>1, <1>4 DEF OneDrive
  <2>2. QED
    BY <1>1, <1>4, <2>1
<1>5. ASSUME NEW n \in Nodes, Create(n) PROVE Standing'
  <2>1. NodeMade /\ at = n
    BY <1>5, CreateStep DEF Create
  <2>2. PICK m \in Nodes : \E N : m = at /\ MadeOf(m, N, task') /\ \A j \in Ids : ~Opened(task[j]) /\ task[j].node # m
    BY <2>1 DEF NodeMade
  <2>3. \A j \in DOMAIN task : ~Refusal(task[j])
    BY <1>4, <2>2
  <2>4. PICK N : MadeOf(m, N, task')
    BY <2>2
  <2>5. \A j \in DOMAIN task' : ~Refusal(task'[j])
    BY <2>3, <2>4 DEF MadeOf, Made, Refusal, Opened
  <2>6. QED
    BY <2>5
<1>6. ASSUME NEW n \in Nodes, TellSuccess(n) PROVE Standing'
  <2>1. at = n /\ task' = task /\ \A j \in MainRows(n) : ~Rejected(j)
    BY <1>6 DEF TellSuccess, Judged, Passes, SomeRejected, rowVars
  <2>2. asks = {} /\ resets = <<>>
    BY <1>1, <2>1 DEF OneDrive
  <2>3. \A j \in DOMAIN task : ~Refusal(task[j])
    BY <1>1, <2>1, <2>2 DEF MainRows, Main, Rejected, Completed, Refusal
  <2>4. QED
    BY <2>1, <2>3
<1>7. ASSUME NEW n \in Nodes, HandleRejection(n) PROVE Standing'
  <2>1. CASE EndInstance("terminated")
    <3>1. DOMAIN task' = {}
      BY <2>1 DEF EndInstance, Archive, Without
    <3>2. QED
      BY <3>1
  <2>2. CASE ~EndInstance("terminated")
    <3>1. /\ at = n /\ JumpTarget(n) # NoNode /\ task' = task
          /\ resets' = RegionSeq(JumpTarget(n), n) \o <<JumpTarget(n)>>
      BY <1>7, <2>2 DEF HandleRejection, Judged, rowVars
    <3>2. Clears(JumpTarget(n), n, resets')
      BY <3>1, JumpRegion
    <3>3. \E k \in 1..(Len(resets') - 1) : resets'[k] = n
      <4>1. PlaceOf(def, n) \in Nat
        BY DriveFacts, PlaceType
      <4>2. QED
        BY <3>2, <4>1 DEF Clears
    <3>4. asks = {} /\ resets = <<>>
      BY <1>1, <3>1 DEF OneDrive
    <3>5. \A j \in DOMAIN task : Refusal(task[j]) => task[j].node = n
      BY <1>1, <3>1, <3>4
    <3>6. QED
      BY <3>1, <3>3, <3>5
  <2>3. QED
    BY <2>1, <2>2
<1>8. ASSUME CompleteProcessInstance PROVE Standing'
  <2>1. DOMAIN task' = {}
    BY <1>8 DEF CompleteProcessInstance, EndInstance, Archive, Without
  <2>2. QED
    BY <2>1
<1>9. ASSUME SupersedeNodeTasks, inst = "active" PROVE Standing'
  <2>0. PICK t : t = resets'
    OBVIOUS
  <2>1. /\ Len(resets) > 1 /\ t = Tail(resets) /\ asks' = asks /\ at' = at
        /\ Archive(AtNode(Head(resets)))
    BY <1>9, <2>0 DEF SupersedeNodeTasks
  <2>2. resets # <<>> /\ Head(resets) = resets[1]
    BY <1>1, <2>1
  <2>3. Len(t) = Len(resets) - 1 /\ \A k \in 1..Len(t) : t[k] = resets[k + 1]
    BY <1>1, <2>1, <2>2, HeadTailProperties
  <2>4. Left(task, AtNode(resets[1]), task')
    BY <2>1, <2>2, DriveFacts, WithoutLeft DEF Archive
  <2>5. ASSUME NEW j \in DOMAIN task', Refusal(task'[j])
        PROVE  task'[j].node \in asks' \cup {at'} \/ \E k \in 1..(Len(t) - 1) : task'[j].node = t[k]
    <3>1. j \in DOMAIN task /\ Refusal(task[j]) /\ task'[j].node = task[j].node /\ task[j].node # resets[1]
      BY <2>4, <2>5 DEF Left, Alike, Refusal, AtNode
    <3>2. CASE task[j].node \in asks \cup {at}
      BY <2>1, <3>1, <3>2
    <3>3. CASE task[j].node \notin asks \cup {at}
      <4>1. PICK k \in 1..(Len(resets) - 1) : task[j].node = resets[k]
        BY <3>1, <3>3
      <4>2. k # 1
        BY <3>1, <4>1
      <4>3. k - 1 \in 1..(Len(t) - 1) /\ k - 1 \in 1..Len(t) /\ (k - 1) + 1 = k
        BY <1>1, <2>3, <4>1, <4>2
      <4>4. t[k - 1] = resets[k]
        BY <2>3, <4>3
      <4>5. QED
        BY <3>1, <4>1, <4>3, <4>4
    <3>4. QED
      BY <3>2, <3>3
  <2>6. QED
    BY <2>0, <2>5
<1>10. ASSUME Jump, inst = "active" PROVE Standing'
  <2>1. Len(resets) = 1 /\ task' = task
    BY <1>10 DEF Jump, rowVars
  <2>2. resets # <<>>
    BY <1>1, <2>1
  <2>3. asks = {} /\ at = NoNode
    BY <1>1, <2>2 DEF OneDrive
  <2>4. \A k \in 1..(Len(resets) - 1) : FALSE
    BY <2>1
  <2>5. \A j \in DOMAIN task : ~Refusal(task[j])
    BY <1>1, <2>3, <2>4
  <2>6. QED
    BY <2>1, <2>5
<1>11. Drive => \/ \E n \in Nodes : \/ ExecuteNext(n) /\ inst = "active"
                                    \/ Create(n) \/ TellSuccess(n) \/ HandleRejection(n)
                \/ CompleteProcessInstance
                \/ SupersedeNodeTasks /\ inst = "active"
                \/ Jump /\ inst = "active"
                \/ inst # "active" /\ task' = task
  BY DEF Drive, ExecuteNext, SupersedeNodeTasks, Jump, StopAtEnded, rowVars
<1>12. QED
  BY <1>2, <1>3, <1>5, <1>6, <1>7, <1>8, <1>9, <1>10, <1>11

(* Every other step leaves them, or asks for the drive. *)
LEMMA StandingStep ==
  ASSUME DeskInv, DeskInv', Standing, [Next]_vars
  PROVE  Standing'
<1>1. CASE Idle \/ UNCHANGED vars
  BY <1>1 DEF Idle, vars, rowVars, driveVars, histVars, Standing, Due, Ids
<1>2. CASE Ended
  <2>1. Archive(Ids)
    BY <1>2 DEF Ended, EndInstance
  <2>2. DOMAIN task' = {}
    BY <2>1 DEF Archive, Without, Ids
  <2>3. QED
    BY <2>2 DEF Standing, Ids
<1>3. CASE TaskPassed
  <2>1. \A j \in DOMAIN task' : Refusal(task'[j]) => j \in DOMAIN task /\ task'[j] = task[j]
    BY <1>3 DEF TaskPassed, Passed, Refusal, Opened
  <2>2. QED
    BY <1>3, <2>1, StandingSame DEF TaskPassed, Settled
<1>4. CASE TaskClaimed
  <2>1. \A j \in DOMAIN task' : Refusal(task'[j]) =>
          j \in DOMAIN task /\ Refusal(task[j]) /\ task'[j].node = task[j].node
    BY <1>4 DEF TaskClaimed, Claimed, Refusal
  <2>2. QED
    BY <1>4, <2>1, StandingSame DEF TaskClaimed, Settled
<1>5. CASE TaskGivenBack
  <2>1. \A j \in DOMAIN task' : Refusal(task'[j]) =>
          j \in DOMAIN task /\ Refusal(task[j]) /\ task'[j].node = task[j].node
    BY <1>5 DEF TaskGivenBack, GivesBack, Refusal
  <2>2. QED
    BY <1>5, <2>1, StandingSame DEF TaskGivenBack, Settled
<1>6. CASE TaskAnswered
  <2>1. PICK i \in Ids : \E T : /\ asks' = asks \cup {task[i].node}
                                /\ RowsAfter(task', task, {i}, T, "sibling")
    BY <1>6 DEF TaskAnswered
  <2>2. PICK T : RowsAfter(task', task, {i}, T, "sibling")
    BY <2>1
  <2>3. \A j \in DOMAIN task' : Refusal(task'[j]) =>
          \/ task'[j].node \in asks'
          \/ j \in DOMAIN task /\ Refusal(task[j]) /\ task'[j].node = task[j].node
    BY <2>1, <2>2 DEF RowsAfter, RowAfter, Refusal
  <2>4. QED
    BY <1>6, <2>1, <2>3, StandingSame DEF TaskAnswered, Kept
<1>7. CASE TaskVoted
  <2>1. PICK i \in Ids : task[i].parent # NoId /\ RowsAfter(task', task, {i}, {}, "sibling")
    BY <1>7 DEF TaskVoted
  <2>2. \A j \in DOMAIN task' : Refusal(task'[j]) =>
          j \in DOMAIN task /\ Refusal(task[j]) /\ task'[j].node = task[j].node
    BY <2>1 DEF RowsAfter, RowAfter, Refusal
  <2>3. QED
    BY <1>7, <2>2, StandingSame DEF TaskVoted, Settled
<1>8. CASE TaskDecided
  <2>0. PICK i \in Ids, w \in Vote : \E mid, T : task[i].parent # NoId /\ VoteEnds(i, mid, T, w)
    BY <1>8 DEF TaskDecided
  <2>1. PICK mid, T : VoteEnds(i, mid, T, w)
    BY <2>0
  <2>2. PICK p : p = task[i].parent
    OBVIOUS
  <2>3. /\ RowsAfter(mid, task, {i}, {}, "sibling") /\ RowsAfter(task', mid, {p}, T, "threshold")
        /\ asks' = asks \cup {task[i].node}
    BY <2>1, <2>2 DEF VoteEnds
  <2>4. p \in DOMAIN task => task[p].node = task[i].node
    BY <2>0, <2>2 DEF DeskInv, RowInv, Family, Ids
  <2>5. \A j \in DOMAIN mid : Refusal(mid[j]) => j \in DOMAIN task /\ Refusal(task[j])
    BY <2>0, <2>3 DEF RowsAfter, RowAfter, Refusal
  <2>6. \A j \in DOMAIN task' : Refusal(task'[j]) => j = p \/ Refusal(mid[j])
    BY <2>3 DEF RowsAfter, RowAfter, Refusal
  <2>7. DOMAIN mid = DOMAIN task /\ DOMAIN task' = DOMAIN task /\ \A j \in DOMAIN task : task'[j].node = task[j].node
    BY <2>3 DEF RowsAfter, RowAfter
  <2>8. \A j \in DOMAIN task' : Refusal(task'[j]) =>
          \/ task'[j].node \in asks'
          \/ j \in DOMAIN task /\ Refusal(task[j]) /\ task'[j].node = task[j].node
    BY <2>3, <2>4, <2>5, <2>6, <2>7
  <2>9. QED
    BY <1>8, <2>3, <2>8, StandingSame DEF TaskDecided, Kept
<1>9. CASE TaskSigned
  <2>1. PICK m \in Ids : \E N : Signers(m, N, task')
    BY <1>9 DEF TaskSigned
  <2>2. \A j \in DOMAIN task' : Refusal(task'[j]) => j \in DOMAIN task /\ task'[j] = task[j]
    BY <2>1 DEF Signers, Refusal
  <2>3. QED
    BY <1>9, <2>2, StandingSame DEF TaskSigned, Settled
<1>10. CASE TaskReduced
  <2>1. PICK gone : Left(task, gone, task')
    BY <1>10 DEF TaskReduced
  <2>2. \A j \in DOMAIN task' : Refusal(task'[j]) =>
          j \in DOMAIN task /\ Refusal(task[j]) /\ task'[j].node = task[j].node
    BY <2>1 DEF Left, Alike, Refusal
  <2>3. QED
    BY <1>10, <2>2, StandingSame DEF TaskReduced, Settled
<1>11. CASE ReducedDecided
  <2>0. PICK m \in Ids : \E gone, mid : /\ Left(task, gone, mid) /\ RowsAfter(task', mid, {m}, {}, "sibling")
                                        /\ asks' = asks \cup {task[m].node}
    BY <1>11 DEF ReducedDecided
  <2>1. PICK gone, mid : Left(task, gone, mid) /\ RowsAfter(task', mid, {m}, {}, "sibling")
    BY <2>0
  <2>2. \A j \in DOMAIN mid : j \in DOMAIN task /\ mid[j].node = task[j].node /\ (Refusal(mid[j]) => Refusal(task[j]))
    BY <2>1 DEF Left, Alike, Refusal
  <2>3. \A j \in DOMAIN task' : j \in DOMAIN mid /\ task'[j].node = mid[j].node /\ (Refusal(task'[j]) => j = m \/ Refusal(mid[j]))
    BY <2>1 DEF RowsAfter, RowAfter, Refusal
  <2>4. \A j \in DOMAIN task' : Refusal(task'[j]) =>
          \/ task'[j].node \in asks'
          \/ j \in DOMAIN task /\ Refusal(task[j]) /\ task'[j].node = task[j].node
    BY <2>0, <2>2, <2>3
  <2>5. QED
    BY <1>11, <2>0, <2>4, StandingSame DEF ReducedDecided, Kept
<1>12. CASE TaskRecalled
  <2>1. PICK t \in Ids : Recalled(t, task[t].node)
    BY <1>12 DEF TaskRecalled
  <2>2. \A j \in DOMAIN task' : Refusal(task'[j]) =>
          j \in DOMAIN task /\ Refusal(task[j]) /\ task'[j].node = task[j].node
    BY <2>1 DEF Recalled, KeptAs, Renewed, Refusal, Ids
  <2>3. QED
    BY <1>12, <2>2, StandingSame DEF TaskRecalled
<1>13. CASE \E i \in Ids, u \in People, n \in Nodes : Return(u, i, n)
  <2>1. PICK i \in Ids, u \in People, n \in Nodes : Return(u, i, n)
    BY <1>13
  <2>2. Archive(ReturnRegion(n, i)) /\ asks' = asks \cup {n} /\ at' = at /\ resets' = resets
    BY <2>1 DEF Return, Ask
  <2>3. Left(task, ReturnRegion(n, i), task')
    BY <2>2, DriveFacts, WithoutLeft DEF Archive
  <2>4. \A j \in DOMAIN task' : Refusal(task'[j]) =>
          j \in DOMAIN task /\ Refusal(task[j]) /\ task'[j].node = task[j].node
    BY <2>3 DEF Left, Alike, Refusal
  <2>5. QED
    BY <2>2, <2>4, StandingSame
<1>14. CASE \E u \in People : RecallCompleted(u)
  <2>1. task' = task /\ inst = "completed"
    BY <1>14 DEF RecallCompleted, rowVars
  <2>2. Ids = {}
    BY <2>1 DEF DeskInv, OneDrive
  <2>3. QED
    BY <2>1, <2>2 DEF Standing, Ids
<1>15. CASE Drive
  BY <1>15, DriveStands
<1>16. CASE Returning
  <2>1. Withdraw => Ended
    BY DEF Withdraw, Ended
  <2>2. QED
    BY <1>2, <1>12, <1>13, <1>14, <1>16, <2>1, RecallStep DEF Returning
<1>17. QED
  BY <1>1, <1>2, <1>3, <1>4, <1>5, <1>6, <1>7, <1>8, <1>9, <1>10, <1>11, <1>15, <1>16,
     OwnershipStep, SigningStep DEF Next, Answers, Reduces

-----------------------------------------------------------------------------
(* The votes.                                                              *)

(* What definitions on which votes are counted leave out where there are   *)
(* votes.                                                                  *)
LEMMA WhereVotes ==
  ASSUME Apart(def), Counted(def), NEW n \in NodesOf(def), VoteNode(def, n)
  PROVE  /\ "Recall" \in def.uses =>
              def.uses \cap {"SetAssignee", "SetOwner", "Reassign", "Delegate", "Transfer"} = {}
         /\ ~("Claim" \in def.uses /\ "SetAssignee" \in def.uses)
<1>. DEFINE votes == {m \in ToSet(def.nodes) : def.mode[m] \in {"countersign", "vote"}}
<1>1. n \in votes /\ votes # {}
  BY DEF VoteNode, NodesOf
<1>2. "Recall" \in def.uses => def.uses \cap {"SetAssignee", "SetOwner", "Reassign"} = {}
  BY <1>1 DEF Apart
<1>3. "Recall" \in def.uses => def.uses \cap {"Delegate", "Transfer"} = {}
  BY <1>1 DEF Counted
<1>4. ~("Claim" \in def.uses /\ "SetAssignee" \in def.uses)
  BY <1>1 DEF Counted
<1>5. QED
  BY <1>2, <1>3, <1>4

(* A voter is judged as the parent is, and cut off only by its end; a vote *)
(* that can be recalled was never passed on.                               *)
VotingOf(f, rows, j) ==
  rows[j].parent # NoId /\ VoteNode(f, rows[j].node) =>
    /\ rows[j].fallback = rows[rows[j].parent].fallback
    /\ rows[j].status = "terminated" =>
         rows[j].reason = "threshold" /\ rows[rows[j].parent].status = "completed"
    /\ "Recall" \in f.uses => rows[j].owner = Nobody
Voting(f, rows) == \A j \in DOMAIN rows : VotingOf(f, rows, j)

(* A change that leaves that. *)
Steady(f, x, w) ==
  /\ x.fallback = w.fallback
  /\ "Recall" \in f.uses => x.owner \in {w.owner, Nobody}
  /\ x.status = "terminated" => w.status = "terminated" /\ x.reason = w.reason
  /\ w.status = "completed" => x.status = "completed"
Placed(x, w) == x.node = w.node /\ x.parent = w.parent

(* Such a change of a voter and its parent. *)
LEMMA VotingKept ==
  ASSUME NEW f, NEW rows, Voting(f, rows), NEW r, NEW j \in DOMAIN rows, Placed(r[j], rows[j]),
         rows[j].parent # NoId /\ VoteNode(f, rows[j].node) =>
           Steady(f, r[j], rows[j]) /\ Steady(f, r[rows[j].parent], rows[rows[j].parent])
  PROVE  VotingOf(f, r, j)
<1>1. SUFFICES ASSUME rows[j].parent # NoId, VoteNode(f, rows[j].node) PROVE VotingOf(f, r, j)
  BY DEF VotingOf, Placed
<1>2. PICK p : p = rows[j].parent
  OBVIOUS
<1>3. /\ rows[j].fallback = rows[p].fallback
      /\ rows[j].status = "terminated" => rows[j].reason = "threshold" /\ rows[p].status = "completed"
      /\ "Recall" \in f.uses => rows[j].owner = Nobody
  BY <1>1, <1>2 DEF Voting, VotingOf
<1>4. Steady(f, r[j], rows[j]) /\ Steady(f, r[p], rows[p]) /\ r[j].parent = p
  BY <1>1, <1>2 DEF Placed
<1>5. QED
  BY <1>2, <1>3, <1>4 DEF Steady, VotingOf

(* Such a change of all voters and parents. *)
LEMMA VotingSame ==
  ASSUME DeskInv, Voting(def, task), NEW r, Family(def, r),
         \A j \in DOMAIN r : /\ j \in DOMAIN task /\ Placed(r[j], task[j])
                             /\ VoteNode(def, task[j].node) => Steady(def, r[j], task[j])
  PROVE  Voting(def, r)
<1>1. ASSUME NEW j \in DOMAIN r PROVE VotingOf(def, r, j)
  <2>1. j \in DOMAIN task /\ Placed(r[j], task[j])
    BY <1>1
  <2>2. ASSUME task[j].parent # NoId, VoteNode(def, task[j].node)
        PROVE  Steady(def, r[j], task[j]) /\ Steady(def, r[task[j].parent], task[task[j].parent])
    <3>1. PICK p : p = task[j].parent
      OBVIOUS
    <3>2. p \in DOMAIN r
      BY <2>1, <2>2, <3>1 DEF Family, Placed
    <3>3. task[p].node = task[j].node
      BY <2>1, <2>2, <3>1 DEF DeskInv, RowInv, Family
    <3>4. QED
      BY <1>1, <2>2, <3>1, <3>2, <3>3
  <2>3. QED
    BY <2>1, <2>2, VotingKept
<1>2. QED
  BY <1>1 DEF Voting

(* Rows of which some are answered, and none of a node of votes ends. *)
LEMMA VotingAfter ==
  ASSUME DeskInv, Voting(def, task), NEW r, NEW A, NEW T, NEW why, RowsAfter(r, task, A, T, why),
         Family(def, r), \A j \in T : OrSigned(def, task[j].node)
  PROVE  Voting(def, r)
<1>1. ASSUME NEW j \in DOMAIN r
      PROVE  /\ j \in DOMAIN task /\ Placed(r[j], task[j])
             /\ VoteNode(def, task[j].node) => Steady(def, r[j], task[j])
  <2>1. j \in DOMAIN task /\ RowAfter(r[j], task[j], task[j].node, j, A, T, why)
    BY <1>1 DEF RowsAfter
  <2>2. VoteNode(def, task[j].node) => j \notin T
    BY VotesNoOrSign
  <2>3. QED
    BY <2>1, <2>2 DEF RowAfter, Placed, Steady
<1>2. QED
  BY <1>1, VotingSame

(* The operations on ownership leave the votes so. *)
LEMMA VotingOwned ==
  ASSUME DeskInv, Base(def, task), Counted(def), Voting(def, task), NEW r, r = task', Family(def, r),
         TaskPassed \/ TaskClaimed \/ TaskGivenBack
  PROVE  Voting(def, r)
<1>1. /\ Apart(def) /\ Claims(def, task) /\ \A j \in DOMAIN task : task[j].node \in NodesOf(def)
  BY DEF DeskInv, RowInv, Typed
<1>2. CASE TaskPassed
  <2>1. PICK i \in Ids : Passed(def, task, i, r)
    BY <1>2 DEF TaskPassed
  <2>2. ASSUME NEW j \in DOMAIN r
        PROVE  /\ j \in DOMAIN task /\ Placed(r[j], task[j])
               /\ VoteNode(def, task[j].node) => Steady(def, r[j], task[j])
    <3>1. j \in DOMAIN task /\ Placed(r[j], task[j])
      BY <2>1, <2>2 DEF Passed, Placed
    <3>2. CASE j # i
      BY <2>1, <3>1, <3>2 DEF Passed, Steady
    <3>3. ASSUME j = i, VoteNode(def, task[j].node) PROVE Steady(def, r[j], task[j])
      <4>1. "Recall" \in def.uses => def.uses \cap {"SetOwner", "Delegate"} = {}
        BY <1>1, <3>1, <3>3, WhereVotes
      <4>2. "Recall" \in def.uses => r[j].owner \in {task[j].owner, Nobody}
        BY <2>1, <3>3, <4>1 DEF Passed, Hands
      <4>3. Opened(task[j]) /\ Opened(r[j]) /\ r[j].fallback = task[j].fallback
        BY <2>1, <3>3 DEF Passed
      <4>4. QED
        BY <4>2, <4>3 DEF Steady, Opened
    <3>4. QED
      BY <3>1, <3>2, <3>3
  <2>3. QED
    BY <2>2, VotingSame
<1>3. CASE TaskClaimed
  <2>1. PICK i, u, O : Claimed(task, i, u, O, r)
    BY <1>3 DEF TaskClaimed
  <2>2. /\ DOMAIN r = DOMAIN task /\ i \in DOMAIN task /\ task[i].status = "pending" /\ r[i].status = "active"
        /\ \A j \in DOMAIN task : Placed(r[j], task[j]) /\ r[j].fallback = task[j].fallback /\ r[j].owner = task[j].owner
        /\ \A j : j \in O <=> j \in DOMAIN task /\ j # i /\ task[j].node = task[i].node /\ task[j].status = "pending"
        /\ \A j \in DOMAIN task : j # i /\ j \notin O => r[j].status = task[j].status /\ r[j].reason = task[j].reason
    BY <2>1 DEF Claimed, Placed
  <2>3. ASSUME NEW j \in O, VoteNode(def, task[j].node) PROVE FALSE
    <3>1. task[j].assignee = Nobody /\ task[i].assignee = Nobody /\ j \in DOMAIN task
      BY <1>1, <2>2 DEF Claims
    <3>2. "SetAssignee" \in def.uses
      <4>1. CASE task[j].parent # NoId \/ task[i].parent # NoId
        BY <2>2, <3>1, <4>1 DEF Base, Sincere, Faced
      <4>2. CASE task[j].parent = NoId /\ task[i].parent = NoId
        BY <2>2, <4>2 DEF Base, Lone
      <4>3. QED
        BY <4>1, <4>2
    <3>3. QED
      BY <1>1, <1>3, <2>3, <3>1, <3>2, WhereVotes DEF TaskClaimed
  <2>4. ASSUME NEW j \in DOMAIN r
        PROVE  /\ j \in DOMAIN task /\ Placed(r[j], task[j])
               /\ VoteNode(def, task[j].node) => Steady(def, r[j], task[j])
    BY <2>2, <2>3, <2>4 DEF Steady
  <2>5. QED
    BY <2>4, VotingSame
<1>4. CASE TaskGivenBack
  <2>1. PICK i, J : GivesBack(task, i, J, r)
    BY <1>4 DEF TaskGivenBack
  <2>2. /\ DOMAIN r = DOMAIN task /\ i \in DOMAIN task /\ task[i].status = "active" /\ r[i].status = "pending"
        /\ \A j \in DOMAIN task : Placed(r[j], task[j]) /\ r[j].fallback = task[j].fallback /\ r[j].owner = task[j].owner
        /\ \A j : j \in J <=> j \in DOMAIN task /\ j # i /\ task[j].node = task[i].node /\ task[j].closedBy = i
        /\ \A j \in DOMAIN task : j # i /\ j \notin J => r[j] = task[j]
    BY <2>1 DEF GivesBack, Placed
  <2>3. ASSUME NEW j \in J, VoteNode(def, task[j].node) PROVE FALSE
    <3>1. i # NoId
      BY <2>2, RowBounds DEF DeskInv, RowInv, Typed, NoId, Id
    <3>2. {"Claim", "SetAssignee"} \subseteq def.uses /\ j \in DOMAIN task
      BY <2>2, <2>3, <3>1 DEF Base, Sincere, Faced
    <3>3. QED
      BY <1>1, <2>3, <3>2, WhereVotes
  <2>4. ASSUME NEW j \in DOMAIN r
        PROVE  /\ j \in DOMAIN task /\ Placed(r[j], task[j])
               /\ VoteNode(def, task[j].node) => Steady(def, r[j], task[j])
    BY <2>2, <2>3, <2>4 DEF Steady
  <2>5. QED
    BY <2>4, VotingSame
<1>5. QED
  BY <1>2, <1>3, <1>4

(* New tasks come with their parent's judgement. *)
LEMMA VotingMade ==
  ASSUME DeskInv, Voting(def, task), NEW r, r = task', NodeMade
  PROVE  Voting(def, r)
<1>1. PICK n, N : MadeOf(n, N, r)
  BY DEF NodeMade
<1>2. /\ \A j : j \in DOMAIN r <=> j \in DOMAIN task \/ j \in N
      /\ \A j \in DOMAIN task : r[j] = task[j]
      /\ \A k \in N : Made(r[k], n) /\ k # NoId
      /\ Shaped(n, N, r)
  BY <1>1 DEF MadeOf, Ids
<1>3. Family(def, task)
  BY DEF DeskInv, RowInv
<1>4. ASSUME NEW j \in DOMAIN task PROVE VotingOf(def, r, j)
  BY <1>2, <1>3, <1>4 DEF Voting, VotingOf, Family
<1>5. ASSUME NEW j \in N PROVE VotingOf(def, r, j)
  <2>1. SUFFICES ASSUME r[j].parent # NoId PROVE VotingOf(def, r, j)
    BY DEF VotingOf
  <2>2. r[j].fallback = r[r[j].parent].fallback /\ r[j].status = "active"
    BY <1>2, <1>5, <2>1 DEF Shaped, Voters
  <2>3. r[j].owner = Nobody
    BY <1>2, <1>5 DEF Made
  <2>4. QED
    BY <2>2, <2>3 DEF VotingOf
<1>6. QED
  BY <1>2, <1>4, <1>5 DEF Voting

(* New signers come with it. *)
LEMMA VotingSigned ==
  ASSUME DeskInv, Counted(def), Voting(def, task), NEW r, r = task', TaskSigned
  PROVE  Voting(def, r)
<1>1. PICK m \in Ids : \E N : task[m].parent = NoId /\ Signers(m, N, r)
  BY DEF TaskSigned
<1>2. PICK N : Signers(m, N, r)
  BY <1>1
<1>3. /\ \A j : j \in DOMAIN r <=> j \in DOMAIN task \/ j \in N
      /\ \A j \in DOMAIN task : r[j] = task[j]
      /\ \A k \in N : /\ r[k].node = task[m].node /\ r[k].parent = m /\ r[k].status = "active"
                      /\ JudgesAs(r[k], task[m]) /\ r[k].owner = task[m].owner
  BY <1>2 DEF Signers
<1>4. /\ RowInv(def, task, answered) /\ m \in DOMAIN task /\ Apart(def) /\ task[m].node \in NodesOf(def)
      /\ "AddSign" \in def.uses
  BY DEF DeskInv, RowInv, Typed, Ids, TaskSigned
<1>5. ASSUME NEW j \in DOMAIN task PROVE VotingOf(def, r, j)
  BY <1>3, <1>4, <1>5 DEF Voting, VotingOf, RowInv, Family
<1>6. ASSUME NEW j \in N PROVE VotingOf(def, r, j)
  <2>1. SUFFICES ASSUME VoteNode(def, task[m].node) PROVE VotingOf(def, r, j)
    BY <1>3, <1>6 DEF VotingOf
  <2>2. ASSUME "Recall" \in def.uses PROVE task[m].owner = Nobody
    <3>1. AskedBy(def, task[m].node) # <<>>
      BY <1>4, <2>2 DEF Apart, NodesOf, AskedBy
    <3>2. QED
      BY <1>1, <1>4, <2>1, <2>2, <3>1 DEF RowInv, Recallable, Aggregate
  <2>3. r[j].fallback = r[m].fallback
    BY <1>3, <1>4, <1>6, <2>1 DEF JudgesAs, ByVotes, VoteNode
  <2>4. QED
    BY <1>3, <1>6, <2>2, <2>3 DEF VotingOf
<1>7. QED
  BY <1>3, <1>5, <1>6 DEF Voting

(* A vote that ends its parent cuts the others off. *)
LEMMA VotingDecided ==
  ASSUME DeskInv, Voting(def, task), NEW i \in Ids, task[i].parent # NoId,
         NEW p, p = task[i].parent, NEW mid, NEW r, NEW T,
         RowsAfter(mid, task, {i}, {}, "sibling"), RowsAfter(r, mid, {p}, T, "threshold"),
         \A j : j \in T <=> j \in DOMAIN mid /\ mid[j].parent = p /\ Opened(mid[j])
  PROVE  Voting(def, mid) /\ Voting(def, r)
<1>1. /\ Family(def, task) /\ i \in DOMAIN task /\ i # NoId
      /\ p \in DOMAIN task /\ task[p].parent = NoId
  BY RowBounds DEF DeskInv, RowInv, Family, Ids, Typed, NoId, Id
<1>2. /\ DOMAIN mid = DOMAIN task
      /\ \A j \in DOMAIN task : Placed(mid[j], task[j]) /\ mid[j].born = task[j].born
  BY DEF RowsAfter, RowAfter, Placed
<1>3. Family(def, mid)
  <2>1. ASSUME NEW j \in DOMAIN mid, mid[j].parent # NoId, NEW q, q = mid[j].parent
        PROVE  /\ ~OrSigned(def, mid[j].node) /\ q \in DOMAIN mid /\ mid[q].parent = NoId
               /\ mid[q].node = mid[j].node /\ mid[q].born <= mid[j].born
    <3>1. task[j].parent = q
      BY <1>2, <2>1 DEF Placed
    <3>2. /\ ~OrSigned(def, task[j].node) /\ q \in DOMAIN task /\ task[q].parent = NoId
          /\ task[q].node = task[j].node /\ task[q].born <= task[j].born
      BY <1>1, <1>2, <2>1, <3>1 DEF Family
    <3>3. QED
      BY <1>2, <2>1, <3>2 DEF Placed
  <2>2. QED
    BY <2>1 DEF Family
<1>4. Voting(def, mid)
  BY <1>3, VotingAfter
<1>5. ASSUME NEW j \in DOMAIN r PROVE VotingOf(def, r, j)
  <2>1. SUFFICES ASSUME r[j].parent # NoId PROVE VotingOf(def, r, j)
    BY DEF VotingOf
  <2>2. /\ j \in DOMAIN mid /\ RowAfter(r[j], mid[j], mid[j].node, j, {p}, T, "threshold")
        /\ j # p
    BY <1>1, <1>2, <2>1 DEF RowsAfter, RowAfter, Placed
  <2>3. PICK q : q = mid[j].parent
    OBVIOUS
  <2>4. /\ q \in DOMAIN mid /\ RowAfter(r[q], mid[q], mid[q].node, q, {p}, T, "threshold")
        /\ q \notin T
    <3>1. mid[j].parent # NoId
      BY <2>1, <2>2 DEF RowAfter
    <3>2. q \in DOMAIN mid /\ mid[q].parent = NoId
      BY <1>3, <2>2, <2>3, <3>1 DEF Family
    <3>3. p # NoId
      OBVIOUS
    <3>4. QED
      BY <3>2, <3>3 DEF RowsAfter
  <2>5. CASE j \notin T
    <3>1. Steady(def, r[j], mid[j]) /\ Placed(r[j], mid[j])
      BY <2>2, <2>5 DEF RowAfter, Steady, Placed
    <3>2. Steady(def, r[q], mid[q])
      BY <2>4 DEF RowAfter, Steady
    <3>3. QED
      BY <1>4, <2>2, <2>3, <3>1, <3>2, VotingKept
  <2>6. CASE j \in T
    <3>1. /\ r[j].status = "terminated" /\ r[j].reason = "threshold" /\ q = p /\ r[p].status = "completed"
          /\ r[j].parent = q /\ r[j].node = mid[j].node
          /\ r[j].fallback = mid[j].fallback /\ r[q].fallback = mid[q].fallback /\ r[j].owner = mid[j].owner
      BY <2>2, <2>3, <2>4, <2>6 DEF RowAfter
    <3>2. VotingOf(def, mid, j)
      BY <1>4, <2>2 DEF Voting
    <3>3. QED
      BY <2>3, <3>1, <3>2 DEF VotingOf
  <2>7. QED
    BY <2>5, <2>6
<1>6. QED
  BY <1>4, <1>5 DEF Voting

(* A recall takes the cut off back with their parent. *)
LEMMA VotingRecalled ==
  ASSUME DeskInv, Voting(def, task), NEW r, r = task', Family(def, r), TaskRecalled
  PROVE  Voting(def, r)
<1>1. PICK t \in Ids : Recalled(t, task[t].node)
  BY DEF TaskRecalled
<1>2. PICK F : F = Fresh(1)
  OBVIOUS
<1>3. /\ CanRecall(t)
      /\ \A j : j \in DOMAIN r <=> (j \in DOMAIN task /\ j \notin GoneBy(t)) \/ j = F
      /\ F \notin DOMAIN task
      /\ \A j \in DOMAIN task : j \notin GoneBy(t) => KeptAs(r[j], task[j], j \in BackBy(t))
      /\ Renewed(r[F], t, task[t].node)
  BY <1>1, <1>2 DEF Recalled, Recalls, Ids
<1>4. /\ Family(def, task) /\ Ids = DOMAIN task /\ "Recall" \in def.uses
      /\ \A j \in DOMAIN task : j # NoId
  BY <1>3, RowBounds DEF DeskInv, RowInv, Typed, NoId, Id, Ids, CanRecall
<1>5. ASSUME NEW j \in DOMAIN task, j \notin GoneBy(t), r[j].parent # NoId, VoteNode(def, r[j].node)
      PROVE  VotingOf(def, r, j)
  <2>1. KeptAs(r[j], task[j], j \in BackBy(t)) /\ j \in DOMAIN r
    BY <1>3, <1>5
  <2>2. PICK q : q = task[j].parent
    OBVIOUS
  <2>3. /\ q # NoId /\ r[j].parent = q /\ r[j].node = task[j].node
    BY <1>5, <2>1, <2>2 DEF KeptAs
  <2>4. q \in DOMAIN task /\ task[q].parent = NoId /\ q \in DOMAIN r
    BY <1>4, <1>5, <2>1, <2>2, <2>3 DEF Family
  <2>5. KeptAs(r[q], task[q], q \in BackBy(t))
    BY <1>3, <2>4
  <2>6. /\ task[j].fallback = task[q].fallback
        /\ task[j].status = "terminated" => task[j].reason = "threshold" /\ task[q].status = "completed"
        /\ task[j].owner = Nobody
    BY <1>4, <1>5, <2>2, <2>3 DEF Voting, VotingOf
  <2>7. r[j].fallback = r[q].fallback /\ r[j].owner = Nobody
    BY <2>1, <2>5, <2>6 DEF KeptAs
  <2>8. r[j].status = "terminated" => r[j].reason = "threshold" /\ r[q].status = "completed"
    <3>1. SUFFICES ASSUME r[j].status = "terminated" PROVE r[j].reason = "threshold" /\ r[q].status = "completed"
      OBVIOUS
    <3>2. j \notin BackBy(t) /\ task[j].status = "terminated" /\ r[j].reason = task[j].reason
      BY <2>1, <3>1 DEF KeptAs
    <3>3. q \notin BackBy(t)
      <4>1. SUFFICES ASSUME q \in BackBy(t) PROVE FALSE
        OBVIOUS
      <4>2. q \notin CutOff(t)
        <5>1. SUFFICES ASSUME q \in CutOff(t) PROVE FALSE
          OBVIOUS
        <5>2. task[t].parent = NoId /\ Reopened(t) # {}
          BY <2>4, <5>1 DEF CutOff
        <5>3. QED
          BY <1>4, <5>2 DEF Reopened
      <4>3. q \in Reopened(t)
        BY <4>1, <4>2 DEF BackBy
      <4>4. j \in CutOff(t)
        BY <1>4, <2>2, <2>6, <3>2, <4>3 DEF Reopened, CutOff
      <4>5. QED
        BY <3>2, <4>4 DEF BackBy
    <3>4. QED
      BY <2>5, <2>6, <3>2, <3>3 DEF KeptAs
  <2>9. QED
    BY <2>3, <2>7, <2>8 DEF VotingOf
<1>6. VotingOf(def, r, F)
  <2>1. SUFFICES ASSUME r[F].parent # NoId, VoteNode(def, r[F].node) PROVE VotingOf(def, r, F)
    BY DEF VotingOf
  <2>2. PICK q : q = task[t].parent
    OBVIOUS
  <2>3. r[F].parent = q /\ r[F].node = task[t].node /\ r[F].status = "active"
        /\ r[F].fallback = task[t].fallback /\ r[F].owner = task[t].owner
    BY <1>3, <2>2 DEF Renewed
  <2>4. q \in DOMAIN task /\ q \in DOMAIN r
    BY <1>3, <1>4, <2>1, <2>2, <2>3 DEF Family
  <2>5. KeptAs(r[q], task[q], q \in BackBy(t))
    BY <1>3, <2>4
  <2>6. task[t].fallback = task[q].fallback /\ task[t].owner = Nobody
    BY <1>4, <2>1, <2>2, <2>3 DEF Voting, VotingOf
  <2>7. r[q].fallback = task[q].fallback
    BY <2>5 DEF KeptAs
  <2>8. QED
    BY <2>3, <2>6, <2>7 DEF VotingOf
<1>7. QED
  <2>1. ASSUME NEW j \in DOMAIN r PROVE VotingOf(def, r, j)
    BY <1>3, <1>5, <1>6 DEF VotingOf
  <2>2. QED
    BY <2>1 DEF Voting

(* Every step leaves the votes so. *)
LEMMA VotingStep ==
  ASSUME DeskInv, DeskInv', Base(def, task), Counted(def), Voting(def, task), Changes
  PROVE  Voting(def, task')
<1>0. PICK r : r = task'
  OBVIOUS
<1>1. Family(def, r) /\ Family(def, task)
  <2>1. def' = def
    BY BaseStep
  <2>2. QED
    BY <1>0, <2>1 DEF DeskInv, RowInv
<1>2. CASE NodesGone
  <2>1. PICK gone : Left(task, gone, r)
    BY <1>0, <1>2 DEF NodesGone
  <2>2. \A j \in DOMAIN r : j \in DOMAIN task /\ Placed(r[j], task[j]) /\ Steady(def, r[j], task[j])
    BY <2>1 DEF Left, Alike, Placed, Steady
  <2>3. QED
    BY <1>0, <1>1, <2>2, VotingSame
<1>3. CASE TaskAnswered
  <2>1. PICK i \in Ids : \E T : RowsAfter(r, task, {i}, T, "sibling") /\ \A j \in T : OrSigned(def, task[j].node)
    BY <1>0, <1>3 DEF TaskAnswered
  <2>2. QED
    BY <1>0, <1>1, <2>1, VotingAfter
<1>4. CASE TaskVoted
  <2>1. PICK i \in Ids : RowsAfter(r, task, {i}, {}, "sibling")
    BY <1>0, <1>4 DEF TaskVoted
  <2>2. QED
    BY <1>0, <1>1, <2>1, VotingAfter
<1>5. CASE TaskDecided
  <2>0. PICK i \in Ids, w \in Vote : \E mid, T : task[i].parent # NoId /\ VoteEnds(i, mid, T, w)
    BY <1>5 DEF TaskDecided
  <2>1. PICK mid, T : VoteEnds(i, mid, T, w)
    BY <2>0
  <2>2. PICK p : p = task[i].parent
    OBVIOUS
  <2>3. /\ RowsAfter(mid, task, {i}, {}, "sibling") /\ RowsAfter(r, mid, {p}, T, "threshold")
        /\ \A j : j \in T <=> j \in DOMAIN mid /\ mid[j].parent = p /\ Opened(mid[j])
    BY <1>0, <2>1, <2>2 DEF VoteEnds
  <2>4. QED
    BY <1>0, <2>0, <2>2, <2>3, VotingDecided
<1>6. CASE Reduces
  <2>1. \E gone, mid : Left(task, gone, mid) /\ (r = mid \/ \E A : RowsAfter(r, mid, A, {}, "sibling"))
    BY <1>0, <1>6 DEF Reduces, TaskReduced, ReducedDecided
  <2>2. \A j \in DOMAIN r : j \in DOMAIN task /\ Placed(r[j], task[j]) /\ Steady(def, r[j], task[j])
    BY <2>1 DEF RowsAfter, RowAfter, Left, Alike, Placed, Steady
  <2>3. QED
    BY <1>0, <1>1, <2>2, VotingSame
<1>7. QED
  BY <1>0, <1>1, <1>2, <1>3, <1>4, <1>5, <1>6, VotingOwned, VotingMade, VotingSigned, VotingRecalled DEF Changes
-----------------------------------------------------------------------------
(* When the missing votes can change the result, and when they cannot.     *)

(* The missing votes can change the result. *)
Swings(law, t, y, l) == ~Outcome(law, t, y) /\ Outcome(law, t, y + l)

(* They can while the votes are not decided. *)
LEMMA UndecidedSwings ==
  ASSUME NEW law, ValidRule(law), NEW y \in Nat, NEW n \in Nat, NEW l \in Nat, NEW t, t = y + n + l,
         ~Decides(law, t, y + n, y), law.type = "all" => n = 0
  PROVE  Swings(law, t, y, l)
BY DecisionIsSound DEF Swings

(* They can when all are missing, unless there are too few of them. *)
LEMMA AllMissing ==
  ASSUME NEW law, ValidRule(law), NEW k \in Nat, k > 0, law.type = "count" => law.value <= k
  PROVE  Swings(law, k, 0, k)
<1>1. CASE law.type = "percent"
  <2>1. k * law.value <= k * 100 /\ k * law.value \in Nat
    BY <1>1 DEF ValidRule
  <2>2. QED
    BY <1>1, <2>1 DEF Outcome, Swings
<1>2. CASE law.type = "all"
  BY <1>2 DEF Outcome, Swings
<1>3. CASE law.type = "any"
  BY <1>3 DEF Outcome, Swings
<1>4. CASE law.type = "majority"
  BY <1>4 DEF Outcome, Swings
<1>5. CASE law.type = "count"
  BY <1>5 DEF Outcome, Swings, ValidRule
<1>6. QED
  BY <1>1, <1>2, <1>3, <1>4, <1>5 DEF ValidRule, RuleType

(* They can when more voters are asked. *)
LEMMA MoreSwings ==
  ASSUME NEW law, ValidRule(law), NEW y \in Nat, NEW n \in Nat, NEW l \in Nat, NEW t, t = y + n + l,
         NEW d \in Nat, Swings(law, t, y, l)
  PROVE  Swings(law, t + d, y, l + d)
<1>1. t \in Nat /\ t + d \in Nat /\ t + d - d = t /\ y + (l + d) - d = y + l
  OBVIOUS
<1>2. ~Outcome(law, t + d, y)
  <2>1. SUFFICES ASSUME Outcome(law, t + d, y) PROVE FALSE
    OBVIOUS
  <2>2. Outcome(law, t + d - d, y)
    BY <1>1, <2>1, CancellingKeepsApproval
  <2>3. QED
    BY <1>1, <2>2 DEF Swings
<1>3. Outcome(law, t + d, y + (l + d))
  <2>1. PICK a \in Nat : a = y + (l + d)
    OBVIOUS
  <2>2. PICK s \in Nat : s = t + d
    BY <1>1
  <2>3. SUFFICES ASSUME ~Outcome(law, s, a) PROVE FALSE
    BY <2>1, <2>2
  <2>4. d <= a /\ a <= s
    BY <2>1, <2>2
  <2>5. ~Outcome(law, s - d, a - d)
    BY <2>3, <2>4, CancellingKeepsRejection
  <2>6. s - d = t /\ a - d = y + l
    BY <1>1, <2>1, <2>2
  <2>7. QED
    BY <2>5, <2>6 DEF Swings
<1>4. QED
  BY <1>2, <1>3 DEF Swings

(* When the votes are decided they cannot: the result is what it was. *)
Seals(law, t, y, c, w) == (Outcome(law, t, y) <=> w) /\ (Outcome(law, t, y + c) <=> w)
LEMMA DecidedSeals ==
  ASSUME NEW law, ValidRule(law), NEW y \in Nat, NEW n \in Nat, NEW c \in Nat, NEW t, t = y + n + c,
         Decides(law, t, y + n, y), NEW w, w <=> Approves(law, t, y + n, y)
  PROVE  Seals(law, t, y, c, w)
<1>1. t \in Nat /\ y <= y + c /\ y + c <= t /\ y + c \in Nat
  OBVIOUS
<1>2. Outcome(law, t, y) => Outcome(law, t, y + c)
  BY <1>1, OutcomeMonotone
<1>3. /\ Approves(law, t, y + n, y) => Outcome(law, t, y)
      /\ ~Approves(law, t, y + n, y) => ~Outcome(law, t, y + c)
  BY DecisionIsSound
<1>4. QED
  BY <1>2, <1>3 DEF Seals

-----------------------------------------------------------------------------
(* The ballots.  Of a parent that stands for its votes: the rule, the      *)
(* voters and what they have said.                                         *)
RuleIn(f, x) == IF x.fallback THEN [type |-> "any", value |-> 0]
                ELSE IF f.mode[x.node] = "vote" THEN f.rule[x.node] ELSE [type |-> "all", value |-> 0]
Polls(f, x) == /\ x.parent = NoId /\ VoteNode(f, x.node) /\ x.assignee = Nobody
               /\ x.status \in {"active", "completed"}
VotersOf(rows, p) == {j \in DOMAIN rows : rows[j].parent = p}
Heard(rows, p, what) == {j \in VotersOf(rows, p) : rows[j].reason = what}
Count(rows, p, what) == Cardinality(Heard(rows, p, what))
Roll(rows, p) == Cardinality(VotersOf(rows, p))

(* While it waits, no vote has decided it, unless one that was recalled is *)
(* awaited; when it has ended, those cut off change nothing.               *)
Rehears(f, rows, voted, p) ==
  "Recall" \in f.uses /\ \E j \in Heard(rows, p, "none") : <<rows[p].node, rows[j].assignee>> \in voted
Waits(f, rows, voted, p) ==
  /\ RuleIn(f, rows[p]).type = "all" => Heard(rows, p, "rejected") = {}
  /\ \/ Swings(RuleIn(f, rows[p]), Roll(rows, p), Count(rows, p, "approved"), Count(rows, p, "none"))
     \/ Rehears(f, rows, voted, p)
HasEnded(f, rows, p) ==
  Seals(RuleIn(f, rows[p]), Roll(rows, p), Count(rows, p, "approved"), Count(rows, p, "threshold"),
        rows[p].reason = "approved")
BallotOf(f, rows, voted, p) ==
  Polls(f, rows[p]) =>
    /\ rows[p].status = "active" => Waits(f, rows, voted, p)
    /\ rows[p].status = "completed" => HasEnded(f, rows, p)
Ballots(f, rows, voted) == \A p \in DOMAIN rows : BallotOf(f, rows, voted, p)

(* The rule is the one of the judge. *)
LEMMA RuleIs ==
  ASSUME DeskInv, NEW p \in DOMAIN task, NEW x, x.node = task[p].node, x.fallback = task[p].fallback
  PROVE  RuleIn(def, x) = RuleOf(p) /\ ValidRule(RuleIn(def, x))
<1>1. RuleIn(def, x) = RuleOf(p)
  BY DEF RuleIn, RuleOf, NodeRule
<1>2. QED
  BY <1>1, RuleValid

(* Voters are counted. *)
LEMMA CountType ==
  ASSUME NEW rows, DOMAIN rows \subseteq Id, NEW p
  PROVE  /\ IsFiniteSet(VotersOf(rows, p)) /\ Roll(rows, p) \in Nat
         /\ \A what : IsFiniteSet(Heard(rows, p, what)) /\ Count(rows, p, what) \in Nat
<1>1. IsFiniteSet(Id)
  BY RowBounds, FS_Interval DEF Id
<1>2. IsFiniteSet(VotersOf(rows, p))
  BY <1>1, FS_Subset DEF VotersOf
<1>3. ASSUME NEW what PROVE IsFiniteSet(Heard(rows, p, what))
  BY <1>2, FS_Subset DEF Heard
<1>4. QED
  BY <1>2, <1>3, FS_CardinalityType DEF Roll, Count

(* Each says one thing. *)
LEMMA CountAdds ==
  ASSUME NEW rows, DOMAIN rows \subseteq Id, NEW p, NEW x \in {"none", "threshold"},
         \A j \in VotersOf(rows, p) : rows[j].reason \in {"approved", "rejected", x}
  PROVE  Roll(rows, p) = Count(rows, p, "approved") + Count(rows, p, "rejected") + Count(rows, p, x)
<1>. DEFINE Y == Heard(rows, p, "approved")
            N == Heard(rows, p, "rejected")
            L == Heard(rows, p, x)
<1>1. IsFiniteSet(Y) /\ IsFiniteSet(N) /\ IsFiniteSet(L)
  BY CountType
<1>2. Y \cap N = {} /\ (Y \cup N) \cap L = {} /\ VotersOf(rows, p) = (Y \cup N) \cup L
  BY DEF Heard
<1>. HIDE DEF Y, N, L
<1>3. IsFiniteSet(Y \cup N) /\ Cardinality(Y \cup N) = Cardinality(Y) + Cardinality(N)
  <2>1. /\ IsFiniteSet(Y \cup N)
        /\ Cardinality(Y \cup N) = Cardinality(Y) + Cardinality(N) - Cardinality(Y \cap N)
    BY <1>1, FS_Union
  <2>2. Cardinality(Y \cap N) = 0
    BY <1>2, FS_EmptySet
  <2>3. QED
    BY <1>1, <2>1, <2>2, FS_CardinalityType
<1>4. Cardinality((Y \cup N) \cup L) = Cardinality(Y) + Cardinality(N) + Cardinality(L)
  <2>1. Cardinality((Y \cup N) \cup L) = Cardinality(Y \cup N) + Cardinality(L) - Cardinality((Y \cup N) \cap L)
    BY <1>1, <1>3, FS_Union
  <2>2. Cardinality((Y \cup N) \cap L) = 0
    BY <1>2, FS_EmptySet
  <2>3. QED
    BY <1>1, <1>3, <2>1, <2>2, FS_CardinalityType
<1>5. QED
  BY <1>2, <1>4 DEF Y, N, L, Count, Roll

(* The tally of the votes of a parent of whose voters none is cut off. *)
LEMMA TallyIs ==
  ASSUME NEW rows, DOMAIN rows \subseteq Id, NEW p,
         \A j \in VotersOf(rows, p) : Told(rows[j]) /\ rows[j].status \in RowStatus \ {"terminated"}
  PROVE  /\ Roll(rows, p) = Count(rows, p, "approved") + Count(rows, p, "rejected") + Count(rows, p, "none")
         /\ Electorate(rows, p) = VotersOf(rows, p)
         /\ Tally(rows, p) = [total |-> Roll(rows, p),
                              voted |-> Count(rows, p, "approved") + Count(rows, p, "rejected"),
                              yes |-> Count(rows, p, "approved")]
<1>. DEFINE Y == Heard(rows, p, "approved")
            N == Heard(rows, p, "rejected")
<1>1. \A j \in VotersOf(rows, p) : rows[j].reason \in {"approved", "rejected", "none"}
                                   /\ (rows[j].status = "completed" <=> rows[j].reason \in {"approved", "rejected"})
  BY DEF Told, Opened, RowStatus, Vote
<1>2. Electorate(rows, p) = VotersOf(rows, p)
  BY DEF Electorate, VotersOf
<1>3. VotesIn(rows, p) = Y \cup N /\ Approvals(rows, p) = Y
  BY <1>1, <1>2 DEF VotesIn, Approvals, Heard
<1>4. IsFiniteSet(Y) /\ IsFiniteSet(N)
  BY CountType
<1>5. Y \cap N = {}
  BY DEF Heard
<1>6. Cardinality(Y) = Count(rows, p, "approved") /\ Cardinality(N) = Count(rows, p, "rejected")
  BY DEF Count
<1>. HIDE DEF Y, N
<1>7. Cardinality(Y \cup N) = Cardinality(Y) + Cardinality(N)
  <2>1. Cardinality(Y \cup N) = Cardinality(Y) + Cardinality(N) - Cardinality(Y \cap N)
    BY <1>4, FS_Union
  <2>2. Cardinality(Y \cap N) = 0
    BY <1>5, FS_EmptySet
  <2>3. QED
    BY <1>4, <2>1, <2>2, FS_CardinalityType
<1>8. Roll(rows, p) = Count(rows, p, "approved") + Count(rows, p, "rejected") + Count(rows, p, "none")
  BY <1>1, CountAdds
<1>9. QED
  BY <1>2, <1>3, <1>6, <1>7, <1>8 DEF Tally, Roll

(* The votes are decided by the rule, and so is the result. *)
LEMMA DecidedIs ==
  ASSUME DeskInv, NEW p \in DOMAIN task, NEW rows, DOMAIN rows \subseteq Id,
         \A j \in VotersOf(rows, p) : Told(rows[j]) /\ rows[j].status \in RowStatus \ {"terminated"},
         NEW law, law = RuleOf(p), NEW t, t = Roll(rows, p),
         NEW y, y = Count(rows, p, "approved"), NEW n, n = Count(rows, p, "rejected"),
         NEW l, l = Count(rows, p, "none")
  PROVE  /\ ValidRule(law) /\ t \in Nat /\ y \in Nat /\ n \in Nat /\ l \in Nat /\ t = y + n + l
         /\ Decided(rows, p) <=> t > 0 /\ Decides(law, t, y + n, y)
         /\ Favours(rows, p) <=> Approves(law, t, y + n, y)
<1>1. Tally(rows, p) = [total |-> t, voted |-> y + n, yes |-> y] /\ t = y + n + l
  BY TallyIs
<1>2. t \in Nat /\ y \in Nat /\ n \in Nat /\ l \in Nat
  BY CountType
<1>3. ValidRule(law)
  BY RuleValid
<1>4. QED
  BY <1>1, <1>2, <1>3 DEF Decided, DecidedBy, Favours

(* A parent and voters that say what they said. *)
SameVotes(f, rows, r, p) ==
  /\ p \in DOMAIN rows
  /\ Polls(f, rows[p]) /\ r[p].node = rows[p].node /\ r[p].fallback = rows[p].fallback
  /\ r[p].status = rows[p].status /\ r[p].reason = rows[p].reason
  /\ \A j : j \in VotersOf(r, p) <=> j \in VotersOf(rows, p)
  /\ \A j \in VotersOf(rows, p) : /\ r[j].reason = rows[j].reason
                                  /\ "Recall" \in f.uses => r[j].assignee = rows[j].assignee
LEMMA BallotSame ==
  ASSUME NEW f, NEW rows, NEW voted, Ballots(f, rows, voted), NEW voted2, voted \subseteq voted2,
         NEW r, NEW p, Polls(f, r[p]) => SameVotes(f, rows, r, p)
  PROVE  BallotOf(f, r, voted2, p)
<1>1. SUFFICES ASSUME Polls(f, r[p]), SameVotes(f, rows, r, p)
      PROVE  /\ r[p].status = "active" => Waits(f, r, voted2, p)
             /\ r[p].status = "completed" => HasEnded(f, r, p)
  BY DEF BallotOf
<1>2. /\ p \in DOMAIN rows /\ Polls(f, rows[p]) /\ r[p].node = rows[p].node
      /\ r[p].status = rows[p].status /\ r[p].reason = rows[p].reason
      /\ RuleIn(f, r[p]) = RuleIn(f, rows[p])
  BY <1>1 DEF SameVotes, RuleIn
<1>3. /\ rows[p].status = "active" => Waits(f, rows, voted, p)
      /\ rows[p].status = "completed" => HasEnded(f, rows, p)
  BY <1>2 DEF Ballots, BallotOf
<1>4. VotersOf(r, p) = VotersOf(rows, p)
  BY <1>1 DEF SameVotes
<1>5. \A what : Heard(r, p, what) = Heard(rows, p, what)
  BY <1>1, <1>4 DEF SameVotes, Heard
<1>6. Roll(r, p) = Roll(rows, p) /\ \A what : Count(r, p, what) = Count(rows, p, what)
  BY <1>4, <1>5 DEF Roll, Count
<1>7. Rehears(f, rows, voted, p) => Rehears(f, r, voted2, p)
  <2>1. SUFFICES ASSUME Rehears(f, rows, voted, p) PROVE Rehears(f, r, voted2, p)
    OBVIOUS
  <2>2. PICK j \in Heard(rows, p, "none") : <<rows[p].node, rows[j].assignee>> \in voted
    BY <2>1 DEF Rehears
  <2>3. "Recall" \in f.uses /\ r[j].assignee = rows[j].assignee /\ j \in Heard(r, p, "none")
    BY <1>1, <1>5, <2>1, <2>2 DEF SameVotes, Rehears, Heard
  <2>4. QED
    BY <1>2, <2>2, <2>3 DEF Rehears
<1>8. Waits(f, rows, voted, p) => Waits(f, r, voted2, p)
  BY <1>2, <1>5, <1>6, <1>7 DEF Waits
<1>9. HasEnded(f, rows, p) => HasEnded(f, r, p)
  BY <1>2, <1>6 DEF HasEnded
<1>10. QED
  BY <1>2, <1>3, <1>8, <1>9

(* The voters of a parent. *)
VoterOf(j, p) ==
  /\ j \in DOMAIN task /\ j # p /\ j # NoId /\ task[j].parent = p /\ task[j].node = task[p].node
  /\ VoteNode(def, task[j].node) /\ ~OrSigned(def, task[j].node) /\ Told(task[j]) /\ task[j].status \in RowStatus
  /\ task[j].fallback = task[p].fallback
  /\ task[p].status # "completed" => task[j].status # "terminated"
  /\ task[p].status = "completed" /\ task[p].parent = NoId => ~Opened(task[j])
  /\ "Recall" \in def.uses => task[j].owner = Nobody
LEMMA PollFacts ==
  ASSUME DeskInv, Base(def, task), Voting(def, task), NEW p \in DOMAIN task, VoteNode(def, task[p].node)
  PROVE  /\ DOMAIN task \subseteq Id /\ Ids = DOMAIN task /\ p # NoId
         /\ \A j \in VotersOf(task, p) : VoterOf(j, p)
<1>1. /\ RowInv(def, task, answered) /\ DOMAIN task \subseteq Id /\ Ids = DOMAIN task
      /\ \A j \in DOMAIN task : j # NoId /\ task[j].status \in RowStatus
  <2>1. DOMAIN task \subseteq Id /\ \A j \in DOMAIN task : task[j] \in Row(task[j].node)
    BY DEF DeskInv, RowInv, Typed
  <2>2. \A j \in DOMAIN task : task[j].status \in RowStatus
    BY <2>1, RowFields
  <2>3. QED
    BY <2>1, <2>2, RowBounds DEF DeskInv, NoId, Id, Ids
<1>2. ASSUME NEW j \in VotersOf(task, p) PROVE VoterOf(j, p)
  <2>1. j \in DOMAIN task /\ task[j].parent = p /\ p # NoId
    BY <1>1, <1>2 DEF VotersOf
  <2>2. task[p].parent = NoId /\ task[p].node = task[j].node /\ ~OrSigned(def, task[j].node)
    BY <1>1, <2>1 DEF RowInv, Family
  <2>3. /\ task[j].fallback = task[p].fallback
        /\ task[j].status = "terminated" => task[p].status = "completed"
        /\ "Recall" \in def.uses => task[j].owner = Nobody
    BY <2>1, <2>2 DEF Voting, VotingOf
  <2>4. Told(task[j])
    BY <2>1 DEF Base, Sincere
  <2>5. task[p].status = "completed" => ~Opened(task[j])
    BY <1>1, <2>1, <2>2 DEF RowInv, LoneMain
  <2>6. QED
    BY <1>1, <2>1, <2>2, <2>3, <2>4, <2>5 DEF VoterOf
<1>3. QED
  BY <1>1, <1>2

(* Rows that leave with all of their node. *)
LEMMA BallotsGone ==
  ASSUME DeskInv, Base(def, task), Voting(def, task), Ballots(def, task, past), NEW r, r = task', NodesGone
  PROVE  Ballots(def, r, past')
<1>1. PICK gone : ByNode(gone) /\ Left(task, gone, r)
  BY DEF NodesGone
<1>2. /\ DOMAIN r = DOMAIN task \ gone
      /\ \A j \in DOMAIN r : Alike(r[j], task[j])
      /\ past \subseteq past' \/ DOMAIN r = {}
  BY <1>1 DEF Left, NodesGone
<1>3. ASSUME NEW p \in DOMAIN r PROVE BallotOf(def, r, past', p)
  <2>1. SUFFICES ASSUME Polls(def, r[p]) PROVE SameVotes(def, task, r, p)
    BY <1>2, <1>3, BallotSame
  <2>2. /\ p \in DOMAIN task /\ p \notin gone /\ Polls(def, task[p])
        /\ r[p].node = task[p].node /\ r[p].fallback = task[p].fallback
        /\ r[p].status = task[p].status /\ r[p].reason = task[p].reason
    BY <1>2, <1>3, <2>1 DEF Alike, Polls
  <2>3. Ids = DOMAIN task /\ \A j \in VotersOf(task, p) : VoterOf(j, p)
    BY <2>2, PollFacts DEF Polls
  <2>4. ASSUME NEW j \in VotersOf(task, p) PROVE j \in VotersOf(r, p)
    <3>1. j \in DOMAIN task /\ task[j].parent = p /\ task[j].node = task[p].node
      BY <2>3, <2>4 DEF VoterOf
    <3>2. j \notin gone
      BY <1>1, <2>2, <2>3, <3>1 DEF ByNode
    <3>3. QED
      BY <1>2, <3>1, <3>2 DEF VotersOf, Alike
  <2>5. \A j \in VotersOf(r, p) : j \in VotersOf(task, p) /\ r[j].reason = task[j].reason /\ r[j].assignee = task[j].assignee
    BY <1>2 DEF VotersOf, Alike
  <2>6. QED
    BY <2>2, <2>4, <2>5 DEF SameVotes
<1>4. QED
  BY <1>3 DEF Ballots

(* The voters of a new node: enough for its rule. *)
LEMMA BallotMade ==
  ASSUME DeskInv, Counted(def), NEW n \in NodesOf(def), NEW N, NEW r, MadeOf(n, N, r),
         NEW p \in N, Polls(def, r[p]), NEW voted
  PROVE  BallotOf(def, r, voted, p)
<1>1. /\ \A k \in N : k \in Id /\ k \notin Ids /\ k # NoId
      /\ \A j : j \in DOMAIN r <=> j \in Ids \/ j \in N
      /\ \A j \in Ids : r[j] = task[j] /\ task[j].parent \notin N
      /\ \A k \in N : Made(r[k], n)
      /\ Shaped(n, N, r)
      /\ \A j \in Ids : j \in Id
  BY DEF MadeOf, DeskInv, RowInv, Typed, Ids
<1>2. /\ r[p].node = n /\ r[p].parent = NoId /\ VoteNode(def, n) /\ r[p].assignee = Nobody
      /\ r[p].status = "active" /\ \A k \in N : r[k].reason = "none"
  BY <1>1 DEF Polls, Made, Opened
<1>3. /\ VoteNode(def, n)
      /\ \E q \in N : /\ r[q].parent = NoId
                      /\ \A k \in N : k = q \/ (r[k].parent = q /\ r[k].status = "active")
                      /\ Voters(n, N, q, r)
  BY <1>1, <1>2, VotesNoOrSign DEF Shaped
<1>4. (\A k \in N : k = p \/ r[k].parent = p) /\ Voters(n, N, p, r)
  BY <1>1, <1>2, <1>3
<1>5. VotersOf(r, p) = N \ {p}
  BY <1>1, <1>2, <1>4 DEF VotersOf
<1>6. /\ Heard(r, p, "none") = N \ {p}
      /\ Heard(r, p, "approved") = {} /\ Heard(r, p, "rejected") = {}
  BY <1>2, <1>5 DEF Heard
<1>7. IsFiniteSet(N)
  <2>1. IsFiniteSet(Id)
    BY RowBounds, FS_Interval DEF Id
  <2>2. QED
    BY <1>1, <2>1, FS_Subset
<1>8. PICK k \in Nat : k = Cardinality(N \ {p}) /\ Cardinality(N) = k + 1
  <2>1. IsFiniteSet(N \ {p}) /\ Cardinality(N \ {p}) = Cardinality(N) - 1
    BY <1>7, FS_RemoveElement
  <2>2. Cardinality(N \ {p}) \in Nat /\ Cardinality(N) \in Nat
    BY <1>7, <2>1, FS_CardinalityType
  <2>3. QED
    BY <2>1, <2>2
<1>9. k > 0
  <2>1. N \ {p} # {} /\ IsFiniteSet(N \ {p})
    BY <1>4, <1>7, FS_Subset DEF Voters
  <2>2. k # 0
    BY <1>8, <2>1, FS_EmptySet
  <2>3. QED
    BY <1>8, <2>2
<1>10. PICK law : law = RuleIn(def, r[p])
  OBVIOUS
<1>11. ValidRule(law) /\ (law.type = "count" => law.value <= k)
  <2>1. def \in Flows /\ ValidRule(def.rule[n])
    BY FlowNodes DEF DeskInv, DriveTyped
  <2>2. CASE r[p].fallback
    <3>1. law = [type |-> "any", value |-> 0]
      BY <1>10, <2>2 DEF RuleIn
    <3>2. QED
      BY <3>1 DEF ValidRule, RuleType
  <2>3. CASE ~r[p].fallback /\ def.mode[n] = "vote"
    <3>1. law = def.rule[n]
      BY <1>2, <1>10, <2>3 DEF RuleIn
    <3>2. Len(AskedBy(def, n)) = k
      <4>1. Cardinality(N) = Len(AskedBy(def, n)) + 1
        BY <1>4, <2>3 DEF Voters
      <4>2. AskedBy(def, n) \in Seq(User)
        BY <2>1, ResolverAssumption DEF AskedBy, NodesOf
      <4>3. Len(AskedBy(def, n)) \in Nat
        BY <4>2
      <4>4. QED
        BY <1>8, <4>1, <4>3
    <3>3. ASSUME law.type = "count" PROVE law.value <= k
      BY <1>9, <2>3, <3>1, <3>2, <3>3 DEF Counted, AskedBy, NodesOf
    <3>4. QED
      BY <2>1, <3>1, <3>3
  <2>4. CASE ~r[p].fallback /\ def.mode[n] # "vote"
    <3>1. law = [type |-> "all", value |-> 0]
      BY <1>2, <1>10, <2>4 DEF RuleIn
    <3>2. QED
      BY <3>1 DEF ValidRule, RuleType
  <2>5. QED
    BY <2>2, <2>3, <2>4
<1>12. Swings(law, k, 0, k)
  BY <1>9, <1>11, AllMissing
<1>13. Roll(r, p) = k /\ Count(r, p, "approved") = 0 /\ Count(r, p, "none") = k
  BY <1>5, <1>6, <1>8, FS_EmptySet DEF Roll, Count
<1>14. Waits(def, r, voted, p)
  BY <1>6, <1>10, <1>12, <1>13 DEF Waits
<1>15. QED
  BY <1>2, <1>14 DEF BallotOf

(* New tasks of a node. *)
LEMMA BallotsMade ==
  ASSUME DeskInv, Counted(def), Ballots(def, task, past), NEW r, r = task', NodeMade
  PROVE  Ballots(def, r, past')
<1>1. PICK n \in Nodes : \E N : MadeOf(n, N, r)
  BY DEF NodeMade
<1>2. PICK N : MadeOf(n, N, r)
  BY <1>1
<1>3. /\ \A j : j \in DOMAIN r <=> j \in DOMAIN task \/ j \in N
      /\ \A j \in DOMAIN task : r[j] = task[j]
      /\ Shaped(n, N, r) /\ past' = past /\ n \in NodesOf(def)
      /\ \A k \in N : k \notin DOMAIN task /\ k # NoId
      /\ \A j \in DOMAIN task : j # NoId
  BY <1>2, RowBounds DEF MadeOf, Ids, NodeMade, Nodes, NodesOf, DeskInv, RowInv, Typed, NoId, Id
<1>4. ASSUME NEW p \in DOMAIN task PROVE BallotOf(def, r, past', p)
  <2>1. SUFFICES ASSUME Polls(def, r[p]) PROVE SameVotes(def, task, r, p)
    BY <1>3, BallotSame
  <2>2. \A j \in N : r[j].parent = NoId \/ r[j].parent \in N
    BY <1>3 DEF Shaped
  <2>3. \A j : j \in VotersOf(r, p) <=> j \in VotersOf(task, p)
    BY <1>3, <1>4, <2>2 DEF VotersOf
  <2>4. \A j \in VotersOf(task, p) : r[j] = task[j]
    BY <1>3 DEF VotersOf
  <2>5. QED
    BY <1>3, <1>4, <2>1, <2>3, <2>4 DEF SameVotes
<1>5. ASSUME NEW p \in N PROVE BallotOf(def, r, past', p)
  <2>1. CASE Polls(def, r[p])
    BY <1>2, <1>3, <1>5, <2>1, BallotMade
  <2>2. QED
    BY <2>1 DEF BallotOf
<1>6. QED
  BY <1>3, <1>4, <1>5 DEF Ballots

(* The operations on ownership: no vote that could be recalled changes     *)
(* hands, and no voter is closed by a claim.                               *)
LEMMA BallotsPassed ==
  ASSUME DeskInv, Base(def, task), Counted(def), Voting(def, task), Ballots(def, task, past),
         NEW r, r = task', TaskPassed
  PROVE  Ballots(def, r, past')
<1>1. PICK i \in Ids : Passed(def, task, i, r)
  BY DEF TaskPassed
<1>2. /\ i \in DOMAIN task /\ DOMAIN r = DOMAIN task /\ past' = past
      /\ \A j \in DOMAIN task : j # i => r[j] = task[j]
      /\ Opened(task[i]) /\ Opened(r[i])
      /\ r[i].node = task[i].node /\ r[i].parent = task[i].parent /\ r[i].fallback = task[i].fallback
      /\ r[i].reason = task[i].reason
      /\ Hands(def, task[i], r[i].assignee, r[i].owner, r[i].status, r[i].pool)
      /\ Apart(def) /\ task[i].node \in NodesOf(def)
  BY <1>1 DEF Passed, TaskPassed, Settled, DeskInv, RowInv, Typed
<1>3. ASSUME NEW p \in DOMAIN r PROVE BallotOf(def, r, past', p)
  <2>1. SUFFICES ASSUME Polls(def, r[p]) PROVE SameVotes(def, task, r, p)
    BY <1>2, BallotSame
  <2>2. /\ p \in DOMAIN task /\ Polls(def, task[p]) /\ r[p].node = task[p].node /\ r[p].fallback = task[p].fallback
        /\ r[p].status = task[p].status /\ r[p].reason = task[p].reason
    <3>1. CASE p # i
      BY <1>2, <1>3, <2>1, <3>1
    <3>2. CASE p = i
      <4>1. r[i].status = "active" /\ r[i].assignee = Nobody /\ r[i].parent = NoId /\ VoteNode(def, r[i].node)
        BY <1>2, <2>1, <3>2 DEF Polls, Opened
      <4>2. task[i].status = "active" /\ task[i].assignee = Nobody
        BY <1>2, <4>1 DEF Hands
      <4>3. QED
        BY <1>2, <3>2, <4>1, <4>2 DEF Polls
    <3>3. QED
      BY <3>1, <3>2
  <2>3. \A j \in VotersOf(task, p) : VoterOf(j, p)
    BY <2>2, PollFacts DEF Polls
  <2>4. \A j : j \in VotersOf(r, p) <=> j \in VotersOf(task, p)
    BY <1>2 DEF VotersOf
  <2>5. ASSUME NEW j \in VotersOf(task, p), "Recall" \in def.uses PROVE r[j].assignee = task[j].assignee
    <3>1. CASE j # i
      BY <1>2, <2>5, <3>1 DEF VotersOf
    <3>2. CASE j = i
      <4>1. VoterOf(j, p)
        BY <2>3, <2>5
      <4>2. VoteNode(def, task[i].node) /\ task[i].owner = Nobody
        BY <2>5, <3>2, <4>1 DEF VoterOf
      <4>3. def.uses \cap {"SetAssignee", "SetOwner", "Reassign", "Delegate", "Transfer"} = {}
        BY <1>2, <2>5, <4>2, WhereVotes
      <4>4. def.uses \cap {"SetAssignee", "Reassign", "Delegate", "Transfer"} = {}
        BY <4>3
      <4>5. QED
        BY <1>2, <3>2, <4>2, <4>4 DEF Hands
    <3>3. QED
      BY <3>1, <3>2
  <2>6. \A j \in VotersOf(task, p) : r[j].reason = task[j].reason
    BY <1>2 DEF VotersOf
  <2>7. QED
    BY <2>2, <2>4, <2>5, <2>6 DEF SameVotes
<1>4. QED
  BY <1>3 DEF Ballots

LEMMA BallotsClaimed ==
  ASSUME DeskInv, Base(def, task), Counted(def), Voting(def, task), Ballots(def, task, past),
         NEW r, r = task', TaskClaimed
  PROVE  Ballots(def, r, past')
<1>1. PICK i, u, O : Claimed(task, i, u, O, r)
  BY DEF TaskClaimed
<1>2. /\ i \in DOMAIN task /\ DOMAIN r = DOMAIN task /\ past' = past /\ "Claim" \in def.uses
      /\ task[i].status = "pending"
      /\ \A j \in DOMAIN task : /\ r[j].node = task[j].node /\ r[j].parent = task[j].parent
                                /\ r[j].fallback = task[j].fallback
      /\ r[i].assignee = u /\ u \in User
      /\ \A j : j \in O <=> j \in DOMAIN task /\ j # i /\ task[j].node = task[i].node /\ task[j].status = "pending"
      /\ \A j \in O : r[j].status = "terminated"
      /\ \A j \in DOMAIN task : j # i /\ j \notin O =>
           r[j].status = task[j].status /\ r[j].reason = task[j].reason /\ r[j].assignee = task[j].assignee
  BY <1>1 DEF Claimed, TaskClaimed, Settled
<1>3. Apart(def) /\ Claims(def, task) /\ \A j \in DOMAIN task : task[j].node \in NodesOf(def)
  BY DEF DeskInv, RowInv, Typed
<1>4. ASSUME NEW p \in DOMAIN r PROVE BallotOf(def, r, past', p)
  <2>1. SUFFICES ASSUME Polls(def, r[p]) PROVE SameVotes(def, task, r, p)
    BY <1>2, BallotSame
  <2>2. p # i /\ p \notin O
    BY <1>2, <2>1, OrganisationAssumption DEF Polls
  <2>3. /\ p \in DOMAIN task /\ Polls(def, task[p]) /\ r[p].node = task[p].node /\ r[p].fallback = task[p].fallback
        /\ r[p].status = task[p].status /\ r[p].reason = task[p].reason
    BY <1>2, <1>4, <2>1, <2>2 DEF Polls
  <2>4. \A j \in VotersOf(task, p) : VoterOf(j, p)
    BY <2>3, PollFacts DEF Polls
  <2>5. ASSUME NEW j \in VotersOf(task, p) PROVE j # i /\ j \notin O
    <3>1. SUFFICES ASSUME task[j].status = "pending" PROVE FALSE
      BY <1>2
    <3>2. j \in DOMAIN task /\ VoteNode(def, task[j].node) /\ task[j].parent # NoId
      BY <2>3, <2>4, <2>5, PollFacts DEF VoterOf, Polls
    <3>3. task[j].assignee = Nobody
      BY <1>3, <3>1, <3>2 DEF Claims
    <3>4. "SetAssignee" \in def.uses
      BY <3>2, <3>3 DEF Base, Sincere, Faced
    <3>5. QED
      BY <1>2, <1>3, <3>2, <3>4, WhereVotes
  <2>6. \A j : j \in VotersOf(r, p) <=> j \in VotersOf(task, p)
    BY <1>2 DEF VotersOf
  <2>7. \A j \in VotersOf(task, p) : r[j].reason = task[j].reason /\ r[j].assignee = task[j].assignee
    BY <1>2, <2>5 DEF VotersOf
  <2>8. QED
    BY <2>3, <2>6, <2>7 DEF SameVotes
<1>5. QED
  BY <1>4 DEF Ballots

LEMMA BallotsGivenBack ==
  ASSUME DeskInv, Base(def, task), Counted(def), Voting(def, task), Ballots(def, task, past),
         NEW r, r = task', TaskGivenBack
  PROVE  Ballots(def, r, past')
<1>1. PICK i, J : GivesBack(task, i, J, r)
  BY DEF TaskGivenBack
<1>2. /\ i \in DOMAIN task /\ DOMAIN r = DOMAIN task /\ past' = past /\ "Claim" \in def.uses
      /\ task[i].claimed
      /\ \A j \in DOMAIN task : /\ r[j].node = task[j].node /\ r[j].parent = task[j].parent
                                /\ r[j].fallback = task[j].fallback
      /\ r[i].status = "pending"
      /\ \A j : j \in J <=> j \in DOMAIN task /\ j # i /\ task[j].node = task[i].node /\ task[j].closedBy = i
      /\ \A j \in J : r[j].status = "pending"
      /\ \A j \in DOMAIN task : j # i /\ j \notin J => r[j] = task[j]
  BY <1>1 DEF GivesBack, TaskGivenBack, Settled
<1>3. Apart(def) /\ i # NoId /\ \A j \in DOMAIN task : task[j].node \in NodesOf(def)
  BY <1>2, RowBounds DEF DeskInv, RowInv, Typed, NoId, Id
<1>4. ASSUME NEW p \in DOMAIN r PROVE BallotOf(def, r, past', p)
  <2>1. SUFFICES ASSUME Polls(def, r[p]) PROVE SameVotes(def, task, r, p)
    BY <1>2, BallotSame
  <2>2. p # i /\ p \notin J
    BY <1>2, <2>1 DEF Polls
  <2>3. /\ p \in DOMAIN task /\ Polls(def, task[p]) /\ r[p] = task[p]
    BY <1>2, <1>4, <2>1, <2>2
  <2>4. \A j \in VotersOf(task, p) : VoterOf(j, p)
    BY <2>3, PollFacts DEF Polls
  <2>5. ASSUME NEW j \in VotersOf(task, p) PROVE j # i /\ j \notin J
    <3>1. j \in DOMAIN task /\ VoteNode(def, task[j].node) /\ task[j].parent # NoId
      BY <2>3, <2>4, <2>5, PollFacts DEF VoterOf, Polls
    <3>2. "SetAssignee" \notin def.uses
      BY <1>2, <1>3, <3>1, WhereVotes
    <3>3. ~task[j].claimed /\ task[j].closedBy = NoId
      BY <3>1, <3>2 DEF Base, Sincere, Faced
    <3>4. QED
      BY <1>2, <1>3, <3>3
  <2>6. \A j : j \in VotersOf(r, p) <=> j \in VotersOf(task, p)
    BY <1>2 DEF VotersOf
  <2>7. \A j \in VotersOf(task, p) : r[j].reason = task[j].reason /\ r[j].assignee = task[j].assignee
    BY <1>2, <2>5 DEF VotersOf
  <2>8. QED
    BY <2>3, <2>6, <2>7 DEF SameVotes
<1>5. QED
  BY <1>4 DEF Ballots

(* An answer on a main task, which is not one of these. *)
LEMMA BallotsAnswered ==
  ASSUME DeskInv, Base(def, task), Voting(def, task), Ballots(def, task, past), NEW r, r = task', TaskAnswered
  PROVE  Ballots(def, r, past')
<1>1. PICK i \in Ids : \E T : /\ task[i].parent = NoId /\ task[i].assignee # Nobody
                              /\ RowsAfter(r, task, {i}, T, "sibling")
                              /\ \A j \in T : OrSigned(def, task[j].node)
  BY DEF TaskAnswered
<1>2. PICK T : RowsAfter(r, task, {i}, T, "sibling") /\ \A j \in T : OrSigned(def, task[j].node)
  BY <1>1
<1>3. /\ DOMAIN r = DOMAIN task /\ past' = past
      /\ \A j \in DOMAIN task : RowAfter(r[j], task[j], task[j].node, j, {i}, T, "sibling")
  BY <1>2 DEF RowsAfter, TaskAnswered, Kept
<1>4. ASSUME NEW p \in DOMAIN r PROVE BallotOf(def, r, past', p)
  <2>1. SUFFICES ASSUME Polls(def, r[p]) PROVE SameVotes(def, task, r, p)
    BY <1>3, BallotSame
  <2>2. p \in DOMAIN task /\ RowAfter(r[p], task[p], task[p].node, p, {i}, T, "sibling")
    BY <1>3, <1>4
  <2>3. p # i /\ p \notin T
    BY <1>1, <1>2, <2>1, <2>2, VotesNoOrSign DEF RowAfter, Polls
  <2>4. /\ Polls(def, task[p]) /\ r[p].node = task[p].node /\ r[p].fallback = task[p].fallback
        /\ r[p].status = task[p].status /\ r[p].reason = task[p].reason
    BY <2>1, <2>2, <2>3 DEF RowAfter, Polls
  <2>5. p # NoId /\ \A j \in VotersOf(task, p) : VoterOf(j, p)
    BY <2>2, <2>4, PollFacts DEF Polls
  <2>6. \A j : j \in VotersOf(r, p) <=> j \in VotersOf(task, p)
    BY <1>3 DEF VotersOf, RowAfter
  <2>7. ASSUME NEW j \in VotersOf(task, p)
        PROVE  r[j].reason = task[j].reason /\ r[j].assignee = task[j].assignee
    <3>1. VoterOf(j, p)
      BY <2>5, <2>7
    <3>2. j \in DOMAIN task /\ j # i /\ j \notin T
      BY <1>1, <1>2, <2>5, <3>1 DEF VoterOf
    <3>3. RowAfter(r[j], task[j], task[j].node, j, {i}, T, "sibling")
      BY <1>3, <3>2
    <3>4. QED
      BY <3>2, <3>3 DEF RowAfter
  <2>8. QED
    BY <2>2, <2>4, <2>6, <2>7 DEF SameVotes
<1>5. QED
  BY <1>4 DEF Ballots

(* A vote on a parent. *)
CastOn(mid, i, q) ==
  /\ q \in DOMAIN task /\ q # i /\ task[q].parent = NoId /\ task[q].status # "completed"
  /\ DOMAIN mid = DOMAIN task /\ DOMAIN task \subseteq Id
  /\ \A j : j \in VotersOf(mid, q) <=> j \in VotersOf(task, q)
  /\ i \in VotersOf(mid, q)
  /\ \A j \in VotersOf(mid, q) : Told(mid[j]) /\ mid[j].status \in RowStatus \ {"terminated"}
  /\ \A j \in VotersOf(mid, q) : j # i => mid[j].reason = task[j].reason
  /\ RuleOf(i) = RuleOf(q)
  /\ Roll(mid, q) > 0
LEMMA VoteFacts ==
  ASSUME DeskInv, Base(def, task), Voting(def, task), NEW i \in Ids, task[i].status = "active",
         task[i].parent # NoId, NEW q, q = task[i].parent, VoteNode(def, task[i].node),
         NEW mid, RowsAfter(mid, task, {i}, {}, "sibling")
  PROVE  CastOn(mid, i, q)
<1>1. /\ q \in DOMAIN task /\ q # i /\ task[q].parent = NoId /\ task[q].node = task[i].node
      /\ task[q].status # "completed"
  BY SignerFacts DEF Opened
<1>2. DOMAIN task \subseteq Id /\ Ids = DOMAIN task /\ \A j \in VotersOf(task, q) : VoterOf(j, q)
  BY <1>1, PollFacts
<1>3. /\ DOMAIN mid = DOMAIN task
      /\ \A j \in DOMAIN task : RowAfter(mid[j], task[j], task[j].node, j, {i}, {}, "sibling")
  BY DEF RowsAfter
<1>4. \A j : j \in VotersOf(mid, q) <=> j \in VotersOf(task, q)
  BY <1>3 DEF VotersOf, RowAfter
<1>5. i \in VotersOf(mid, q) /\ i \in VotersOf(task, q)
  BY <1>2, <1>3, <1>4 DEF VotersOf
<1>6. ASSUME NEW j \in VotersOf(mid, q)
      PROVE  /\ Told(mid[j]) /\ mid[j].status \in RowStatus \ {"terminated"}
             /\ j # i => mid[j].reason = task[j].reason
  <2>1. VoterOf(j, q) /\ j \in DOMAIN task
    BY <1>2, <1>4, <1>6 DEF VoterOf
  <2>2. RowAfter(mid[j], task[j], task[j].node, j, {i}, {}, "sibling")
    BY <1>3, <2>1
  <2>3. CASE j = i
    BY <2>2, <2>3 DEF RowAfter, Told, Opened, Vote, RowStatus
  <2>4. CASE j # i
    BY <1>1, <2>1, <2>2, <2>4 DEF RowAfter, Told, Opened, VoterOf
  <2>5. QED
    BY <2>3, <2>4
<1>7. RuleOf(i) = RuleOf(q)
  <2>1. task[i].fallback = task[q].fallback /\ task[i].node = task[q].node
    BY <1>2, <1>5 DEF VoterOf
  <2>2. QED
    BY <2>1 DEF RuleOf
<1>8. Roll(mid, q) > 0
  <2>1. IsFiniteSet(VotersOf(mid, q)) /\ Roll(mid, q) \in Nat
    BY <1>2, <1>3, CountType
  <2>2. Roll(mid, q) # 0
    BY <1>5, <2>1, FS_EmptySet DEF Roll
  <2>3. QED
    BY <2>1, <2>2
<1>9. QED
  BY <1>1, <1>2, <1>3, <1>4, <1>5, <1>6, <1>7, <1>8 DEF CastOn

(* A vote after which the parent waits on. *)
LEMMA BallotVoted ==
  ASSUME DeskInv, NEW voted, Ballots(def, task, voted), NEW i \in Ids, NEW q, NEW r, CastOn(r, i, q),
         r[q].node = task[q].node, r[q].fallback = task[q].fallback, r[q].status = task[q].status,
         Polls(def, task[q]), ~Vetoes(r, i), ~Decided(r, q)
  PROVE  BallotOf(def, r, voted, q)
<1>1. /\ q \in DOMAIN task /\ DOMAIN r \subseteq Id /\ task[q].status = "active" /\ r[q].status = "active"
      /\ \A j \in VotersOf(r, q) : Told(r[j]) /\ r[j].status \in RowStatus \ {"terminated"}
      /\ Roll(r, q) > 0
  BY DEF CastOn, Polls
<1>2. PICK law : law = RuleOf(q)
  OBVIOUS
<1>3. PICK t, y, n, l : /\ t = Roll(r, q) /\ y = Count(r, q, "approved")
                        /\ n = Count(r, q, "rejected") /\ l = Count(r, q, "none")
  OBVIOUS
<1>4. /\ ValidRule(law) /\ t \in Nat /\ y \in Nat /\ n \in Nat /\ l \in Nat /\ t = y + n + l
      /\ Decided(r, q) <=> t > 0 /\ Decides(law, t, y + n, y)
  BY <1>1, <1>2, <1>3, DecidedIs
<1>5. ~Decides(law, t, y + n, y)
  BY <1>1, <1>3, <1>4
<1>6. RuleIn(def, r[q]) = law /\ RuleIn(def, task[q]) = law
  BY <1>1, <1>2, RuleIs
<1>7. ASSUME law.type = "all" PROVE Heard(r, q, "rejected") = {}
  <2>1. Heard(task, q, "rejected") = {}
    BY <1>1, <1>6, <1>7 DEF Ballots, BallotOf, Waits
  <2>2. ASSUME NEW j \in Heard(r, q, "rejected") PROVE FALSE
    <3>1. CASE j = i
      <4>1. RuleOf(i).type = "all"
        BY <1>2, <1>7 DEF CastOn
      <4>2. QED
        BY <2>2, <3>1, <4>1 DEF Vetoes, Heard
    <3>2. CASE j # i
      BY <2>1, <2>2, <3>2 DEF CastOn, Heard
    <3>3. QED
      BY <3>1, <3>2
  <2>3. QED
    BY <2>2
<1>8. law.type = "all" => n = 0
  BY <1>3, <1>7, FS_EmptySet DEF Count
<1>9. Swings(law, t, y, l)
  BY <1>4, <1>5, <1>8, UndecidedSwings
<1>10. Waits(def, r, voted, q)
  BY <1>3, <1>6, <1>7, <1>9 DEF Waits
<1>11. QED
  BY <1>1, <1>10 DEF BallotOf

LEMMA BallotsVoted ==
  ASSUME DeskInv, Base(def, task), Voting(def, task), Ballots(def, task, past), NEW r, r = task', TaskVoted
  PROVE  Ballots(def, r, past')
<1>1. PICK i \in Ids : /\ task[i].parent # NoId /\ task[i].status = "active"
                       /\ RowsAfter(r, task, {i}, {}, "sibling")
                       /\ ~Vetoes(r, i)
                       /\ Decided(r, task[i].parent) => task[task[i].parent].assignee # Nobody
  BY DEF TaskVoted
<1>2. PICK q : q = task[i].parent
  OBVIOUS
<1>3. /\ DOMAIN r = DOMAIN task /\ past' = past
      /\ \A j \in DOMAIN task : RowAfter(r[j], task[j], task[j].node, j, {i}, {}, "sibling")
  BY <1>1 DEF RowsAfter, TaskVoted, Settled
<1>4. ASSUME NEW p \in DOMAIN r PROVE BallotOf(def, r, past', p)
  <2>1. SUFFICES ASSUME Polls(def, r[p]) PROVE BallotOf(def, r, past', p)
    BY DEF BallotOf
  <2>2. p \in DOMAIN task /\ RowAfter(r[p], task[p], task[p].node, p, {i}, {}, "sibling")
    BY <1>3, <1>4
  <2>3. p # i
    BY <1>1, <2>1, <2>2 DEF RowAfter, Polls
  <2>4. /\ Polls(def, task[p]) /\ r[p].node = task[p].node /\ r[p].fallback = task[p].fallback
        /\ r[p].status = task[p].status /\ r[p].reason = task[p].reason
    BY <2>1, <2>2, <2>3 DEF RowAfter, Polls
  <2>5. CASE p # q
    <3>1. \A j : j \in VotersOf(r, p) <=> j \in VotersOf(task, p)
      BY <1>3 DEF VotersOf, RowAfter
    <3>2. ASSUME NEW j \in VotersOf(task, p)
          PROVE  r[j].reason = task[j].reason /\ r[j].assignee = task[j].assignee
      <4>1. j \in DOMAIN task /\ j # i
        BY <1>2, <2>5, <3>2 DEF VotersOf
      <4>2. RowAfter(r[j], task[j], task[j].node, j, {i}, {}, "sibling")
        BY <1>3, <4>1
      <4>3. QED
        BY <4>1, <4>2 DEF RowAfter
    <3>3. SameVotes(def, task, r, p)
      BY <2>2, <2>4, <3>1, <3>2 DEF SameVotes
    <3>4. QED
      BY <1>3, <3>3, BallotSame
  <2>6. CASE p = q
    <3>1. VoteNode(def, task[i].node)
      <4>1. task[q].node = task[i].node
        BY <1>1, <1>2, SignerFacts DEF Opened
      <4>2. QED
        BY <2>4, <2>6, <4>1 DEF Polls
    <3>2. CastOn(r, i, q)
      BY <1>1, <1>2, <3>1, VoteFacts
    <3>3. ~Decided(r, q)
      BY <1>1, <1>2, <2>4, <2>6 DEF Polls
    <3>4. BallotOf(def, r, past, q)
      BY <1>1, <2>4, <2>6, <3>2, <3>3, BallotVoted
    <3>5. QED
      BY <1>3, <2>6, <3>4
  <2>7. QED
    BY <2>5, <2>6
<1>5. QED
  BY <1>4 DEF Ballots

(* Votes that end their parent: those who have not voted are cut off. *)
LEMMA BallotSealed ==
  ASSUME DeskInv, NEW q \in DOMAIN task, NEW mid, DOMAIN mid \subseteq Id,
         \A j \in VotersOf(mid, q) : Told(mid[j]) /\ mid[j].status \in RowStatus \ {"terminated"},
         NEW r, r[q].node = task[q].node, r[q].fallback = task[q].fallback, r[q].status = "completed",
         VotersOf(r, q) = VotersOf(mid, q),
         Heard(r, q, "approved") = Heard(mid, q, "approved"),
         Heard(r, q, "threshold") = Heard(mid, q, "none"),
         \/ /\ RuleOf(q).type = "all" /\ r[q].reason = "rejected"
            /\ Heard(mid, q, "rejected") # {}
         \/ /\ Decided(mid, q)
            /\ r[q].reason = "approved" <=> Favours(mid, q),
         NEW voted
  PROVE  BallotOf(def, r, voted, q)
<1>1. PICK law : law = RuleOf(q)
  OBVIOUS
<1>2. PICK t, y, n, l : /\ t = Roll(mid, q) /\ y = Count(mid, q, "approved")
                        /\ n = Count(mid, q, "rejected") /\ l = Count(mid, q, "none")
  OBVIOUS
<1>3. /\ ValidRule(law) /\ t \in Nat /\ y \in Nat /\ n \in Nat /\ l \in Nat /\ t = y + n + l
      /\ Decided(mid, q) <=> t > 0 /\ Decides(law, t, y + n, y)
      /\ Favours(mid, q) <=> Approves(law, t, y + n, y)
  BY <1>1, <1>2, DecidedIs
<1>4. /\ Roll(r, q) = t /\ Count(r, q, "approved") = y /\ Count(r, q, "threshold") = l
  BY <1>2 DEF Roll, Count
<1>5. PICK w : w = (r[q].reason = "approved")
  OBVIOUS
<1>6. Seals(law, t, y, l, w)
  <2>1. CASE RuleOf(q).type = "all" /\ r[q].reason = "rejected" /\ Heard(mid, q, "rejected") # {}
    <3>1. IsFiniteSet(Heard(mid, q, "rejected"))
      BY CountType
    <3>2. n # 0
      BY <1>2, <2>1, <3>1, FS_EmptySet DEF Count
    <3>3. y # t /\ y + l # t
      BY <1>3, <3>2
    <3>4. ~Outcome(law, t, y) /\ ~Outcome(law, t, y + l)
      BY <1>1, <2>1, <3>3 DEF Outcome
    <3>5. w = FALSE
      BY <1>5, <2>1
    <3>6. QED
      BY <3>4, <3>5 DEF Seals
  <2>2. CASE Decided(mid, q) /\ (r[q].reason = "approved" <=> Favours(mid, q))
    <3>1. Decides(law, t, y + n, y) /\ (w <=> Approves(law, t, y + n, y))
      BY <1>3, <1>5, <2>2
    <3>2. QED
      BY <1>3, <3>1, DecidedSeals
  <2>3. QED
    BY <2>1, <2>2
<1>7. RuleIn(def, r[q]) = law
  BY <1>1, RuleIs
<1>8. Seals(law, t, y, l, r[q].reason = "approved")
  BY <1>5, <1>6
<1>9. HasEnded(def, r, q)
  BY <1>4, <1>7, <1>8 DEF HasEnded
<1>10. r[q].status # "active"
  OBVIOUS
<1>11. QED
  BY <1>9, <1>10 DEF BallotOf

LEMMA BallotsDecided ==
  ASSUME DeskInv, Base(def, task), Voting(def, task), Ballots(def, task, past), NEW r, r = task', TaskDecided
  PROVE  Ballots(def, r, past')
<1>0. PICK i \in Ids, w \in Vote : /\ task[i].parent # NoId /\ task[i].status = "active"
                                   /\ \E mid, T : VoteEnds(i, mid, T, w)
  BY DEF TaskDecided
<1>1. PICK mid, T : VoteEnds(i, mid, T, w)
  BY <1>0
<1>2. PICK q : q = task[i].parent
  OBVIOUS
<1>3. /\ RowsAfter(mid, task, {i}, {}, "sibling") /\ RowsAfter(r, mid, {q}, T, "threshold")
      /\ \A j : j \in T <=> j \in DOMAIN mid /\ mid[j].parent = q /\ Opened(mid[j])
      /\ r[q].reason = w /\ Ruling(mid, i, w) /\ past' = past
  BY <1>1, <1>2 DEF VoteEnds, TaskDecided, Kept
<1>4. /\ DOMAIN mid = DOMAIN task /\ DOMAIN r = DOMAIN task
      /\ \A j \in DOMAIN task : RowAfter(mid[j], task[j], task[j].node, j, {i}, {}, "sibling")
      /\ \A j \in DOMAIN task : RowAfter(r[j], mid[j], mid[j].node, j, {q}, T, "threshold")
  BY <1>3 DEF RowsAfter
<1>5. /\ q \in DOMAIN task /\ q # i /\ task[q].parent = NoId /\ task[q].node = task[i].node
  BY <1>0, <1>2, SignerFacts DEF Opened
<1>6. ASSUME NEW p \in DOMAIN r, Polls(def, r[p]) PROVE BallotOf(def, r, past', p)
  <2>1. /\ p \in DOMAIN task
        /\ RowAfter(mid[p], task[p], task[p].node, p, {i}, {}, "sibling")
        /\ RowAfter(r[p], mid[p], mid[p].node, p, {q}, T, "threshold")
    BY <1>4, <1>6
  <2>2. p # i /\ p \notin T
    BY <1>0, <1>2, <1>3, <1>6, <2>1 DEF RowAfter, Polls
  <2>3. CASE p # q
    <3>1. /\ Polls(def, task[p]) /\ r[p].node = task[p].node /\ r[p].fallback = task[p].fallback
          /\ r[p].status = task[p].status /\ r[p].reason = task[p].reason
      BY <1>6, <2>1, <2>2, <2>3 DEF RowAfter, Polls
    <3>2. \A j : j \in VotersOf(r, p) <=> j \in VotersOf(task, p)
      BY <1>4 DEF VotersOf, RowAfter
    <3>3. ASSUME NEW j \in VotersOf(task, p)
          PROVE  r[j].reason = task[j].reason /\ r[j].assignee = task[j].assignee
      <4>1. j \in DOMAIN task /\ task[j].parent = p /\ j # i /\ p # NoId
        BY <1>2, <2>1, <2>3, <3>1, <3>3, PollFacts DEF VotersOf, Polls
      <4>2. RowAfter(mid[j], task[j], task[j].node, j, {i}, {}, "sibling")
            /\ RowAfter(r[j], mid[j], mid[j].node, j, {q}, T, "threshold")
        BY <1>4, <4>1
      <4>3. j # q /\ j \notin T
        BY <1>3, <1>5, <2>3, <4>1, <4>2 DEF RowAfter
      <4>4. QED
        BY <4>1, <4>2, <4>3 DEF RowAfter
    <3>4. SameVotes(def, task, r, p)
      BY <2>1, <3>1, <3>2, <3>3 DEF SameVotes
    <3>5. QED
      BY <1>3, <3>4, BallotSame
  <2>4. CASE p = q
    <3>1. VoteNode(def, task[i].node)
      BY <1>5, <1>6, <2>1, <2>4 DEF RowAfter, Polls
    <3>2. CastOn(mid, i, q)
      BY <1>0, <1>2, <1>3, <3>1, VoteFacts
    <3>3. /\ DOMAIN mid \subseteq Id /\ r[q].node = task[q].node /\ r[q].fallback = task[q].fallback
          /\ r[q].status = "completed" /\ r[q].reason = w
          /\ \A j \in VotersOf(mid, q) : Told(mid[j]) /\ mid[j].status \in RowStatus \ {"terminated"}
          /\ i \in VotersOf(mid, q)
      BY <1>3, <2>1, <2>4, <3>2 DEF RowAfter, CastOn
    <3>4. VotersOf(r, q) = VotersOf(mid, q)
      BY <1>4 DEF VotersOf, RowAfter
    <3>5. ASSUME NEW j \in VotersOf(mid, q)
          PROVE  /\ r[j].reason = "approved" <=> mid[j].reason = "approved"
                 /\ r[j].reason = "threshold" <=> mid[j].reason = "none"
      <4>1. j \in DOMAIN task /\ j # q /\ (j \in T <=> Opened(mid[j])) /\ mid[j].parent = q
        <5>1. j \in DOMAIN task /\ mid[j].parent = q
          BY <1>4, <3>5 DEF VotersOf
        <5>2. mid[q].parent = NoId /\ q # NoId
          BY <1>0, <1>2, <1>5, <2>1, <2>4 DEF RowAfter
        <5>3. QED
          BY <1>3, <1>4, <5>1, <5>2
      <4>2. RowAfter(r[j], mid[j], mid[j].node, j, {q}, T, "threshold")
        BY <1>4, <4>1
      <4>3. mid[j].reason \in {"approved", "rejected", "none"} /\ (Opened(mid[j]) <=> mid[j].reason = "none")
        BY <3>3, <3>5 DEF Told, Opened, RowStatus, Vote
      <4>4. QED
        BY <4>1, <4>2, <4>3 DEF RowAfter
    <3>6. /\ Heard(r, q, "approved") = Heard(mid, q, "approved")
          /\ Heard(r, q, "threshold") = Heard(mid, q, "none")
      BY <3>4, <3>5 DEF Heard
    <3>7. \/ /\ RuleOf(q).type = "all" /\ r[q].reason = "rejected"
             /\ Heard(mid, q, "rejected") # {}
          \/ /\ Decided(mid, q)
             /\ r[q].reason = "approved" <=> Favours(mid, q)
      <4>1. CASE Vetoes(mid, i) /\ w = "rejected"
        <5>1. i \in Heard(mid, q, "rejected") /\ RuleOf(q).type = "all"
          BY <3>2, <3>3, <4>1 DEF Vetoes, Heard, CastOn
        <5>2. QED
          BY <3>3, <4>1, <5>1
      <4>2. CASE Decided(mid, q) /\ (w = "approved" <=> Favours(mid, q))
        BY <3>3, <4>2
      <4>3. QED
        BY <1>2, <1>3, <4>1, <4>2 DEF Ruling
    <3>8. QED
      BY <1>5, <2>4, <3>3, <3>4, <3>6, <3>7, BallotSealed
  <2>5. QED
    BY <2>3, <2>4
<1>7. QED
  BY <1>6 DEF Ballots, BallotOf

(* More voters: what decided nothing does not decide now. *)
LEMMA BallotsSigned ==
  ASSUME DeskInv, Base(def, task), Voting(def, task), Ballots(def, task, past), NEW r, r = task', TaskSigned
  PROVE  Ballots(def, r, past')
<1>0. PICK m \in Ids : /\ task[m].parent = NoId /\ task[m].status = "active"
                       /\ \E N : Signers(m, N, r)
  BY DEF TaskSigned
<1>1. PICK N : Signers(m, N, r)
  BY <1>0
<1>2. /\ \A j : j \in DOMAIN r <=> j \in DOMAIN task \/ j \in N
      /\ \A j \in DOMAIN task : r[j] = task[j]
      /\ \A k \in N : k \in Id /\ k \notin DOMAIN task /\ r[k].parent = m /\ r[k].reason = "none"
      /\ past' = past /\ m \in DOMAIN task /\ m # NoId
  BY <1>1, RowBounds DEF Signers, TaskSigned, Settled, Ids, DeskInv, RowInv, Typed, NoId, Id
<1>3. ASSUME NEW p \in DOMAIN r, Polls(def, r[p]) PROVE BallotOf(def, r, past', p)
  <2>1. p \in DOMAIN task /\ r[p] = task[p] /\ Polls(def, task[p])
    BY <1>2, <1>3 DEF Polls
  <2>2. CASE p # m
    <3>1. \A j : j \in VotersOf(r, p) <=> j \in VotersOf(task, p)
      BY <1>2, <2>2 DEF VotersOf
    <3>2. \A j \in VotersOf(task, p) : r[j] = task[j]
      BY <1>2 DEF VotersOf
    <3>3. SameVotes(def, task, r, p)
      BY <2>1, <3>1, <3>2 DEF SameVotes
    <3>4. QED
      BY <1>2, <3>3, BallotSame
  <2>3. CASE p = m
    <3>1. DOMAIN task \subseteq Id /\ \A j \in VotersOf(task, m) : VoterOf(j, m)
      BY <2>1, <2>3, PollFacts DEF Polls
    <3>2. \A j \in VotersOf(task, m) : Told(task[j]) /\ task[j].status \in RowStatus \ {"terminated"}
      BY <1>0, <3>1 DEF VoterOf
    <3>3. PICK law : law = RuleOf(m)
      OBVIOUS
    <3>4. PICK t, y, n, l : /\ t = Roll(task, m) /\ y = Count(task, m, "approved")
                            /\ n = Count(task, m, "rejected") /\ l = Count(task, m, "none")
      OBVIOUS
    <3>5. ValidRule(law) /\ t \in Nat /\ y \in Nat /\ n \in Nat /\ l \in Nat /\ t = y + n + l
      BY <1>2, <3>1, <3>2, <3>3, <3>4, DecidedIs
    <3>6. RuleIn(def, task[m]) = law
      BY <1>2, <3>3, RuleIs
    <3>7. IsFiniteSet(N) /\ N \cap VotersOf(task, m) = {} /\ N \cap Heard(task, m, "none") = {}
      <4>1. IsFiniteSet(Id)
        BY RowBounds, FS_Interval DEF Id
      <4>2. IsFiniteSet(N)
        BY <1>2, <4>1, FS_Subset
      <4>3. QED
        BY <1>2, <4>2 DEF VotersOf, Heard
    <3>8. /\ VotersOf(r, m) = VotersOf(task, m) \cup N
          /\ Heard(r, m, "none") = Heard(task, m, "none") \cup N
          /\ Heard(r, m, "approved") = Heard(task, m, "approved")
          /\ Heard(r, m, "rejected") = Heard(task, m, "rejected")
      <4>1. VotersOf(r, m) = VotersOf(task, m) \cup N
        BY <1>2 DEF VotersOf
      <4>2. \A j \in VotersOf(task, m) : r[j].reason = task[j].reason
        BY <1>2 DEF VotersOf
      <4>3. QED
        BY <1>2, <4>1, <4>2 DEF Heard
    <3>9. PICK d \in Nat : d = Cardinality(N)
      BY <3>7, FS_CardinalityType
    <3>10. Roll(r, m) = t + d
      <4>1. IsFiniteSet(VotersOf(task, m))
        BY <3>1, CountType
      <4>2. Cardinality(VotersOf(task, m) \cup N)
              = Cardinality(VotersOf(task, m)) + Cardinality(N) - Cardinality(VotersOf(task, m) \cap N)
        BY <3>7, <4>1, FS_Union
      <4>3. Cardinality(VotersOf(task, m) \cap N) = 0
        BY <3>7, FS_EmptySet
      <4>4. QED
        BY <3>4, <3>5, <3>8, <3>9, <4>2, <4>3 DEF Roll
    <3>11. Count(r, m, "none") = l + d
      <4>1. IsFiniteSet(Heard(task, m, "none"))
        BY <3>1, CountType
      <4>2. Cardinality(Heard(task, m, "none") \cup N)
              = Cardinality(Heard(task, m, "none")) + Cardinality(N) - Cardinality(Heard(task, m, "none") \cap N)
        BY <3>7, <4>1, FS_Union
      <4>3. Cardinality(Heard(task, m, "none") \cap N) = 0
        BY <3>7, FS_EmptySet
      <4>4. Cardinality(Heard(task, m, "none")) = l
        BY <3>4 DEF Count
      <4>5. Cardinality(Heard(task, m, "none") \cup N) = l + d
        BY <3>5, <3>9, <4>2, <4>3, <4>4
      <4>6. QED
        BY <3>8, <4>5 DEF Count
    <3>12. Count(r, m, "approved") = y
      BY <3>4, <3>8 DEF Count
    <3>13. Waits(def, task, past, m)
      BY <1>0, <1>2, <2>1, <2>3 DEF Ballots, BallotOf
    <3>14. law.type = "all" => Heard(r, m, "rejected") = {}
      BY <3>6, <3>8, <3>13 DEF Waits
    <3>15. CASE Swings(law, t, y, l)
      <4>1. Swings(law, t + d, y, l + d)
        BY <3>5, <3>9, <3>15, MoreSwings
      <4>2. Waits(def, r, past, m)
        BY <1>2, <3>6, <3>10, <3>11, <3>12, <3>14, <4>1 DEF Waits
      <4>3. QED
        BY <1>0, <1>2, <2>1, <2>3, <4>2 DEF BallotOf
    <3>16. CASE Rehears(def, task, past, m)
      <4>1. PICK j \in Heard(task, m, "none") : <<task[m].node, task[j].assignee>> \in past
        BY <3>16 DEF Rehears
      <4>2. j \in Heard(r, m, "none") /\ r[j] = task[j] /\ r[m] = task[m]
        BY <1>2, <3>8, <4>1 DEF Heard, VotersOf
      <4>3. Rehears(def, r, past, m)
        BY <3>16, <4>1, <4>2 DEF Rehears
      <4>4. Waits(def, r, past, m)
        BY <1>2, <3>6, <3>14, <4>3 DEF Waits
      <4>5. QED
        BY <1>0, <1>2, <2>1, <2>3, <4>4 DEF BallotOf
    <3>17. QED
      BY <3>4, <3>6, <3>13, <3>15, <3>16 DEF Waits
  <2>4. QED
    BY <2>2, <2>3
<1>4. QED
  BY <1>3 DEF Ballots, BallotOf

(* Fewer voters: the votes of those who are left are counted again. *)
LEMMA LeftVotes ==
  ASSUME DeskInv, Base(def, task), Voting(def, task), NEW m \in Ids, task[m].parent = NoId, task[m].status = "active",
         NEW gone, TakenOff(m, gone), NEW r, Left(task, gone, r)
  PROVE  /\ m \in DOMAIN r /\ Alike(r[m], task[m]) /\ DOMAIN r \subseteq DOMAIN task
         /\ \A j \in DOMAIN r : Alike(r[j], task[j])
         /\ \A p \in DOMAIN r : p # m => \A j : j \in VotersOf(r, p) <=> j \in VotersOf(task, p)
         /\ VoteNode(def, task[m].node) =>
              /\ DOMAIN r \subseteq Id
              /\ \A j \in VotersOf(r, m) : /\ j # m /\ j \in VotersOf(task, m)
                                           /\ Told(r[j]) /\ r[j].status \in RowStatus \ {"terminated"}
<1>1. /\ DOMAIN r = DOMAIN task \ gone
      /\ \A j \in DOMAIN r : Alike(r[j], task[j])
      /\ \A j \in gone : j \in Ids /\ task[j].parent = m /\ task[j].status = "active"
      /\ m \in DOMAIN task /\ m # NoId
  BY RowBounds DEF Left, TakenOff, Ids, DeskInv, RowInv, Typed, NoId, Id
<1>2. m \in DOMAIN r /\ Alike(r[m], task[m]) /\ DOMAIN r \subseteq DOMAIN task
  BY <1>1
<1>3. \A p \in DOMAIN r : p # m => \A j : j \in VotersOf(r, p) <=> j \in VotersOf(task, p)
  BY <1>1 DEF VotersOf, Alike
<1>4. ASSUME VoteNode(def, task[m].node), NEW j \in VotersOf(r, m)
      PROVE  /\ j # m /\ j \in VotersOf(task, m)
             /\ Told(r[j]) /\ r[j].status \in RowStatus \ {"terminated"}
  <2>1. j \in VotersOf(task, m) /\ Alike(r[j], task[j])
    BY <1>1, <1>4 DEF VotersOf, Alike
  <2>2. VoterOf(j, m)
    BY <1>1, <1>4, <2>1, PollFacts
  <2>3. QED
    BY <2>1, <2>2 DEF VoterOf, Alike, Told, Opened
<1>5. DOMAIN r \subseteq Id
  BY <1>1 DEF DeskInv, RowInv, Typed
<1>6. QED
  BY <1>1, <1>2, <1>3, <1>4, <1>5

LEMMA BallotsReduced ==
  ASSUME DeskInv, Base(def, task), Voting(def, task), Ballots(def, task, past), NEW r, r = task', TaskReduced
  PROVE  Ballots(def, r, past')
<1>1. PICK m \in Ids : \E gone :
        /\ task[m].parent = NoId /\ task[m].status = "active"
        /\ TakenOff(m, gone) /\ Left(task, gone, r)
        /\ ByVotes(task[m].node) => Electorate(r, m) # {} /\ ~Decided(r, m)
  BY DEF TaskReduced
<1>2. PICK gone : TakenOff(m, gone) /\ Left(task, gone, r)
  BY <1>1
<1>3. past' = past
  BY DEF TaskReduced, Settled
<1>4. /\ m \in DOMAIN r /\ Alike(r[m], task[m]) /\ DOMAIN r \subseteq DOMAIN task
      /\ \A j \in DOMAIN r : Alike(r[j], task[j])
      /\ \A p \in DOMAIN r : p # m => \A j : j \in VotersOf(r, p) <=> j \in VotersOf(task, p)
      /\ VoteNode(def, task[m].node) =>
           /\ DOMAIN r \subseteq Id
           /\ \A j \in VotersOf(r, m) : /\ j # m /\ j \in VotersOf(task, m)
                                        /\ Told(r[j]) /\ r[j].status \in RowStatus \ {"terminated"}
  BY <1>1, <1>2, LeftVotes
<1>5. ASSUME NEW p \in DOMAIN r, Polls(def, r[p]) PROVE BallotOf(def, r, past', p)
  <2>1. /\ p \in DOMAIN task /\ Polls(def, task[p]) /\ r[p].node = task[p].node /\ r[p].fallback = task[p].fallback
        /\ r[p].status = task[p].status /\ r[p].reason = task[p].reason
    BY <1>4, <1>5 DEF Alike, Polls
  <2>2. CASE p # m
    <3>1. \A j : j \in VotersOf(r, p) <=> j \in VotersOf(task, p)
      BY <1>4, <1>5, <2>2
    <3>2. \A j \in VotersOf(task, p) : r[j].reason = task[j].reason /\ r[j].assignee = task[j].assignee
      BY <1>4, <3>1 DEF VotersOf, Alike
    <3>3. SameVotes(def, task, r, p)
      BY <2>1, <3>1, <3>2 DEF SameVotes
    <3>4. QED
      BY <1>3, <3>3, BallotSame
  <2>3. CASE p = m
    <3>1. /\ VoteNode(def, task[m].node) /\ ByVotes(task[m].node) /\ task[m].status = "active"
          /\ Electorate(r, m) # {} /\ ~Decided(r, m)
      BY <1>1, <2>1, <2>3 DEF Polls, VoteNode, ByVotes
    <3>2. /\ DOMAIN r \subseteq Id
          /\ \A j \in VotersOf(r, m) : /\ j \in VotersOf(task, m)
                                       /\ Told(r[j]) /\ r[j].status \in RowStatus \ {"terminated"}
      BY <1>4, <3>1
    <3>3. PICK law : law = RuleOf(m)
      OBVIOUS
    <3>4. PICK t, y, n, l : /\ t = Roll(r, m) /\ y = Count(r, m, "approved")
                            /\ n = Count(r, m, "rejected") /\ l = Count(r, m, "none")
      OBVIOUS
    <3>5. /\ ValidRule(law) /\ t \in Nat /\ y \in Nat /\ n \in Nat /\ l \in Nat /\ t = y + n + l
          /\ Decided(r, m) <=> t > 0 /\ Decides(law, t, y + n, y)
      BY <1>4, <3>2, <3>3, <3>4, DecidedIs
    <3>6. t > 0
      <4>1. VotersOf(r, m) # {}
        BY <3>1, <3>2, TallyIs
      <4>2. IsFiniteSet(VotersOf(r, m))
        BY <3>2, CountType
      <4>3. t # 0
        BY <3>4, <4>1, <4>2, FS_EmptySet DEF Roll
      <4>4. QED
        BY <3>5, <4>3
    <3>7. RuleIn(def, r[m]) = law /\ RuleIn(def, task[m]) = law
      BY <2>1, <2>3, <3>3, RuleIs
    <3>8. ASSUME law.type = "all" PROVE Heard(r, m, "rejected") = {}
      <4>1. Heard(task, m, "rejected") = {}
        BY <2>1, <2>3, <3>1, <3>7, <3>8 DEF Ballots, BallotOf, Waits
      <4>2. \A j \in VotersOf(r, m) : r[j].reason = task[j].reason
        BY <1>4 DEF VotersOf, Alike
      <4>3. QED
        BY <3>2, <4>1, <4>2 DEF Heard
    <3>9. law.type = "all" => n = 0
      BY <3>4, <3>8, FS_EmptySet DEF Count
    <3>10. Swings(law, t, y, l)
      BY <3>1, <3>5, <3>6, <3>9, UndecidedSwings
    <3>11. Waits(def, r, past, m)
      BY <3>4, <3>7, <3>8, <3>10 DEF Waits
    <3>12. r[m].status # "completed"
      BY <2>1, <2>3, <3>1
    <3>13. QED
      BY <1>3, <2>3, <3>11, <3>12 DEF BallotOf
  <2>4. QED
    BY <2>2, <2>3
<1>6. QED
  BY <1>5 DEF Ballots, BallotOf

LEMMA BallotsReducedDecided ==
  ASSUME DeskInv, DeskInv', def' = def, Base(def, task), Voting(def, task), Ballots(def, task, past),
         NEW r, r = task', ReducedDecided
  PROVE  Ballots(def, r, past')
<1>0. PICK m \in Ids, w \in Vote : \E gone, mid :
        /\ task[m].parent = NoId /\ task[m].status = "active"
        /\ TakenOff(m, gone) /\ Left(task, gone, mid)
        /\ RowsAfter(r, mid, {m}, {}, "sibling") /\ r[m].reason = w
        /\ ByVotes(task[m].node) /\ Decided(mid, m)
        /\ w = "approved" <=> Favours(mid, m)
  BY DEF ReducedDecided
<1>1. PICK gone, mid : /\ TakenOff(m, gone) /\ Left(task, gone, mid)
                       /\ RowsAfter(r, mid, {m}, {}, "sibling")
                       /\ Decided(mid, m)
                       /\ w = "approved" <=> Favours(mid, m)
  BY <1>0
<1>2. past' = past
  BY DEF ReducedDecided, Kept
<1>3. /\ m \in DOMAIN mid /\ Alike(mid[m], task[m]) /\ DOMAIN mid \subseteq DOMAIN task
      /\ \A j \in DOMAIN mid : Alike(mid[j], task[j])
      /\ \A p \in DOMAIN mid : p # m => \A j : j \in VotersOf(mid, p) <=> j \in VotersOf(task, p)
      /\ VoteNode(def, task[m].node) =>
           /\ DOMAIN mid \subseteq Id
           /\ \A j \in VotersOf(mid, m) : /\ j # m /\ j \in VotersOf(task, m)
                                          /\ Told(mid[j]) /\ mid[j].status \in RowStatus \ {"terminated"}
  BY <1>0, <1>1, LeftVotes
<1>4. /\ VoteNode(def, task[m].node) /\ r[m].reason = w /\ task[m].parent = NoId
      /\ DOMAIN r = DOMAIN mid
      /\ \A j \in DOMAIN mid : RowAfter(r[j], mid[j], mid[j].node, j, {m}, {}, "sibling")
  BY <1>0, <1>1 DEF RowsAfter, ByVotes, VoteNode
<1>5. \A p \in DOMAIN r : \A j : j \in VotersOf(r, p) <=> j \in VotersOf(mid, p)
  BY <1>4 DEF VotersOf, RowAfter
<1>6. ASSUME NEW p \in DOMAIN r, Polls(def, r[p]) PROVE BallotOf(def, r, past', p)
  <2>1. CASE p # m
    <3>1. RowAfter(r[p], mid[p], mid[p].node, p, {m}, {}, "sibling") /\ Alike(mid[p], task[p]) /\ p \in DOMAIN task
      BY <1>3, <1>4, <1>6
    <3>2. /\ Polls(def, task[p]) /\ r[p].node = task[p].node /\ r[p].fallback = task[p].fallback
          /\ r[p].status = task[p].status /\ r[p].reason = task[p].reason
      BY <1>6, <2>1, <3>1 DEF RowAfter, Alike, Polls
    <3>3. \A j : j \in VotersOf(r, p) <=> j \in VotersOf(task, p)
      BY <1>3, <1>4, <1>5, <1>6, <2>1
    <3>4. ASSUME NEW j \in VotersOf(task, p)
          PROVE  r[j].reason = task[j].reason /\ r[j].assignee = task[j].assignee
      <4>1. j \in DOMAIN mid /\ p # NoId /\ task[j].parent = p
        BY <1>4, <3>1, <3>2, <3>3, <3>4, PollFacts DEF VotersOf, Polls
      <4>2. j # m
        BY <1>4, <4>1
      <4>3. RowAfter(r[j], mid[j], mid[j].node, j, {m}, {}, "sibling") /\ Alike(mid[j], task[j])
        BY <1>3, <1>4, <4>1
      <4>4. QED
        BY <4>2, <4>3 DEF RowAfter, Alike
    <3>5. SameVotes(def, task, r, p)
      BY <3>1, <3>2, <3>3, <3>4 DEF SameVotes
    <3>6. QED
      BY <1>2, <3>5, BallotSame
  <2>2. CASE p = m
    <3>1. RowAfter(r[m], mid[m], mid[m].node, m, {m}, {}, "sibling")
      BY <1>3, <1>4
    <3>2. r[m].node = task[m].node /\ r[m].fallback = task[m].fallback /\ r[m].status = "completed"
          /\ r[m].parent = NoId /\ m \in DOMAIN r /\ m \in DOMAIN task
      BY <1>3, <1>4, <3>1 DEF RowAfter, Alike
    <3>3. VotersOf(r, m) = VotersOf(mid, m)
      BY <1>5, <3>2
    <3>4. ASSUME NEW j \in VotersOf(mid, m)
          PROVE  r[j].reason = mid[j].reason /\ mid[j].reason \in {"approved", "rejected"}
      <4>1. j \in DOMAIN mid /\ j # m /\ Told(mid[j]) /\ mid[j].status \in RowStatus \ {"terminated"}
        BY <1>3, <1>4, <3>4 DEF VotersOf
      <4>2. RowAfter(r[j], mid[j], mid[j].node, j, {m}, {}, "sibling")
        BY <1>4, <4>1
      <4>3. r[j].reason = mid[j].reason /\ r[j].status = mid[j].status
        BY <4>1, <4>2 DEF RowAfter
      <4>4. ~Opened(r[j])
        <5>1. LoneMain(def, r) /\ Family(def, r)
          BY DEF DeskInv, RowInv
        <5>2. r[j].parent = m /\ j \in DOMAIN r /\ m # NoId
          BY <1>4, <3>2, <3>3, <3>4, PollFacts DEF VotersOf
        <5>3. r[m].node = r[j].node
          BY <5>1, <5>2 DEF Family
        <5>4. QED
          BY <3>2, <5>1, <5>2, <5>3 DEF LoneMain
      <4>5. QED
        BY <4>1, <4>3, <4>4 DEF Told, Opened, RowStatus, Vote
    <3>5. /\ Heard(r, m, "approved") = Heard(mid, m, "approved")
          /\ Heard(r, m, "threshold") = Heard(mid, m, "none")
      BY <3>3, <3>4 DEF Heard
    <3>6. Decided(mid, m) /\ (r[m].reason = "approved" <=> Favours(mid, m))
      BY <1>1, <1>4
    <3>7. QED
      BY <1>3, <1>4, <2>2, <3>2, <3>3, <3>5, <3>6, BallotSealed
  <2>3. QED
    BY <2>1, <2>2
<1>7. QED
  BY <1>6 DEF Ballots, BallotOf

(* A recalled vote is awaited; the parents of other votes are as they were. *)
LEMMA BallotAwaits ==
  ASSUME DeskInv, Base(def, task), Voting(def, task), Standing, NEW voted, Ballots(def, task, voted),
         NEW t, CanRecall(t), NEW p \in DOMAIN task, task[p].parent = NoId, task[p].assignee = Nobody,
         VoteNode(def, task[p].node), task[p].status \in {"active", "completed"},
         RuleIn(def, task[p]).type = "all"
  PROVE  \A j \in VotersOf(task, p) : task[j].reason # "rejected"
<1>1. DOMAIN task \subseteq Id /\ Ids = DOMAIN task /\ \A j \in VotersOf(task, p) : VoterOf(j, p)
  BY PollFacts
<1>2. BallotOf(def, task, voted, p) /\ Polls(def, task[p])
  BY DEF Ballots, Polls
<1>3. CASE task[p].status = "active"
  <2>1. Heard(task, p, "rejected") = {}
    BY <1>2, <1>3 DEF BallotOf, Waits
  <2>2. QED
    BY <2>1 DEF Heard
<1>4. CASE task[p].status = "completed"
  <2>1. task[p].reason = "approved"
    <3>1. PICK o \in Ids : Opened(task[o])
      BY DEF CanRecall, RecallGuard, Open, Opened
    <3>2. asks = {} /\ at = NoNode /\ resets = <<>>
      BY <3>1 DEF DeskInv, Quiet, Driving
    <3>3. task[p].node # NoNode
      BY FlowNodes DEF DeskInv, DriveTyped, RowInv, Typed
    <3>4. ~Due(task[p].node)
      <4>1. Len(resets) - 1 = -1
        BY <3>2, EmptySeq
      <4>2. 1..(Len(resets) - 1) = {}
        BY <4>1
      <4>3. QED
        BY <3>2, <3>3, <4>2 DEF Due
    <3>5. task[p].reason # "rejected"
      BY <1>1, <1>4, <3>4 DEF Standing, Refusal
    <3>6. task[p].reason \in Vote
      BY <1>4 DEF Base, Sincere, Told
    <3>7. QED
      BY <3>5, <3>6 DEF Vote
  <2>2. HasEnded(def, task, p)
    BY <1>2, <1>4 DEF BallotOf
  <2>3. Outcome(RuleIn(def, task[p]), Roll(task, p), Count(task, p, "approved"))
    BY <2>1, <2>2 DEF HasEnded, Seals
  <2>4. Count(task, p, "approved") = Roll(task, p)
    BY <2>3 DEF Outcome
  <2>5. IsFiniteSet(VotersOf(task, p)) /\ Heard(task, p, "approved") \in SUBSET VotersOf(task, p)
    BY <1>1, CountType DEF Heard
  <2>6. VotersOf(task, p) = Heard(task, p, "approved")
    BY <2>4, <2>5, FS_Subset DEF Roll, Count
  <2>7. ASSUME NEW j \in VotersOf(task, p) PROVE task[j].reason # "rejected"
    <3>1. task[j].reason = "approved"
      BY <2>6, <2>7 DEF Heard
    <3>2. QED
      BY <3>1
  <2>8. QED
    BY <2>7
<1>5. QED
  BY <1>3, <1>4

LEMMA BallotsRecalled ==
  ASSUME DeskInv, Base(def, task), Voting(def, task), Standing, Ballots(def, task, past),
         NEW r, r = task', TaskRecalled
  PROVE  Ballots(def, r, past')
<1>1. PICK t \in Ids : Recalled(t, task[t].node) /\ past' = past \cup {<<task[t].node, task[t].assignee>>}
  BY DEF TaskRecalled
<1>2. PICK F : F = Fresh(1)
  OBVIOUS
<1>3. /\ CanRecall(t)
      /\ \A j : j \in DOMAIN r <=> (j \in DOMAIN task /\ j \notin GoneBy(t)) \/ j = F
      /\ F \notin DOMAIN task
      /\ \A j \in DOMAIN task : j \notin GoneBy(t) => KeptAs(r[j], task[j], j \in BackBy(t))
      /\ Renewed(r[F], t, task[t].node)
      /\ past \subseteq past' /\ <<task[t].node, task[t].assignee>> \in past'
  BY <1>1, <1>2 DEF Recalled, Recalls, Ids
<1>4. /\ Family(def, task) /\ Ids = DOMAIN task /\ "Recall" \in def.uses
      /\ \A j \in DOMAIN task : j # NoId
  BY <1>3, RowBounds DEF DeskInv, RowInv, Typed, NoId, Id, Ids, CanRecall
<1>5. PICK q : q = task[t].parent
  OBVIOUS
<1>6. \A j \in BackBy(t) : /\ q \in Ids /\ q # NoId /\ task[q].status = "completed"
                           /\ j = q \/ task[j].parent = q
  BY <1>4, <1>5 DEF BackBy, Reopened, CutOff, Completed
<1>7. /\ r[F].parent = q /\ r[F].node = task[t].node /\ r[F].reason = "none"
      /\ r[F].assignee = task[t].assignee /\ r[F].assignee # Nobody
  BY <1>3, <1>5 DEF Renewed
<1>8. ASSUME NEW p \in DOMAIN r, Polls(def, r[p]) PROVE BallotOf(def, r, past', p)
  <2>1. p \in DOMAIN task /\ p \notin GoneBy(t) /\ KeptAs(r[p], task[p], p \in BackBy(t))
    BY <1>3, <1>7, <1>8 DEF Polls
  <2>2. /\ task[p].parent = NoId /\ VoteNode(def, task[p].node) /\ task[p].assignee = Nobody
        /\ r[p].node = task[p].node /\ r[p].fallback = task[p].fallback /\ p # NoId
    BY <1>4, <1>8, <2>1 DEF KeptAs, Polls
  <2>3. DOMAIN task \subseteq Id /\ \A j \in VotersOf(task, p) : VoterOf(j, p)
    BY <2>1, <2>2, PollFacts
  <2>4. CASE p = q
    <3>1. task[p].status \in {"active", "completed"} /\ r[p].status = "active"
      <4>1. CASE p \in BackBy(t)
        BY <1>6, <2>1, <2>4, <4>1 DEF KeptAs
      <4>2. CASE p \notin BackBy(t)
        <5>1. task[p].status # "completed"
          BY <1>4, <1>5, <2>1, <2>4, <4>2 DEF BackBy, Reopened, Completed
        <5>2. QED
          BY <1>8, <2>1, <4>2, <5>1 DEF KeptAs, Polls
      <4>3. QED
        BY <4>1, <4>2
    <3>2. RuleIn(def, r[p]) = RuleIn(def, task[p])
      BY <2>2 DEF RuleIn
    <3>3. ASSUME RuleIn(def, r[p]).type = "all" PROVE Heard(r, p, "rejected") = {}
      <4>1. \A j \in VotersOf(task, p) : task[j].reason # "rejected"
        BY <1>3, <2>1, <2>2, <3>1, <3>2, <3>3, BallotAwaits
      <4>2. ASSUME NEW j \in Heard(r, p, "rejected") PROVE FALSE
        <5>1. j \in DOMAIN r /\ r[j].parent = p /\ r[j].reason = "rejected"
          BY <4>2 DEF Heard, VotersOf
        <5>2. j # F
          BY <1>7, <5>1
        <5>3. j \in DOMAIN task /\ KeptAs(r[j], task[j], j \in BackBy(t))
          BY <1>3, <5>1, <5>2
        <5>4. task[j].parent = p /\ task[j].reason = "rejected"
          BY <5>1, <5>3 DEF KeptAs
        <5>5. QED
          BY <4>1, <5>3, <5>4 DEF VotersOf
      <4>3. QED
        BY <4>2
    <3>4. Rehears(def, r, past', p)
      <4>1. F \in Heard(r, p, "none")
        BY <1>3, <1>7, <2>4 DEF Heard, VotersOf
      <4>2. task[p].node = task[t].node
        BY <1>4, <1>5, <2>2, <2>4 DEF Family
      <4>3. <<r[p].node, r[F].assignee>> \in past'
        BY <1>3, <1>7, <2>2, <4>2
      <4>4. QED
        BY <1>4, <4>1, <4>3 DEF Rehears
    <3>5. Waits(def, r, past', p)
      BY <3>3, <3>4 DEF Waits
    <3>6. r[p].status # "completed"
      BY <3>1
    <3>7. QED
      BY <3>5, <3>6 DEF BallotOf
  <2>5. CASE p # q
    <3>1. p \notin BackBy(t)
      BY <1>6, <2>2, <2>5
    <3>2. Polls(def, task[p]) /\ r[p].status = task[p].status /\ r[p].reason = task[p].reason
      BY <1>8, <2>1, <2>2, <3>1 DEF KeptAs, Polls
    <3>3. ASSUME NEW j \in VotersOf(task, p) PROVE j \notin GoneBy(t) /\ j \notin BackBy(t)
      <4>1. j \in DOMAIN task /\ task[j].parent = p /\ VoterOf(j, p)
        BY <2>3, <3>3 DEF VotersOf
      <4>2. j # t
        BY <1>5, <2>5, <4>1
      <4>3. j \notin Frontier(t)
        <5>1. PICK o \in Ids : Opened(task[o])
          BY <1>3 DEF CanRecall, RecallGuard, Open, Opened
        <5>2. CASE task[o].node = task[t].node
          <6>1. Frontier(t) = {}
            BY <1>3, <5>1, <5>2, RecallHere
          <6>2. QED
            BY <6>1
        <5>3. CASE task[o].node # task[t].node
          <6>1. \A x : x \in Frontier(t) <=> x \in Ids /\ Opened(task[x])
            BY <1>3, <5>1, <5>3, RecallLater
          <6>2. task[p].status # "active"
            BY <1>4, <2>1, <6>1 DEF Opened, GoneBy
          <6>3. ~Opened(task[j])
            BY <3>2, <4>1, <6>2 DEF VoterOf, Polls
          <6>4. QED
            BY <6>1, <6>3
        <5>4. QED
          BY <5>2, <5>3
      <4>4. j \notin BackBy(t)
        <5>1. SUFFICES ASSUME j \in BackBy(t) PROVE FALSE
          OBVIOUS
        <5>2. q \in Ids /\ q # NoId /\ j = q
          BY <1>6, <2>5, <4>1, <5>1
        <5>3. task[q].parent = NoId
          BY <1>4, <1>5, <5>2 DEF Family
        <5>4. QED
          BY <2>2, <4>1, <5>2, <5>3
      <4>5. QED
        BY <4>2, <4>3, <4>4 DEF GoneBy
    <3>4. ASSUME NEW j \in VotersOf(task, p)
          PROVE  j \in VotersOf(r, p) /\ r[j].reason = task[j].reason /\ r[j].assignee = task[j].assignee
      <4>1. j \in DOMAIN task /\ task[j].parent = p /\ j \notin GoneBy(t) /\ j \notin BackBy(t)
        BY <3>3, <3>4 DEF VotersOf
      <4>2. j \in DOMAIN r /\ KeptAs(r[j], task[j], j \in BackBy(t))
        BY <1>3, <4>1
      <4>3. QED
        BY <4>1, <4>2 DEF KeptAs, VotersOf
    <3>5. ASSUME NEW j \in VotersOf(r, p) PROVE j \in VotersOf(task, p)
      <4>1. j # F
        BY <1>7, <2>5, <3>5 DEF VotersOf
      <4>2. j \in DOMAIN task /\ KeptAs(r[j], task[j], j \in BackBy(t)) /\ r[j].parent = p
        BY <1>3, <3>5, <4>1 DEF VotersOf
      <4>3. QED
        BY <4>2 DEF KeptAs, VotersOf
    <3>6. SameVotes(def, task, r, p)
      BY <2>1, <2>2, <3>2, <3>4, <3>5 DEF SameVotes
    <3>7. QED
      BY <1>3, <3>6, BallotSame
  <2>6. QED
    BY <2>4, <2>5
<1>9. QED
  BY <1>8 DEF Ballots, BallotOf

(* Every step leaves the ballots so. *)
LEMMA BallotsStep ==
  ASSUME DeskInv, DeskInv', def' = def, Base(def, task), Counted(def), Voting(def, task), Standing,
         Ballots(def, task, past), Changes
  PROVE  Ballots(def, task', past')
<1>0. PICK r : r = task'
  OBVIOUS
<1>1. CASE Reduces
  BY <1>0, <1>1, BallotsReduced, BallotsReducedDecided DEF Reduces
<1>2. QED
  BY <1>0, <1>1, BallotsGone, BallotsMade, BallotsPassed, BallotsClaimed, BallotsGivenBack, BallotsAnswered,
     BallotsVoted, BallotsDecided, BallotsSigned, BallotsRecalled DEF Changes

(* What they say of the votes. *)
LEMMA WholeBallots ==
  ASSUME DeskInv, Base(def, task), Voting(def, task), Ballots(def, task, past)
  PROVE  ElectorateWhole
<1>1. SUFFICES ASSUME NEW p \in Ids, Main(p), ByVotes(task[p].node), task[p].assignee = Nobody
      PROVE  LET open == VotesOn(p, {"none"})
                 cut == VotesOn(p, {"threshold"})
                 agreed == Cardinality(VotesOn(p, {"approved"}))
                 total == Cardinality(Subs(p))
                 Result(approvals) == Outcome(RuleOf(p), total, approvals)
             IN  /\ Active(p) => /\ cut = {}
                                 /\ open # {}
                                 /\ \/ Result(agreed) # Result(agreed + Cardinality(open))
                                    \/ \E j \in open : <<task[p].node, task[j].assignee>> \in past
                 /\ Completed(p) => /\ open = {}
                                    /\ Result(agreed) = Approved(p)
                                    /\ Result(agreed + Cardinality(cut)) = Approved(p)
  BY DEF ElectorateWhole
<1>2. p \in DOMAIN task /\ task[p].parent = NoId /\ VoteNode(def, task[p].node)
  BY <1>1 DEF Ids, Main, ByVotes, VoteNode
<1>3. \A j \in VotersOf(task, p) : VoterOf(j, p)
  BY <1>2, PollFacts
<1>4. \A what : VotesOn(p, {what}) = Heard(task, p, what)
  BY DEF VotesOn, Heard, Subs, VotersOf, Ids
<1>5. Subs(p) = VotersOf(task, p)
  BY DEF Subs, VotersOf, Ids
<1>6. PICK law : law = RuleOf(p)
  OBVIOUS
<1>7. RuleIn(def, task[p]) = law /\ ValidRule(law)
  BY <1>2, <1>6, RuleIs
<1>8. PICK t, y, l, c : /\ t = Roll(task, p) /\ y = Count(task, p, "approved")
                        /\ l = Count(task, p, "none") /\ c = Count(task, p, "threshold")
  OBVIOUS
<1>9. /\ Outcome(law, t, y) \in BOOLEAN /\ Outcome(law, t, y + l) \in BOOLEAN
      /\ Outcome(law, t, y + c) \in BOOLEAN
  BY <1>7, OutcomeType
<1>10. ASSUME Active(p)
       PROVE  /\ Heard(task, p, "threshold") = {}
              /\ Heard(task, p, "none") # {}
              /\ \/ Outcome(law, t, y) # Outcome(law, t, y + l)
                 \/ \E j \in Heard(task, p, "none") : <<task[p].node, task[j].assignee>> \in past
  <2>1. task[p].status = "active" /\ Polls(def, task[p])
    BY <1>1, <1>2, <1>10 DEF Active, Polls
  <2>2. ASSUME NEW j \in Heard(task, p, "threshold") PROVE FALSE
    <3>1. j \in DOMAIN task /\ task[j].reason = "threshold" /\ task[j].status # "terminated"
      BY <1>3, <2>1, <2>2 DEF Heard, VoterOf
    <3>2. QED
      BY <3>1 DEF DeskInv, RowInv, Cut
  <2>3. Heard(task, p, "none") # {}
    <3>1. Awaits(task, p)
      BY <1>1, <1>2, <2>1 DEF Awaits
    <3>2. PICK j \in DOMAIN task : task[j].parent = p /\ Opened(task[j])
      BY <1>2, <3>1 DEF Base, Asking
    <3>3. task[j].reason = "none"
      BY <3>2 DEF Base, Sincere, Told
    <3>4. QED
      BY <3>2, <3>3 DEF Heard, VotersOf
  <2>4. Waits(def, task, past, p)
    BY <1>2, <2>1 DEF Ballots, BallotOf
  <2>5. Swings(law, t, y, l) \/ Rehears(def, task, past, p)
    BY <1>7, <1>8, <2>4 DEF Waits
  <2>6. CASE Swings(law, t, y, l)
    BY <2>2, <2>3, <2>6 DEF Swings
  <2>7. CASE Rehears(def, task, past, p)
    BY <2>2, <2>3, <2>7 DEF Rehears
  <2>8. QED
    BY <2>5, <2>6, <2>7
<1>11. ASSUME Completed(p)
       PROVE  /\ Heard(task, p, "none") = {}
              /\ Outcome(law, t, y) = Approved(p)
              /\ Outcome(law, t, y + c) = Approved(p)
  <2>1. task[p].status = "completed" /\ Polls(def, task[p])
    BY <1>1, <1>2, <1>11 DEF Completed, Polls
  <2>2. ASSUME NEW j \in Heard(task, p, "none") PROVE FALSE
    <3>1. VoterOf(j, p) /\ task[j].reason = "none"
      BY <1>3, <2>2 DEF Heard
    <3>2. QED
      BY <1>2, <2>1, <3>1 DEF VoterOf, Told
  <2>3. HasEnded(def, task, p)
    BY <1>2, <2>1 DEF Ballots, BallotOf
  <2>4. Seals(law, t, y, c, task[p].reason = "approved")
    BY <1>7, <1>8, <2>3 DEF HasEnded
  <2>5. Approved(p) <=> task[p].reason = "approved"
    BY <1>11 DEF Approved
  <2>6. Approved(p) \in BOOLEAN
    BY DEF Approved
  <2>7. QED
    BY <1>9, <2>2, <2>4, <2>5, <2>6, Zenon DEF Seals
<1>12. QED
  BY <1>4, <1>5, <1>6, <1>8, <1>10, <1>11 DEF Roll, Count

(* Whoever is added, taken off, cut off or recalled, a parent is judged by *)
(* all its voters: while it waits somebody is asked and the missing votes  *)
(* can change the result, and when it has ended nobody is asked and no     *)
(* vote of those cut off could have changed it                             *)
(* (task_service_countersign.go, _sign.go, _recall.go).                    *)
THEOREM DeskElectorateWhole == Spec /\ Apart(def) /\ Counted(def) => []ElectorateWhole
<1>. DEFINE Inv == /\ DeskInv /\ Counted(def)
                   /\ Base(def, task) /\ Voting(def, task) /\ Standing
                   /\ Ballots(def, task, past)
<1>1. Init /\ Apart(def) /\ Counted(def) => Inv
  <2>1. Init => Voting(def, task) /\ Standing /\ Ballots(def, task, past)
    BY DEF Init, RowsInit, Voting, Standing, Ballots, Ids
  <2>2. QED
    BY <2>1, InitInv, BaseInit
<1>2. Inv /\ [Next]_vars => Inv'
  <2>1. SUFFICES ASSUME Inv, [Next]_vars PROVE Inv'
    OBVIOUS
  <2>2. DeskInv' /\ Changes
    BY <2>1, NextInv, NextChanges
  <2>3. def' = def /\ Base(def, task')
    BY <2>1, <2>2, BaseStep
  <2>4. Voting(def, task') /\ Standing' /\ Ballots(def, task', past')
    BY <2>1, <2>2, <2>3, VotingStep, StandingStep, BallotsStep
  <2>5. QED
    BY <2>1, <2>2, <2>3, <2>4
<1>3. Inv => ElectorateWhole
  BY WholeBallots
<1>4. QED
  BY <1>1, <1>2, <1>3, PTL DEF Spec
=============================================================================
