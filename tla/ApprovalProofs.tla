--------------------------- MODULE ApprovalProofs ---------------------------
(***************************************************************************)
(* What ApprovalNode guarantees for every set of approvers, every mode and *)
(* rule, and any number of drives, suspensions and crashes: first about    *)
(* tasks and who may answer them, then about how a node decides.  It       *)
(* leaves by the success edge only on the approvals it needs, it rejects   *)
(* only on a rejection, and the sub-tasks of a countersign or vote node    *)
(* and their parent are a Ballot, so that BallotProofs speaks of them.     *)
(***************************************************************************)
EXTENDS ApprovalNode, FiniteSetTheorems, SequenceTheorems, TLAPS

(* The rules, as in BallotProofs, whose variables are not these.           *)

Threshold == {"majority", "percent", "count"}

(* The number a threshold rule asks for is exactly where its outcome turns. *)
LEMMA RequiredIsThreshold ==
  ASSUME NEW r, ValidRule(r), r.type \in Threshold, NEW total \in Nat, NEW a \in Nat
  PROVE  /\ Required(r, total) \in Nat
         /\ a >= Required(r, total) <=> Outcome(r, total, a)
<1>1. CASE r.type = "majority"
  BY <1>1 DEF Required, Outcome
<1>2. CASE r.type = "percent"
  <2>1. PICK m \in Nat : m = total * r.value
    BY DEF ValidRule
  <2>2. Required(r, total) = AtLeastOne(Ceil(m))
    BY <1>2, <2>1 DEF Required
  <2>3. Outcome(r, total, a) <=> (a > 0 /\ 100 * a >= m)
    BY <1>2, <2>1 DEF Outcome
  <2>4. QED
    BY <2>2, <2>3 DEF AtLeastOne, Ceil
<1>3. CASE r.type = "count"
  BY <1>3 DEF Required, Outcome, AtLeastOne, ValidRule
<1>4. QED
  BY <1>1, <1>2, <1>3 DEF Threshold

(* More approvals never turn an approval into a rejection. *)
LEMMA OutcomeMonotone ==
  ASSUME NEW r, ValidRule(r), NEW total \in Nat, NEW a \in Nat, NEW b \in Nat,
         a <= b, b <= total, Outcome(r, total, a)
  PROVE  Outcome(r, total, b)
<1>1. CASE r.type = "percent"
  <2>1. PICK m \in Nat : m = total * r.value
    BY DEF ValidRule
  <2>2. QED
    BY <1>1, <2>1 DEF Outcome
<1>2. CASE r.type = "all"
  BY <1>2 DEF Outcome
<1>3. CASE r.type = "any"
  BY <1>3 DEF Outcome
<1>4. CASE r.type = "majority"
  BY <1>4 DEF Outcome
<1>5. CASE r.type = "count"
  BY <1>5 DEF Outcome, ValidRule
<1>6. QED
  BY <1>1, <1>2, <1>3, <1>4, <1>5 DEF ValidRule, RuleType

(* What checkCountersignSubTaskCompletion says after a vote, with y and n  *)
(* votes cast and l left, in terms of the outcomes still possible.         *)
LEMMA DecisionIsSound ==
  ASSUME NEW r, ValidRule(r), NEW y \in Nat, NEW n \in Nat, NEW l \in Nat,
         NEW t, t = y + n + l
  PROVE  /\ Decides(r, t, y + n, y) /\ Approves(r, t, y + n, y) => Outcome(r, t, y)
         /\ Decides(r, t, y + n, y) /\ ~Approves(r, t, y + n, y) => ~Outcome(r, t, y + l)
         /\ ~Decides(r, t, y + n, y) /\ (r.type = "all" => n = 0)
              => Outcome(r, t, y + l) /\ ~Outcome(r, t, y)
<1>1. t \in Nat /\ t - (y + n) = l
  OBVIOUS
<1>2. CASE r.type = "all"
  BY <1>1, <1>2 DEF Decides, Approves, Outcome
<1>3. CASE r.type = "any"
  BY <1>1, <1>3 DEF Decides, Approves, Outcome
<1>4. CASE r.type \in Threshold
  <2>1. PICK k \in Nat : k = Required(r, t)
    BY <1>1, <1>4, RequiredIsThreshold
  <2>2. (y >= k <=> Outcome(r, t, y)) /\ (y + l >= k <=> Outcome(r, t, y + l))
    BY <1>1, <1>4, <2>1, RequiredIsThreshold
  <2>3. Decides(r, t, y + n, y) <=> (y >= k \/ y + l < k)
    BY <1>1, <1>4, <2>1 DEF Decides, Threshold
  <2>4. Approves(r, t, y + n, y) <=> y >= k
    BY <1>1, <1>4, <2>1 DEF Approves, Threshold
  <2>5. QED
    BY <1>1, <2>1, <2>2, <2>3, <2>4
<1>5. QED
  BY <1>2, <1>3, <1>4 DEF ValidRule, RuleType, Threshold

-----------------------------------------------------------------------------
(* Lemmas about rows. *)

LEMMA MappedRows ==
  ASSUME NEW rs \in Seq(Row), NEW from, NEW to \in RowStatus
  PROVE  /\ Mapped(rs, from, to) \in Seq(Row)
         /\ Len(Mapped(rs, from, to)) = Len(rs)
         /\ DOMAIN Mapped(rs, from, to) = DOMAIN rs
         /\ \A i \in DOMAIN rs :
              /\ rs[i].status \notin from => Mapped(rs, from, to)[i] = rs[i]
              /\ rs[i].status \in from =>
                   Mapped(rs, from, to)[i] =
                     [who |-> rs[i].who, status |-> to, vote |-> rs[i].vote]
<1>1. rs \in [1..Len(rs) -> Row] /\ Len(rs) \in Nat /\ DOMAIN rs = 1..Len(rs)
  OBVIOUS
<1>2. Mapped(rs, from, to) \in [1..Len(rs) -> Row]
  BY <1>1 DEF Mapped, Row
<1>3. Mapped(rs, from, to) \in Seq(Row)
  BY <1>1, <1>2, SeqDef
<1>4. \A i \in DOMAIN rs :
        /\ rs[i].status \notin from => Mapped(rs, from, to)[i] = rs[i]
        /\ rs[i].status \in from =>
             Mapped(rs, from, to)[i] = [who |-> rs[i].who, status |-> to, vote |-> rs[i].vote]
  BY <1>1 DEF Mapped, Row
<1>5. QED
  BY <1>1, <1>2, <1>3, <1>4 DEF Mapped

LEMMA StatusRows ==
  ASSUME NEW rs \in Seq(Row), NEW i \in DOMAIN rs, NEW s \in RowStatus
  PROVE  /\ Set(rs, i, s) \in Seq(Row)
         /\ Len(Set(rs, i, s)) = Len(rs)
         /\ DOMAIN Set(rs, i, s) = DOMAIN rs
         /\ Set(rs, i, s)[i] = [who |-> rs[i].who, status |-> s, vote |-> rs[i].vote]
         /\ \A j \in DOMAIN rs \ {i} : Set(rs, i, s)[j] = rs[j]
<1> DEFINE set == [rs EXCEPT ![i].status = s]
<1>1. rs \in [1..Len(rs) -> Row] /\ Len(rs) \in Nat /\ DOMAIN rs = 1..Len(rs)
  OBVIOUS
<1>2. /\ DOMAIN set = 1..Len(rs)
      /\ set[i] = [who |-> rs[i].who, status |-> s, vote |-> rs[i].vote]
      /\ \A j \in 1..Len(rs) \ {i} : set[j] = rs[j]
  BY <1>1 DEF Row
<1>3. \A j \in 1..Len(rs) : set[j] \in Row
  BY <1>1, <1>2 DEF Row
<1>4. set \in [1..Len(rs) -> Row]
  BY <1>1, <1>3
<1>5. set \in Seq(Row) /\ Len(set) = Len(rs)
  BY <1>1, <1>2, <1>4, SeqDef
<1>6. QED
  BY <1>1, <1>2, <1>5 DEF Set

LEMMA CastRows ==
  ASSUME NEW rs \in Seq(Row), NEW i \in DOMAIN rs, NEW v \in Vote
  PROVE  /\ Voted(rs, i, v) \in Seq(Row)
         /\ Len(Voted(rs, i, v)) = Len(rs)
         /\ DOMAIN Voted(rs, i, v) = DOMAIN rs
         /\ Voted(rs, i, v)[i] = [who |-> rs[i].who, status |-> "completed", vote |-> v]
         /\ \A j \in DOMAIN rs \ {i} : Voted(rs, i, v)[j] = rs[j]
<1> DEFINE cast == [rs EXCEPT ![i].status = "completed", ![i].vote = v]
<1>1. rs \in [1..Len(rs) -> Row] /\ Len(rs) \in Nat /\ DOMAIN rs = 1..Len(rs)
  OBVIOUS
<1> DEFINE set == [rs EXCEPT ![i].status = "completed"]
<1>2. /\ DOMAIN set = 1..Len(rs)
      /\ set[i] = [who |-> rs[i].who, status |-> "completed", vote |-> rs[i].vote]
      /\ \A j \in 1..Len(rs) \ {i} : set[j] = rs[j]
  BY <1>1 DEF Row
<1>3. cast = [set EXCEPT ![i].vote = v]
  OBVIOUS
<1> HIDE DEF set
<1>4. /\ cast = [j \in 1..Len(rs) |-> cast[j]]
      /\ cast[i] = [who |-> rs[i].who, status |-> "completed", vote |-> v]
      /\ \A j \in 1..Len(rs) \ {i} : cast[j] = rs[j]
  BY <1>1, <1>2, <1>3, ZenonT(60)
<1> HIDE DEF cast
<1>5. \A j \in 1..Len(rs) : cast[j] \in Row
  BY <1>1, <1>4 DEF Row, RowStatus
<1>6. cast \in [1..Len(rs) -> Row]
  BY <1>4, <1>5
<1>7. cast \in Seq(Row) /\ Len(cast) = Len(rs)
  BY <1>1, <1>6, SeqDef
<1>8. QED
  BY <1>1, <1>4, <1>7 DEF cast, Voted

LEMMA NewRows ==
  ASSUME NEW rs \in Seq(Row), NEW a \in Approver, NEW s \in RowStatus
  PROVE  LET more == Append(rs, NewRow(a, s))
         IN  /\ more \in Seq(Row)
             /\ Len(more) = Len(rs) + 1
             /\ more[Len(rs) + 1] = NewRow(a, s)
             /\ \A j \in DOMAIN rs : j \in DOMAIN more /\ more[j] = rs[j]
             /\ \A j \in DOMAIN more : j \in DOMAIN rs \/ j = Len(rs) + 1
             /\ DOMAIN more = 1..(Len(rs) + 1)
BY DEF Row, NewRow, Vote

LEMMA AllRows ==
  ASSUME NEW s \in RowStatus
  PROVE  LET all == [i \in 1..Len(Order) |-> NewRow(Order[i], s)]
         IN  /\ all \in Seq(Row)
             /\ Len(all) = Len(Order)
             /\ DOMAIN all = 1..Len(Order)
<1>1. Len(Order) \in Nat /\ \A i \in 1..Len(Order) : NewRow(Order[i], s) \in Row
  BY OrderAssumption DEF Row, NewRow, Vote
<1>2. [i \in 1..Len(Order) |-> NewRow(Order[i], s)] \in [1..Len(Order) -> Row]
  BY <1>1
<1>3. QED
  BY <1>1, <1>2, SeqDef

(* How many rows there are of a kind is a natural number. *)
LEMMA CompletedCount ==
  ASSUME NEW rs \in Seq(Row)
  PROVE  Count(rs, IsCompleted) \in Nat
<1>1. IsFiniteSet(DOMAIN rs)
  BY FS_Interval
<1>2. QED
  BY <1>1, FS_Subset, FS_CardinalityType DEF Count

-----------------------------------------------------------------------------
(* Type correctness.  An index into Order is safe because only one drive   *)
(* is inside the gate and what it counted cannot have shrunk.              *)

Occupant == \A p, q \in Caller : pc[p] \in InGate /\ pc[q] \in InGate => p = q
Creating == \A p \in Caller :
              pc[p] = "create" /\ Live =>
                IF mode = "any" THEN Len(rows) < Len(Order) ELSE rows = <<>>
Appending == \A p \in Caller :
               /\ pc[p] \in {"advance", "append"} => mode = "sequential"
               /\ pc[p] = "append" => Count(seen.rows, IsCompleted) < Len(Order)
TInv == TypeOK /\ Occupant /\ Creating /\ Appending

LEMMA InitTInv == Init => TInv
<1> SUFFICES ASSUME Init PROVE TInv
  OBVIOUS
<1>1. ValidRule(rule)
  BY RulesAssumption DEF Init, ValidRule, RuleType
<1>2. Nothing \in [rows : Seq(Row), main : MainRow]
  BY DEF Nothing, NoMain, MainRow, MainStatus, Vote
<1>3. TypeOK
  <2>1. pc \in [Caller -> {"idle", "drive"} \cup InGate]
    BY DEF Init, InGate
  <2>2. rows \in Seq(Row) /\ main \in MainRow /\ mode \in ModeType
    BY ModeAssumption DEF Init, MainRow, NoMain, MainStatus, Vote
  <2>3. /\ seen \in [rows : Seq(Row), main : MainRow]
        /\ inst = "active" /\ next = "none" /\ rejected = FALSE /\ passes = 0
        /\ taskSuspends = 0 /\ instSuspends = 0 /\ crashes = 0
    BY <1>2 DEF Init
  <2>4. 0 \in 0..MaxTaskSuspends /\ 0 \in 0..MaxInstSuspends
        /\ 0 \in 0..MaxCrashes /\ 0 \in 0..MaxPasses
    BY BoundsAssumption
  <2>5. QED
    BY <1>1, <2>1, <2>2, <2>3, <2>4, Zenon DEF TypeOK
<1>4. Occupant /\ Creating /\ Appending
  BY DEF Init, Occupant, Creating, Appending, InGate
<1>5. QED
  BY <1>3, <1>4 DEF TInv

LEMMA NothingType == Nothing \in [rows : Seq(Row), main : MainRow]
BY DEF Nothing, NoMain, MainRow, MainStatus, Vote

(* What Archive leaves behind. *)
LEMMA ArchiveRows ==
  ASSUME TypeOK, NEW status, Archive(status)
  PROVE  /\ rows' \in Seq(Row) /\ Len(rows') = Len(rows) /\ DOMAIN rows' = DOMAIN rows
         /\ \A i \in DOMAIN rows :
              /\ rows[i].status \notin OpenStatus => rows'[i] = rows[i]
              /\ rows[i].status \in OpenStatus =>
                   rows'[i] = [who |-> rows[i].who, status |-> "terminated",
                               vote |-> rows[i].vote]
         /\ main' \in MainRow
<1>1. "terminated" \in RowStatus /\ rows \in Seq(Row)
  BY DEF RowStatus, TypeOK
<1>2. main' \in MainRow
  BY DEF Archive, TypeOK, MainRow, MainStatus, RowStatus
<1>3. rows' = Mapped(rows, OpenStatus, "terminated")
  BY DEF Archive
<1>4. QED
  BY <1>1, <1>2, <1>3, MappedRows

LEMMA CancelledRows ==
  ASSUME NEW rs \in Seq(Row)
  PROVE  /\ CancelActive(rs) \in Seq(Row)
         /\ Len(CancelActive(rs)) = Len(rs)
         /\ DOMAIN CancelActive(rs) = DOMAIN rs
         /\ \A i \in DOMAIN rs :
              /\ rs[i].status # "active" => CancelActive(rs)[i] = rs[i]
              /\ rs[i].status = "active" =>
                   CancelActive(rs)[i] =
                     [who |-> rs[i].who, status |-> "terminated", vote |-> rs[i].vote]
<1>1. "terminated" \in RowStatus
  BY DEF RowStatus
<1>2. QED
  BY <1>1, MappedRows DEF CancelActive

(* An answer, with the cancellation it may cause. *)
LEMMA CompleteTaskTInv ==
  ASSUME TInv, NEW p \in Caller, NEW i \in DOMAIN rows,
         NEW vote \in {"approved", "rejected"}, CompleteTask(p, i, vote)
  PROVE  TInv'
<1> USE DEF TInv
<1>1. rows' \in Seq(Row) /\ Len(rows') = Len(rows)
  <2>1. /\ rows \in Seq(Row) /\ vote \in Vote
        /\ rows' = Answered(i, vote)
    BY DEF CompleteTask, TypeOK, Vote
  <2>2. QED
    BY <2>1, CastRows, CancelledRows DEF Answered
<1>2. TypeOK'
  BY <1>1 DEF CompleteTask, TypeOK, Goto, counters
<1>3. Occupant' /\ Appending'
  BY DEF CompleteTask, TypeOK, Goto, Occupant, Appending, InGate
<1>4. Creating'
  BY <1>1 DEF CompleteTask, TypeOK, Goto, Creating, Live
<1>5. QED
  BY <1>2, <1>3, <1>4

LEMMA CompleteSubTaskTInv ==
  ASSUME TInv, NEW p \in Caller, NEW i \in DOMAIN rows,
         NEW vote \in {"approved", "rejected"}, CompleteSubTask(p, i, vote)
  PROVE  TInv'
<1> USE DEF TInv
<1>1. rows' \in Seq(Row) /\ Len(rows') = Len(rows)
  <2>1. rows \in Seq(Row) /\ vote \in Vote
    BY DEF TypeOK, Vote
  <2>2. \/ rows' = CancelActive(Voted(rows, i, vote))
        \/ rows' = Voted(rows, i, vote)
    BY DEF CompleteSubTask
  <2>3. Voted(rows, i, vote) \in Seq(Row) /\ Len(Voted(rows, i, vote)) = Len(rows)
    BY <2>1, CastRows
  <2>4. QED
    BY <2>2, <2>3, CancelledRows
<1>2. main' \in MainRow
  BY DEF CompleteSubTask, TypeOK, MainRow, MainStatus, RowStatus, Vote, ClosingVote
<1>3. TypeOK'
  BY <1>1, <1>2 DEF CompleteSubTask, TypeOK, Goto, counters
<1>4. Occupant' /\ Appending'
  BY DEF CompleteSubTask, TypeOK, Goto, Occupant, Appending, InGate
<1>5. Creating'
  BY <1>1 DEF CompleteSubTask, TypeOK, Goto, Creating, Live
<1>6. QED
  BY <1>3, <1>4, <1>5

(* The drive, up to the point where it has read the node's tasks. *)
LEMMA ReadTInv ==
  ASSUME TInv, NEW p \in Caller,
         \/ ExecuteNext(p)
         \/ GetExistingTasks(p)
         \/ ReDrive(p)
         \/ Restore(p)
         \/ CreateRefused(p)
         \/ Judge(p)
  PROVE  TInv'
<1> USE DEF TInv
<1> DEFINE Moves ==
      /\ pc' \in [Caller -> {"idle", "drive"} \cup InGate]
      /\ \A q \in Caller \ {p} : pc'[q] = pc[q]
      /\ pc[p] \in InGate \/ GateFree \/ pc'[p] \notin InGate
      /\ pc'[p] = "create" /\ Live =>
           IF mode = "any" THEN Len(rows) < Len(Order) ELSE rows = <<>>
      /\ pc'[p] = "advance" => mode = "sequential"
      /\ pc'[p] # "append"
<1>1. Moves
  <2>1. ASSUME ExecuteNext(p) PROVE Moves
    BY <2>1 DEF ExecuteNext, Goto, TypeOK, InGate
  <2>2. ASSUME GetExistingTasks(p) PROVE Moves
    BY <2>2, OrderAssumption DEF GetExistingTasks, NoTasks, Goto, TypeOK, InGate
  <2>3. ASSUME ReDrive(p) PROVE Moves
    BY <2>3 DEF ReDrive, Goto, TypeOK, InGate
  <2>4. ASSUME Restore(p) PROVE Moves
    BY <2>4 DEF Restore, Goto, TypeOK, InGate
  <2>5. ASSUME CreateRefused(p) PROVE Moves
    BY <2>5 DEF CreateRefused, Goto, TypeOK, InGate
  <2>6. ASSUME Judge(p) PROVE Moves
    BY <2>6 DEF Judge, Judgement, Goto, TypeOK, InGate
  <2>7. QED
    BY <2>1, <2>2, <2>3, <2>4, <2>5, <2>6
<1>2. /\ UNCHANGED <<mode, rule, inst, rows, main, next, passes, rejected, counters>>
      /\ seen' \in {seen, Nothing, [rows |-> rows, main |-> main]}
      /\ pc[p] \in InGate \/ UNCHANGED seen
  BY DEF ExecuteNext, GetExistingTasks, ReDrive, Restore, CreateRefused, Judge, InGate
<1>3. seen' \in [rows : Seq(Row), main : MainRow]
  BY <1>2, NothingType DEF TypeOK
<1>4. TypeOK'
  BY <1>1, <1>2, <1>3 DEF TypeOK, counters
<1>5. Occupant'
  BY <1>1 DEF Occupant, GateFree
<1>6. Creating'
  BY <1>1, <1>2 DEF Creating, Live
<1>7. Appending'
  BY <1>1, <1>2 DEF Appending, Occupant, InGate
<1>8. QED
  BY <1>4, <1>5, <1>6, <1>7

(* The drive creates tasks. *)
LEMMA CreateTInv ==
  ASSUME TInv, NEW p \in Caller,
         \/ CreateFirst(p)
         \/ CreateCandidate(p)
         \/ CreateMain(p)
         \/ CreateSubTasks(p)
         \/ AppendTask(p)
  PROVE  TInv'
<1> USE DEF TInv
<1>1. NewStatus \in RowStatus /\ NewStatus \in MainStatus /\ "active" \in RowStatus
  BY DEF NewStatus, RowStatus, MainStatus
<1>2. ASSUME NEW k \in 1..Len(Order) PROVE Order[k] \in Approver
  BY OrderAssumption
<1>3. 1 \in 1..Len(Order)
  BY OrderAssumption
<1>4. /\ pc[p] \in InGate
      /\ UNCHANGED <<mode, rule, inst, next, passes, rejected, counters>>
      /\ seen' \in {seen, Nothing}
  BY DEF CreateFirst, CreateCandidate, CreateMain, CreateSubTasks, AppendTask, InGate
<1> DEFINE Made == /\ rows' \in Seq(Row)
                   /\ main' \in MainRow
                   /\ pc' \in [Caller -> {"idle", "drive"} \cup InGate]
                   /\ \A q \in Caller \ {p} : pc'[q] = pc[q]
                   /\ \/ pc'[p] = "idle"
                      \/ pc'[p] = "create" /\ (Live => IF mode = "any"
                                                       THEN Len(rows') < Len(Order)
                                                       ELSE rows' = <<>>)
<1>5. Made
  <2>1. CASE CreateFirst(p)
    BY <2>1, <1>1, <1>2, <1>3, NewRows DEF CreateFirst, Goto, TypeOK
  <2>2. CASE CreateCandidate(p)
    <3>1. /\ rows \in Seq(Row) /\ Len(rows) \in Nat /\ Len(Order) \in Nat
          /\ Len(rows) < Len(Order)
      BY <2>2, OrderAssumption, SMTT(40) DEF CreateCandidate, Creating, Accepts, TypeOK
    <3>2. /\ rows' = Append(rows, NewRow(Order[Len(rows) + 1], NewStatus))
          /\ Order[Len(rows) + 1] \in Approver
      BY <2>2, <3>1, <1>2 DEF CreateCandidate
    <3>3. rows' \in Seq(Row) /\ Len(rows') = Len(rows) + 1
      BY <1>1, <3>1, <3>2, NewRows
    <3>4. QED
      BY <2>2, <3>1, <3>3 DEF CreateCandidate, Goto, TypeOK, InGate
  <2>3. CASE CreateMain(p)
    BY <2>3, <1>1 DEF CreateMain, TypeOK, MainRow, Vote, Creating, ByVotes
  <2>4. CASE CreateSubTasks(p)
    BY <2>4, <1>1, AllRows DEF CreateSubTasks, Goto, TypeOK
  <2>5. CASE AppendTask(p)
    <3>1. /\ seen.rows \in Seq(Row) /\ rows \in Seq(Row)
          /\ Count(seen.rows, IsCompleted) < Len(Order)
      BY <2>5 DEF AppendTask, TypeOK, Appending
    <3>2. NextApprover \in Approver
      BY <3>1, <1>2, CompletedCount, OrderAssumption, SMTT(40) DEF NextApprover
    <3>3. rows' \in Seq(Row)
      BY <2>5, <3>1, <3>2, <1>1, NewRows DEF AppendTask
    <3>4. QED
      BY <2>5, <3>3 DEF AppendTask, Goto, TypeOK
  <2>6. QED
    BY <2>1, <2>2, <2>3, <2>4, <2>5
<1>6. TypeOK'
  BY <1>4, <1>5, NothingType DEF TypeOK, counters
<1>7. Occupant' /\ Appending'
  BY <1>4, <1>5 DEF Occupant, Appending, InGate
<1>8. Creating'
  BY <1>4, <1>5 DEF Creating, Occupant, InGate, Live
<1>9. QED
  BY <1>6, <1>7, <1>8

(* The sequence moves on. *)
LEMMA AdvanceTInv ==
  ASSUME TInv, NEW p \in Caller, Advance(p)
  PROVE  TInv'
<1> USE DEF TInv
<1> DEFINE now == IF Live THEN rows ELSE <<>>
<1>1. now \in Seq(Row)
  BY DEF TypeOK
<1>2. \/ /\ Count(now, IsCompleted) < Len(Order)
         /\ pc' = [pc EXCEPT ![p] = "append"]
         /\ seen' = [Nothing EXCEPT !.rows = now]
      \/ /\ pc' = [pc EXCEPT ![p] = "idle"]
         /\ UNCHANGED seen
  BY DEF Advance, Advances, Goto
<1>3. seen' \in [rows : Seq(Row), main : MainRow] /\ (seen' # seen => seen'.rows = now)
  BY <1>1, <1>2, NothingType DEF TypeOK
<1>4. /\ pc[p] \in InGate
      /\ UNCHANGED <<mode, rule, inst, rows, main, next, passes, rejected, counters>>
  BY DEF Advance, InGate
<1>5. TypeOK'
  BY <1>2, <1>3, <1>4 DEF TypeOK, counters, InGate
<1>6. Occupant' /\ Creating'
  BY <1>2, <1>4 DEF Occupant, Creating, Live, TypeOK, InGate
<1>7. Appending'
  <2>1. CASE pc' = [pc EXCEPT ![p] = "idle"] /\ UNCHANGED seen
    BY <1>4, <2>1 DEF Appending, TypeOK
  <2>2. CASE pc' = [pc EXCEPT ![p] = "append"] /\ Count(now, IsCompleted) < Len(Order)
             /\ seen' = [Nothing EXCEPT !.rows = now]
    <3>1. seen'.rows = now
      BY <2>2, NothingType
    <3>2. Count(seen'.rows, IsCompleted) < Len(Order)
      BY <2>2, <3>1
    <3>3. mode = "sequential"
      BY DEF Advance, Appending
    <3>4. \A q \in Caller \ {p} : pc'[q] \notin InGate
      BY <1>4, <2>2 DEF Occupant, TypeOK
    <3>5. QED
      BY <1>4, <3>2, <3>3, <3>4 DEF Appending, InGate
  <2>3. QED
    BY <1>2, <2>1, <2>2
<1>8. QED
  BY <1>5, <1>6, <1>7

(* The drive leaves the node. *)
LEMMA LeaveTInv ==
  ASSUME TInv, NEW p \in Caller, TellSuccess(p) \/ EndInstance(p)
  PROVE  TInv'
<1> USE DEF TInv
<1>1. /\ pc[p] \in InGate
      /\ pc' = [pc EXCEPT ![p] = "idle"]
      /\ UNCHANGED <<mode, rule, seen, counters>>
  BY DEF TellSuccess, EndInstance, Goto, InGate
<1>2. /\ rows' \in Seq(Row) /\ Len(rows') = Len(rows)
      /\ main' \in MainRow
      /\ inst' \in {"active", "suspended", "terminated", "completed"}
      /\ next' \in {"none", "active", "suspended", "terminated", "completed"}
      /\ passes' \in 0..MaxPasses
  <2>1. CASE TellSuccess(p)
    BY <2>1, BoundsAssumption DEF TellSuccess, TypeOK, NewStatus
  <2>2. CASE EndInstance(p)
    BY <2>2, ArchiveRows DEF EndInstance, TypeOK, Archive
  <2>3. QED
    BY <2>1, <2>2
<1>3. rejected' \in BOOLEAN
  BY DEF TellSuccess, EndInstance, TypeOK
<1>4. TypeOK'
  BY <1>1, <1>2, <1>3 DEF TypeOK, counters
<1>5. Occupant' /\ Appending'
  BY <1>1 DEF Occupant, Appending, InGate, TypeOK
<1>6. Creating'
  BY <1>1 DEF Creating, Occupant, InGate, TypeOK
<1>7. QED
  BY <1>4, <1>5, <1>6

(* The rest of the service touches no drive. *)
LEMMA ManageTInv ==
  ASSUME TInv, Manage
  PROVE  TInv'
<1> USE DEF TInv
<1> DEFINE Kept == /\ rows' \in Seq(Row) /\ Len(rows') = Len(rows)
                   /\ main' \in MainRow
                   /\ inst' \in {"active", "suspended", "terminated", "completed"}
                   /\ next' \in {"none", "active", "suspended", "terminated", "completed"}
                   /\ taskSuspends' \in 0..MaxTaskSuspends
                   /\ instSuspends' \in 0..MaxInstSuspends
                   /\ Live' => Live
                   /\ UNCHANGED <<mode, rule, passes, rejected, pc, seen, crashes>>
<1>1. "active" \in RowStatus /\ "suspended" \in RowStatus /\ rows \in Seq(Row)
  BY DEF RowStatus, TypeOK
<1>2. CASE FinishNext
  <2>1. Kept
    BY <1>2, ArchiveRows DEF FinishNext, Archive, TypeOK, Live, counters
  <2>2. QED
    BY <2>1 DEF TypeOK, Occupant, Appending, Creating
<1>3. CASE TerminateProcessInstance
  <2>1. Kept
    BY <1>3, ArchiveRows DEF TerminateProcessInstance, Archive, TypeOK, Live, counters
  <2>2. QED
    BY <2>1 DEF TypeOK, Occupant, Appending, Creating
<1>4. ASSUME NEW i \in DOMAIN rows, SuspendTask(i) PROVE TInv'
  <2>1. Kept
    <3>1. rows' \in Seq(Row) /\ Len(rows') = Len(rows)
      BY <1>1, <1>4, StatusRows DEF SuspendTask
    <3>2. QED
      BY <1>4, <3>1, BoundsAssumption DEF SuspendTask, TypeOK, Live
  <2>2. QED
    BY <2>1 DEF TypeOK, Occupant, Appending, Creating
<1>5. ASSUME NEW i \in DOMAIN rows, ActivateTask(i) PROVE TInv'
  <2>1. Kept
    BY <1>1, <1>5, StatusRows, ZenonT(60) DEF ActivateTask, TypeOK, Live, counters
  <2>2. QED
    BY <2>1 DEF TypeOK, Occupant, Appending, Creating
<1>6. CASE SuspendProcessInstance
  <2>1. Kept
    <3>1. rows' \in Seq(Row) /\ Len(rows') = Len(rows)
      BY <1>1, <1>6, MappedRows DEF SuspendProcessInstance, TypeOK
    <3>2. main' \in MainRow
      BY <1>6 DEF SuspendProcessInstance, TypeOK, MainRow, MainStatus, RowStatus
    <3>3. QED
      BY <1>6, <3>1, <3>2, BoundsAssumption DEF SuspendProcessInstance, TypeOK, Live
  <2>2. QED
    BY <2>1 DEF TypeOK, Occupant, Appending, Creating
<1>7. CASE ActivateProcessInstance
  <2>1. Kept
    <3>1. rows' \in Seq(Row) /\ Len(rows') = Len(rows)
      BY <1>1, <1>7, MappedRows DEF ActivateProcessInstance, TypeOK
    <3>2. main' \in MainRow
      BY <1>7 DEF ActivateProcessInstance, TypeOK, MainRow, MainStatus, RowStatus
    <3>3. QED
      BY <1>7, <3>1, <3>2 DEF ActivateProcessInstance, TypeOK, Live, counters
  <2>2. QED
    BY <2>1 DEF TypeOK, Occupant, Appending, Creating
<1>8. QED
  BY <1>2, <1>3, <1>4, <1>5, <1>6, <1>7 DEF Manage

LEMMA CrashTInv == TInv /\ Crash => TInv'
<1> SUFFICES ASSUME TInv, Crash PROVE TInv'
  OBVIOUS
<1>1. TypeOK'
  BY NothingType, BoundsAssumption DEF Crash, TInv, TypeOK, InGate
<1>2. QED
  BY <1>1 DEF Crash, TInv, Occupant, Creating, Appending, InGate

LEMMA NextTInv == TInv /\ [Next]_vars => TInv'
<1> SUFFICES ASSUME TInv, [Next]_vars PROVE TInv'
  OBVIOUS
<1>1. ASSUME NEW p \in Caller, Drive(p) PROVE TInv'
  BY <1>1, ReadTInv, CreateTInv, AdvanceTInv, LeaveTInv DEF Drive
<1>2. ASSUME NEW p \in Caller, Answer(p) PROVE TInv'
  BY <1>2, CompleteTaskTInv, CompleteSubTaskTInv DEF Answer
<1>3. ASSUME NEW p \in Caller, ReDrive(p) \/ Restore(p) PROVE TInv'
  BY <1>3, ReadTInv
<1>4. CASE UNCHANGED vars
  BY <1>4 DEF vars, counters, TInv, TypeOK, Occupant, Creating, Appending, Live
<1>5. QED
  BY <1>1, <1>2, <1>3, <1>4, ManageTInv, CrashTInv DEF Next

LEMMA SpecTInv == Spec => []TInv
BY InitTInv, NextTInv, PTL DEF Spec

(* The variables keep their types; an approver is never looked up beyond   *)
(* the end of the order (NextApprover, CreateCandidate).                   *)
THEOREM Types == Spec => []TypeOK
<1>1. TInv => TypeOK
  BY DEF TInv
<1>2. QED
  BY <1>1, SpecTInv, PTL

-----------------------------------------------------------------------------
(* What a step may do to the rows.  The parent is terminated only with the *)
(* instance, so no vote meets a terminated parent.                         *)

MainEnds == main.status = "terminated" => ~Live

RowsKept == /\ Len(rows) <= Len(rows')
            /\ \A i \in DOMAIN rows :
                 /\ i \in DOMAIN rows'
                 /\ rows'[i].who = rows[i].who
                 /\ Final(rows[i].status) => rows'[i] = rows[i]
MainKept == Final(main.status) => main' = main
NewTurns ==
  \A i \in DOMAIN rows' \ DOMAIN rows :
    IF mode = "sequential"
    THEN \/ rows'[i].who = Order[1]
         \/ /\ Count(seen.rows, IsCompleted) < Len(Order)
            /\ rows'[i].who = NextApprover
    ELSE /\ i \in 1..Len(Order) /\ rows'[i].who = Order[i]
         /\ mode = "single" => i = 1
Kept == RowsKept /\ MainKept /\ NewTurns

LEMMA SameRows == ASSUME rows' = rows, main' = main, rows \in Seq(Row) PROVE Kept
BY DEF Kept, RowsKept, MainKept, NewTurns

(* A step that changes some rows in place. *)
LEMMA SameLength ==
  ASSUME rows \in Seq(Row), rows' \in Seq(Row), Len(rows') = Len(rows),
         \A i \in DOMAIN rows : /\ rows'[i].who = rows[i].who
                                /\ Final(rows[i].status) => rows'[i] = rows[i]
  PROVE  RowsKept /\ NewTurns
BY DEF RowsKept, NewTurns

LEMMA ArchiveKeeps ==
  ASSUME TypeOK, NEW status, Archive(status)
  PROVE  Kept
<1>1. /\ rows \in Seq(Row) /\ rows' \in Seq(Row) /\ Len(rows') = Len(rows)
      /\ \A i \in DOMAIN rows :
           /\ rows[i].status \notin OpenStatus => rows'[i] = rows[i]
           /\ rows[i].status \in OpenStatus =>
                rows'[i] = [who |-> rows[i].who, status |-> "terminated", vote |-> rows[i].vote]
  BY ArchiveRows DEF TypeOK
<1>2. ASSUME NEW i \in DOMAIN rows
      PROVE  /\ rows'[i].who = rows[i].who
             /\ Final(rows[i].status) => rows'[i] = rows[i]
  <2>1. CASE rows[i].status \in OpenStatus
    <3>1. rows'[i] = [who |-> rows[i].who, status |-> "terminated", vote |-> rows[i].vote]
      BY <1>1, <2>1
    <3>2. ~Final(rows[i].status)
      BY <2>1 DEF OpenStatus, Final
    <3>3. QED
      BY <3>1, <3>2
  <2>2. CASE rows[i].status \notin OpenStatus
    <3>1. rows'[i] = rows[i]
      BY <1>1, <2>2
    <3>2. QED
      BY <3>1
  <2>3. QED
    BY <2>1, <2>2
<1>3. MainKept
  BY DEF Archive, MainKept, Final, OpenStatus
<1>4. QED
  BY <1>1, <1>2, <1>3, SameLength DEF Kept

LEMMA AnswerKeeps ==
  ASSUME TInv, MainEnds, NEW p \in Caller, NEW i \in DOMAIN rows,
         NEW vote \in {"approved", "rejected"},
         CompleteTask(p, i, vote) \/ CompleteSubTask(p, i, vote)
  PROVE  Kept
<1>1. /\ rows \in Seq(Row) /\ vote \in Vote
      /\ \A j \in DOMAIN rows : rows[j] \in Row
  BY DEF TInv, TypeOK, Vote
<1>2. rows[i].status = "active" /\ Live
  BY DEF CompleteTask, CompleteSubTask, Completable, Live
<1>3. rows' = Voted(rows, i, vote) \/ rows' = CancelActive(Voted(rows, i, vote))
  BY DEF CompleteTask, CompleteSubTask, Answered
<1> DEFINE cast == Voted(rows, i, vote)
<1>4. /\ cast \in Seq(Row) /\ Len(cast) = Len(rows) /\ DOMAIN cast = DOMAIN rows
      /\ cast[i] = [who |-> rows[i].who, status |-> "completed", vote |-> vote]
      /\ \A j \in DOMAIN rows \ {i} : cast[j] = rows[j]
  BY <1>1, CastRows
<1> HIDE DEF cast
<1>5. /\ rows' \in Seq(Row) /\ Len(rows') = Len(rows)
      /\ \A j \in DOMAIN rows : /\ rows'[j].who = rows[j].who
                                /\ Final(rows[j].status) => rows'[j] = rows[j]
  <2>1. CASE rows' = cast
    BY <1>1, <1>2, <1>4, <2>1 DEF Final
  <2>2. CASE rows' = CancelActive(cast)
    <3>1. /\ rows' \in Seq(Row) /\ Len(rows') = Len(rows)
          /\ \A j \in DOMAIN rows :
               /\ cast[j].status # "active" => rows'[j] = cast[j]
               /\ cast[j].status = "active" =>
                    rows'[j] = [who |-> cast[j].who, status |-> "terminated",
                                vote |-> cast[j].vote]
      BY <1>4, <2>2, CancelledRows
    <3>2. rows'[i] = cast[i]
      <4>1. cast[i].status = "completed"
        BY <1>4
      <4>2. QED
        BY <3>1, <4>1
    <3>3. ASSUME NEW j \in DOMAIN rows, j # i
          PROVE  /\ rows'[j].who = rows[j].who
                 /\ Final(rows[j].status) => rows'[j] = rows[j]
      <4>1. cast[j] = rows[j]
        BY <1>4, <3>3
      <4>2. CASE rows[j].status = "active"
        <5>1. rows'[j] = [who |-> rows[j].who, status |-> "terminated", vote |-> rows[j].vote]
          BY <3>1, <4>1, <4>2
        <5>2. ~Final(rows[j].status)
          BY <4>2 DEF Final
        <5>3. QED
          BY <5>1, <5>2
      <4>3. CASE rows[j].status # "active"
        BY <3>1, <3>3, <4>1, <4>3
      <4>4. QED
        BY <4>2, <4>3
    <3>4. QED
      BY <1>1, <1>2, <1>4, <3>1, <3>2, <3>3 DEF Final
  <2>3. QED
    BY <1>3, <2>1, <2>2 DEF cast
<1>6. MainKept
  <2>1. CASE CompleteTask(p, i, vote)
    BY <2>1 DEF CompleteTask, MainKept
  <2>2. CASE CompleteSubTask(p, i, vote)
    BY <1>2, <2>2 DEF CompleteSubTask, Closes, MainOpen, MainKept, MainEnds, Final
  <2>3. QED
    BY <2>1, <2>2
<1>7. QED
  BY <1>1, <1>5, <1>6, SameLength DEF Kept

LEMMA DriveKeeps ==
  ASSUME TInv, MainEnds, NEW p \in Caller, Drive(p) \/ ReDrive(p) \/ Restore(p)
  PROVE  Kept
<1>1. rows \in Seq(Row) /\ Len(Order) \in Nat /\ Len(Order) > 0
  BY OrderAssumption DEF TInv, TypeOK
<1>2. \A k \in 1..Len(Order) : Order[k] \in Approver
  BY OrderAssumption
<1>3. NewStatus \in RowStatus /\ "active" \in RowStatus
  BY DEF NewStatus, RowStatus
<1>4. ASSUME UNCHANGED <<rows, main>> PROVE Kept
  BY <1>1, <1>4, SameRows
<1>5. CASE ExecuteNext(p) \/ GetExistingTasks(p) \/ CreateRefused(p) \/ Judge(p)
           \/ Advance(p) \/ TellSuccess(p) \/ ReDrive(p) \/ Restore(p)
  BY <1>4, <1>5 DEF ExecuteNext, GetExistingTasks, CreateRefused, Judge, Advance,
                    TellSuccess, ReDrive, Restore
<1>6. CASE CreateFirst(p)
  <2>1. /\ rows = <<>> /\ main' = main
        /\ rows' = Append(rows, NewRow(Order[1], NewStatus))
    BY <1>6 DEF CreateFirst, TInv, Creating, Accepts
  <2>2. rows' = <<NewRow(Order[1], NewStatus)>>
    BY <2>1
  <2>3. QED
    BY <1>1, <2>1, <2>2 DEF Kept, RowsKept, MainKept, NewTurns, NewRow
<1>7. CASE CreateCandidate(p)
  <2>1. /\ Len(rows) < Len(Order) /\ main' = main /\ mode = "any"
        /\ rows' = Append(rows, NewRow(Order[Len(rows) + 1], NewStatus))
    BY <1>7 DEF CreateCandidate, TInv, Creating, Accepts
  <2>2. /\ Len(rows) + 1 \in 1..Len(Order)
        /\ Len(rows') = Len(rows) + 1
        /\ rows'[Len(rows) + 1] = NewRow(Order[Len(rows) + 1], NewStatus)
        /\ \A j \in DOMAIN rows : j \in DOMAIN rows' /\ rows'[j] = rows[j]
        /\ \A j \in DOMAIN rows' : j \in DOMAIN rows \/ j = Len(rows) + 1
    BY <1>1, <1>2, <1>3, <2>1, NewRows
  <2>3. QED
    BY <1>1, <2>1, <2>2 DEF Kept, RowsKept, MainKept, NewTurns, NewRow
<1>8. CASE CreateMain(p)
  <2>1. main = NoMain /\ rows' = rows
    BY <1>8 DEF CreateMain
  <2>2. MainKept
    BY <2>1 DEF MainKept, NoMain, Final
  <2>3. QED
    BY <1>1, <2>1, <2>2 DEF Kept, RowsKept, NewTurns
<1>9. CASE CreateSubTasks(p)
  <2>1. /\ rows = <<>> /\ main' = main /\ mode \notin {"single", "sequential"}
        /\ rows' = [i \in 1..Len(Order) |-> NewRow(Order[i], "active")]
    BY <1>9 DEF CreateSubTasks, TInv, Creating, Accepts, ByVotes
  <2>2. /\ Len(rows') = Len(Order) /\ DOMAIN rows' = 1..Len(Order)
        /\ \A i \in 1..Len(Order) : rows'[i].who = Order[i]
    BY <1>3, <2>1, AllRows DEF NewRow
  <2>3. QED
    BY <1>1, <2>1, <2>2 DEF Kept, RowsKept, MainKept, NewTurns
<1>10. CASE AppendTask(p)
  <2>1. Count(seen.rows, IsCompleted) < Len(Order) /\ mode = "sequential"
    BY <1>10 DEF AppendTask, TInv, Appending
  <2>2. NextApprover \in Approver
    BY <1>1, <1>2, <2>1, CompletedCount DEF NextApprover, TInv, TypeOK
  <2>3. /\ Len(rows') = Len(rows) + 1
        /\ \A j \in DOMAIN rows : j \in DOMAIN rows' /\ rows'[j] = rows[j]
        /\ \A j \in DOMAIN rows' : j \in DOMAIN rows \/ j = Len(rows) + 1
        /\ rows'[Len(rows) + 1] = NewRow(NextApprover, NewStatus)
    BY <1>1, <1>3, <1>10, <2>2, NewRows DEF AppendTask
  <2>4. rows'[Len(rows) + 1].who = NextApprover
    BY <2>3 DEF NewRow
  <2>5. main' = main
    BY <1>10 DEF AppendTask
  <2>6. QED
    BY <1>1, <2>1, <2>3, <2>4, <2>5 DEF Kept, RowsKept, MainKept, NewTurns
<1>11. CASE EndInstance(p)
  BY <1>4, <1>11, ArchiveKeeps DEF EndInstance, TInv
<1>12. QED
  BY <1>5, <1>6, <1>7, <1>8, <1>9, <1>10, <1>11 DEF Drive

LEMMA ManageKeeps ==
  ASSUME TInv, Manage
  PROVE  Kept
<1>1. rows \in Seq(Row) /\ "active" \in RowStatus /\ "suspended" \in RowStatus
  BY DEF TInv, TypeOK, RowStatus
<1>2. CASE FinishNext \/ TerminateProcessInstance
  BY <1>2, ArchiveKeeps DEF FinishNext, TerminateProcessInstance, TInv
<1>3. ASSUME NEW i \in DOMAIN rows, SuspendTask(i) \/ ActivateTask(i) PROVE Kept
  <2>1. PICK s \in RowStatus : rows' = Set(rows, i, s)
    BY <1>1, <1>3 DEF SuspendTask, ActivateTask
  <2>2. main' = main /\ rows[i].status \in {"active", "suspended"}
    BY <1>3 DEF SuspendTask, ActivateTask
  <2>3. /\ rows' \in Seq(Row) /\ Len(rows') = Len(rows)
        /\ rows'[i] = [who |-> rows[i].who, status |-> s, vote |-> rows[i].vote]
        /\ \A j \in DOMAIN rows \ {i} : rows'[j] = rows[j]
    BY <1>1, <2>1, StatusRows
  <2>4. ASSUME NEW j \in DOMAIN rows
        PROVE  /\ rows'[j].who = rows[j].who
               /\ Final(rows[j].status) => rows'[j] = rows[j]
    <3>1. CASE j = i
      BY <2>2, <2>3, <3>1 DEF Final
    <3>2. CASE j # i
      BY <2>3, <3>2
    <3>3. QED
      BY <3>1, <3>2
  <2>5. QED
    BY <1>1, <2>2, <2>3, <2>4, SameLength DEF Kept, MainKept
<1>4. CASE SuspendProcessInstance \/ ActivateProcessInstance
  <2>1. PICK from, to \in RowStatus : rows' = Mapped(rows, {from}, to) /\ ~Final(from)
    BY <1>1, <1>4 DEF SuspendProcessInstance, ActivateProcessInstance, Final
  <2>2. /\ rows' \in Seq(Row) /\ Len(rows') = Len(rows)
        /\ \A i \in DOMAIN rows :
             /\ rows[i].status # from => rows'[i] = rows[i]
             /\ rows[i].status = from =>
                  rows'[i] = [who |-> rows[i].who, status |-> to, vote |-> rows[i].vote]
    BY <1>1, <2>1, MappedRows
  <2>3. ASSUME NEW j \in DOMAIN rows
        PROVE  /\ rows'[j].who = rows[j].who
               /\ Final(rows[j].status) => rows'[j] = rows[j]
    <3>1. CASE rows[j].status = from
      <4>1. rows'[j] = [who |-> rows[j].who, status |-> to, vote |-> rows[j].vote]
        BY <2>2, <3>1
      <4>2. QED
        BY <2>1, <3>1, <4>1
    <3>2. CASE rows[j].status # from
      BY <2>2, <3>2
    <3>3. QED
      BY <3>1, <3>2
  <2>4. MainKept
    BY <1>4 DEF SuspendProcessInstance, ActivateProcessInstance, MainKept, Final
  <2>5. QED
    BY <1>1, <2>2, <2>3, <2>4, SameLength DEF Kept
<1>5. QED
  BY <1>2, <1>3, <1>4 DEF Manage

(* Every step keeps what was answered or withdrawn. *)
LEMMA NextKeeps == TInv /\ MainEnds /\ [Next]_vars => Kept
<1> SUFFICES ASSUME TInv, MainEnds, [Next]_vars PROVE Kept
  OBVIOUS
<1>1. ASSUME UNCHANGED <<rows, main>> PROVE Kept
  BY <1>1, SameRows DEF TInv, TypeOK
<1>2. CASE Crash \/ UNCHANGED vars
  BY <1>1, <1>2 DEF Crash, vars
<1>3. ASSUME NEW p \in Caller, Answer(p) PROVE Kept
  BY <1>3, AnswerKeeps DEF Answer
<1>4. QED
  BY <1>2, <1>3, DriveKeeps, ManageKeeps DEF Next

-----------------------------------------------------------------------------
(* Instances that ended, and instances that are suspended. *)

LEMMA MainEndsStep == TInv /\ MainEnds /\ [Next]_vars => MainEnds'
<1> SUFFICES ASSUME TInv, MainEnds, [Next]_vars PROVE MainEnds'
  OBVIOUS
<1> USE DEF MainEnds, Live
<1>1. ASSUME NEW p \in Caller, Drive(p) PROVE MainEnds'
  BY <1>1 DEF Drive, ExecuteNext, GetExistingTasks, CreateRefused, CreateFirst,
     CreateCandidate, CreateMain, CreateSubTasks, Judge, Advance, AppendTask, TellSuccess,
     EndInstance, Archive, NewStatus, Accepts
<1>2. ASSUME NEW p \in Caller, Answer(p) PROVE MainEnds'
  BY <1>2 DEF Answer, CompleteTask, CompleteSubTask
<1>3. ASSUME NEW p \in Caller, ReDrive(p) \/ Restore(p) PROVE MainEnds'
  BY <1>3 DEF ReDrive, Restore
<1>4. CASE Manage
  BY <1>4 DEF Manage, FinishNext, TerminateProcessInstance, Archive, SuspendTask,
     ActivateTask, SuspendProcessInstance, ActivateProcessInstance, TInv, TypeOK, MainRow
<1>5. CASE Crash \/ UNCHANGED vars
  BY <1>5 DEF Crash, vars
<1>6. QED
  BY <1>1, <1>2, <1>3, <1>4, <1>5 DEF Next

(* A step that leaves the instance ended either ended it, and its tasks    *)
(* with it, or left its tasks alone.                                       *)
LEMMA EndedStep == TInv /\ NoOrphanTask /\ [Next]_vars => NoOrphanTask'
<1> SUFFICES ASSUME TInv, NoOrphanTask, [Next]_vars PROVE NoOrphanTask'
  OBVIOUS
<1> USE DEF Live
<1>1. ASSUME NEW status, Archive(status)
      PROVE  /\ \A i \in DOMAIN rows' : Final(rows'[i].status)
             /\ main'.status \notin OpenStatus
  <2>1. /\ rows \in Seq(Row) /\ DOMAIN rows' = DOMAIN rows
        /\ \A i \in DOMAIN rows :
             /\ rows[i].status \notin OpenStatus => rows'[i] = rows[i]
             /\ rows[i].status \in OpenStatus =>
                  rows'[i] = [who |-> rows[i].who, status |-> "terminated",
                              vote |-> rows[i].vote]
    BY <1>1, ArchiveRows DEF TInv, TypeOK
  <2>2. ASSUME NEW i \in DOMAIN rows PROVE Final(rows'[i].status)
    <3>1. rows[i].status \in RowStatus
      <4>1. rows[i] \in Row
        BY <2>1
      <4>2. QED
        BY <4>1 DEF Row
    <3>2. CASE rows[i].status \in OpenStatus
      <4>1. rows'[i] = [who |-> rows[i].who, status |-> "terminated", vote |-> rows[i].vote]
        BY <2>1, <3>2
      <4>2. QED
        BY <4>1 DEF Final
    <3>3. CASE rows[i].status \notin OpenStatus
      <4>1. rows'[i] = rows[i]
        BY <2>1, <3>3
      <4>2. QED
        BY <3>1, <3>3, <4>1 DEF Final, OpenStatus, RowStatus
    <3>4. QED
      BY <3>2, <3>3
  <2>3. main'.status \notin OpenStatus
    BY <1>1 DEF Archive, OpenStatus, TInv, TypeOK, MainRow
  <2>4. QED
    BY <2>1, <2>2, <2>3
<1>2. ASSUME NEW status, Archive(status), next' \notin OpenStatus PROVE NoOrphanTask'
  BY <1>1, <1>2 DEF NoOrphanTask
<1> DEFINE Quiet == ~Live' => ~Live /\ UNCHANGED <<rows, main, next>>
<1>3. ASSUME Quiet PROVE NoOrphanTask'
  BY <1>3 DEF NoOrphanTask
<1>4. ASSUME NEW p \in Caller, Drive(p), ~EndInstance(p) PROVE Quiet
  BY <1>4 DEF Drive, ExecuteNext, GetExistingTasks, CreateRefused, CreateFirst,
     CreateCandidate, CreateMain, CreateSubTasks, Judge, Advance, AppendTask, TellSuccess,
     Accepts
<1>5. ASSUME NEW p \in Caller, EndInstance(p) PROVE NoOrphanTask'
  BY <1>2, <1>3, <1>5 DEF EndInstance, OpenStatus
<1>6. ASSUME NEW p \in Caller, Answer(p) PROVE Quiet
  BY <1>6 DEF Answer, CompleteTask, CompleteSubTask, Completable
<1>7. ASSUME NEW p \in Caller, ReDrive(p) \/ Restore(p) PROVE Quiet
  BY <1>7 DEF ReDrive, Restore
<1>8. CASE FinishNext \/ TerminateProcessInstance
  BY <1>2, <1>8 DEF FinishNext, TerminateProcessInstance, OpenStatus
<1>9. ASSUME Manage, ~FinishNext, ~TerminateProcessInstance PROVE Quiet
  BY <1>9 DEF Manage, SuspendTask, ActivateTask, SuspendProcessInstance,
     ActivateProcessInstance
<1>10. CASE Crash \/ UNCHANGED vars
  BY <1>3, <1>10 DEF Crash, vars
<1>11. QED
  BY <1>3, <1>4, <1>5, <1>6, <1>7, <1>8, <1>9, <1>10 DEF Next, Manage

(* A step that leaves the instance suspended either suspended it, or made  *)
(* at most a suspended task.                                               *)
LEMMA FrozenStep == TInv /\ Frozen /\ [Next]_vars => Frozen'
<1> SUFFICES ASSUME TInv, Frozen, [Next]_vars, inst' = "suspended" PROVE Frozen'
  BY DEF Frozen
<1>1. rows \in Seq(Row) /\ main \in MainRow /\ Len(Order) \in Nat /\ Len(Order) > 0
  BY OrderAssumption DEF TInv, TypeOK
<1> DEFINE Quiet == inst = "suspended" /\ UNCHANGED <<mode, rows, main, next>>
<1>2. ASSUME Quiet PROVE Frozen'
  BY <1>2 DEF Frozen, ByVotes
<1>3. ASSUME inst = "suspended", UNCHANGED <<mode, main, next>>, NEW a \in Approver,
             rows' = Append(rows, NewRow(a, NewStatus))
      PROVE  Frozen'
  <2>1. NewStatus = "suspended" /\ "suspended" \in RowStatus
    BY <1>3 DEF NewStatus, RowStatus
  <2>2. /\ \A j \in DOMAIN rows : rows'[j] = rows[j]
        /\ \A j \in DOMAIN rows' : j \in DOMAIN rows \/ j = Len(rows) + 1
        /\ rows'[Len(rows) + 1] = NewRow(a, "suspended")
    BY <1>1, <1>3, <2>1, NewRows
  <2>3. rows'[Len(rows) + 1].status = "suspended"
    BY <2>2 DEF NewRow
  <2>4. QED
    BY <1>3, <2>2, <2>3 DEF Frozen, ByVotes
<1>4. ASSUME NEW p \in Caller, Drive(p) PROVE Frozen'
  <2>1. CASE ExecuteNext(p) \/ GetExistingTasks(p) \/ CreateRefused(p) \/ Judge(p) \/ Advance(p)
    BY <1>2, <2>1 DEF ExecuteNext, GetExistingTasks, CreateRefused, Judge, Advance
  <2>2. CASE CreateFirst(p)
    BY <1>1, <1>3, <2>2, OrderAssumption DEF CreateFirst
  <2>3. CASE CreateCandidate(p)
    <3>1. Len(rows) < Len(Order)
      BY <2>3 DEF CreateCandidate, TInv, Creating, Accepts
    <3>2. Order[Len(rows) + 1] \in Approver
      BY <1>1, <3>1, OrderAssumption
    <3>3. QED
      BY <1>3, <2>3, <3>2 DEF CreateCandidate
  <2>4. CASE CreateMain(p)
    BY <2>4 DEF CreateMain, Frozen, ByVotes, NewStatus
  <2>5. CASE CreateSubTasks(p)
    BY <2>5 DEF CreateSubTasks, Frozen, ByVotes
  <2>6. CASE AppendTask(p)
    <3>1. Count(seen.rows, IsCompleted) + 1 \in 1..Len(Order)
      BY <1>1, <2>6, CompletedCount DEF AppendTask, TInv, TypeOK, Appending
    <3>2. NextApprover \in Approver
      BY <3>1, OrderAssumption DEF NextApprover
    <3>3. QED
      BY <1>3, <2>6, <3>2 DEF AppendTask
  <2>7. CASE TellSuccess(p)
    BY <2>7 DEF TellSuccess, Frozen, ByVotes, NewStatus
  <2>8. CASE EndInstance(p)
    BY <1>2, <2>8 DEF EndInstance, Archive, Live
  <2>9. QED
    BY <1>4, <2>1, <2>2, <2>3, <2>4, <2>5, <2>6, <2>7, <2>8 DEF Drive
<1>5. ASSUME NEW p \in Caller, Answer(p) \/ ReDrive(p) \/ Restore(p) PROVE Frozen'
  BY <1>2, <1>5 DEF Answer, CompleteTask, CompleteSubTask, Completable, ReDrive, Restore
<1>6. CASE FinishNext \/ TerminateProcessInstance \/ ActivateProcessInstance
  BY <1>6 DEF FinishNext, TerminateProcessInstance, ActivateProcessInstance, Archive
<1>7. ASSUME NEW i \in DOMAIN rows, SuspendTask(i) \/ ActivateTask(i) PROVE Frozen'
  <2>1. /\ inst = "suspended" /\ UNCHANGED <<mode, main, next>>
        /\ rows' = Set(rows, i, "suspended")
    BY <1>7 DEF SuspendTask, ActivateTask
  <2>2. /\ DOMAIN rows' = DOMAIN rows
        /\ rows'[i] = [who |-> rows[i].who, status |-> "suspended", vote |-> rows[i].vote]
        /\ \A j \in DOMAIN rows \ {i} : rows'[j] = rows[j]
    BY <1>1, <2>1, StatusRows, ZenonT(60) DEF RowStatus
  <2>3. rows'[i].status = "suspended"
    BY <2>2
  <2>4. QED
    BY <2>1, <2>2, <2>3 DEF Frozen, ByVotes
<1>8. CASE SuspendProcessInstance
  <2>1. /\ DOMAIN rows' = DOMAIN rows
        /\ \A i \in DOMAIN rows :
             /\ rows[i].status # "active" => rows'[i] = rows[i]
             /\ rows[i].status = "active" =>
                  rows'[i] = [who |-> rows[i].who, status |-> "suspended", vote |-> rows[i].vote]
    BY <1>1, <1>8, MappedRows DEF SuspendProcessInstance, RowStatus
  <2>2. ASSUME NEW i \in DOMAIN rows PROVE rows'[i].status # "active"
    <3>1. CASE rows[i].status = "active"
      <4>1. rows'[i] = [who |-> rows[i].who, status |-> "suspended", vote |-> rows[i].vote]
        BY <2>1, <3>1
      <4>2. QED
        BY <4>1
    <3>2. CASE rows[i].status # "active"
      BY <2>1, <3>2
    <3>3. QED
      BY <3>1, <3>2
  <2>3. main'.status \notin {"active", "pending"} /\ next' # "active"
    BY <1>1, <1>8 DEF SuspendProcessInstance, MainRow
  <2>4. QED
    BY <2>1, <2>2, <2>3 DEF Frozen
<1>9. CASE Crash \/ UNCHANGED vars
  BY <1>2, <1>9 DEF Crash, vars
<1>10. QED
  BY <1>4, <1>5, <1>6, <1>7, <1>8, <1>9 DEF Next, Manage

-----------------------------------------------------------------------------
(* In every mode but the sequence the i-th row is the i-th approver's; a   *)
(* single task is the first one's.                                         *)

Assigned == mode # "sequential" =>
              \A i \in DOMAIN rows : /\ i \in 1..Len(Order) /\ rows[i].who = Order[i]
                                     /\ mode = "single" => i = 1

LEMMA AssignedStep == Assigned /\ Kept /\ mode' = mode => Assigned'
BY DEF Assigned, Kept, RowsKept, NewTurns

LEMMA ModeFixed == [Next]_vars => mode' = mode
BY DEF Next, Drive, ExecuteNext, GetExistingTasks, CreateRefused, CreateFirst, CreateCandidate,
   CreateMain, CreateSubTasks, Judge, Advance, AppendTask, TellSuccess, EndInstance, Answer,
   CompleteTask, CompleteSubTask, ReDrive, Restore, Manage, FinishNext,
   TerminateProcessInstance, SuspendTask, ActivateTask, SuspendProcessInstance,
   ActivateProcessInstance, Crash, vars

-----------------------------------------------------------------------------
(* What a drive read is behind the rows, never against them. *)

SeenPast == /\ \A i \in DOMAIN seen.rows :
                 /\ i \in DOMAIN rows
                 /\ Final(seen.rows[i].status) => rows[i] = seen.rows[i]
            /\ Final(seen.main.status) => main = seen.main

LEMMA SeenReads ==
  ASSUME TInv, [Next]_vars
  PROVE  seen' \in {seen, Nothing, [rows |-> rows, main |-> main], [Nothing EXCEPT !.rows = rows],
                    [Nothing EXCEPT !.rows = <<>>]}
<1>1. ASSUME NEW p \in Caller, Drive(p) PROVE seen' \in {seen, Nothing,
        [rows |-> rows, main |-> main], [Nothing EXCEPT !.rows = rows],
        [Nothing EXCEPT !.rows = <<>>]}
  BY <1>1 DEF Drive, ExecuteNext, GetExistingTasks, CreateRefused, CreateFirst,
     CreateCandidate, CreateMain, CreateSubTasks, Judge, Advance, AppendTask, TellSuccess,
     EndInstance
<1>2. QED
  BY <1>1 DEF Next, Answer, CompleteTask, CompleteSubTask, ReDrive, Restore, Manage,
     FinishNext, TerminateProcessInstance, SuspendTask, ActivateTask,
     SuspendProcessInstance, ActivateProcessInstance, Crash, vars

LEMMA SeenPastStep ==
  ASSUME TInv, SeenPast, Kept, [Next]_vars
  PROVE  SeenPast'
<1>1. /\ seen \in [rows : Seq(Row), main : MainRow] /\ rows \in Seq(Row)
      /\ Nothing.rows = <<>> /\ ~Final(Nothing.main.status)
  BY DEF TInv, TypeOK, Nothing, NoMain, Final
<1>2. CASE seen' = seen
  BY <1>1, <1>2 DEF SeenPast, Kept, RowsKept, MainKept
<1>3. CASE seen' = Nothing \/ seen' = [Nothing EXCEPT !.rows = <<>>]
  <2>1. seen'.rows = <<>> /\ ~Final(seen'.main.status)
    BY <1>1, <1>3 DEF Nothing
  <2>2. QED
    BY <2>1 DEF SeenPast
<1>4. CASE seen' = [rows |-> rows, main |-> main]
  BY <1>1, <1>4 DEF SeenPast, Kept, RowsKept, MainKept
<1>5. CASE seen' = [Nothing EXCEPT !.rows = rows]
  <2>1. seen'.rows = rows /\ ~Final(seen'.main.status)
    BY <1>1, <1>5 DEF Nothing
  <2>2. QED
    BY <1>1, <2>1 DEF SeenPast, Kept, RowsKept
<1>6. QED
  BY <1>2, <1>3, <1>4, <1>5, SeenReads

-----------------------------------------------------------------------------
(* The sequence keeps its order: what was completed stays completed, so    *)
(* the count a turn was given by is still reached.                         *)

LEMMA CountGrows ==
  ASSUME NEW rs \in Seq(Row), NEW rt \in Seq(Row),
         \A i \in DOMAIN rs : /\ i \in DOMAIN rt
                              /\ Final(rs[i].status) => rt[i] = rs[i]
  PROVE  /\ Count(rs, IsCompleted) \in Nat /\ Count(rt, IsCompleted) \in Nat
         /\ Count(rs, IsCompleted) <= Count(rt, IsCompleted)
         /\ Count(rs, IsApproved) \in Nat /\ Count(rt, IsApproved) \in Nat
         /\ Count(rs, IsApproved) <= Count(rt, IsApproved)
<1> DEFINE Cs == {i \in DOMAIN rs : IsCompleted(rs[i])}
           Ct == {i \in DOMAIN rt : IsCompleted(rt[i])}
           As == {i \in DOMAIN rs : IsApproved(rs[i])}
           At == {i \in DOMAIN rt : IsApproved(rt[i])}
<1>1. IsFiniteSet(DOMAIN rt)
  BY FS_Interval
<1>2. Ct \in SUBSET DOMAIN rt /\ At \in SUBSET DOMAIN rt
  OBVIOUS
<1>3. IsFiniteSet(Ct) /\ IsFiniteSet(At)
  BY <1>1, <1>2, FS_Subset
<1>4. Cs \in SUBSET Ct /\ As \in SUBSET At
  BY DEF IsCompleted, IsApproved, Final
<1>5. /\ Cardinality(Cs) \in Nat /\ Cardinality(Ct) \in Nat /\ Cardinality(Cs) <= Cardinality(Ct)
      /\ Cardinality(As) \in Nat /\ Cardinality(At) \in Nat /\ Cardinality(As) <= Cardinality(At)
  BY <1>3, <1>4, FS_Subset, FS_CardinalityType
<1>6. QED
  BY <1>5 DEF Count

LEMMA InTurnStep ==
  ASSUME TInv, SeenPast, InTurn, Kept, TInv', mode' = mode
  PROVE  InTurn'
<1>1. /\ rows \in Seq(Row) /\ rows' \in Seq(Row) /\ seen.rows \in Seq(Row)
      /\ Len(Order) \in Nat /\ Len(Order) > 0
      /\ \A i, j \in 1..Len(Order) : Order[i] = Order[j] => i = j
  BY OrderAssumption DEF TInv, TypeOK
<1>2. /\ Count(rows, IsCompleted) \in Nat /\ Count(rows', IsCompleted) \in Nat
      /\ Count(rows, IsCompleted) <= Count(rows', IsCompleted)
  BY <1>1, CountGrows DEF Kept, RowsKept
<1>3. /\ Count(seen.rows, IsCompleted) \in Nat
      /\ Count(seen.rows, IsCompleted) <= Count(rows, IsCompleted)
  BY <1>1, CountGrows DEF SeenPast
<1>4. SUFFICES ASSUME mode = "sequential", NEW i \in DOMAIN rows', NEW k \in 1..Len(Order),
                      rows'[i].who = Order[k]
               PROVE  Count(rows', IsCompleted) >= k - 1
  BY DEF InTurn
<1>5. CASE i \in DOMAIN rows
  <2>1. rows[i].who = Order[k]
    BY <1>4, <1>5 DEF Kept, RowsKept
  <2>2. Count(rows, IsCompleted) >= k - 1
    BY <1>4, <1>5, <2>1 DEF InTurn
  <2>3. QED
    BY <1>2, <2>2
<1>6. CASE i \notin DOMAIN rows
  <2>1. CASE rows'[i].who = Order[1]
    <3>1. k = 1
      <4>1. 1 \in 1..Len(Order) /\ Order[k] = Order[1]
        BY <1>1, <1>4, <2>1
      <4>2. QED
        BY <1>1, <4>1
    <3>2. QED
      BY <1>2, <3>1
  <2>2. CASE Count(seen.rows, IsCompleted) < Len(Order) /\ rows'[i].who = NextApprover
    <3>1. k = Count(seen.rows, IsCompleted) + 1
      <4>1. PICK c \in Nat : c = Count(seen.rows, IsCompleted)
        BY <1>3
      <4>2. c + 1 \in 1..Len(Order) /\ Order[k] = Order[c + 1]
        BY <1>1, <1>4, <2>2, <4>1 DEF NextApprover
      <4>3. k = c + 1
        BY <1>1, <4>2
      <4>4. QED
        BY <4>1, <4>3
    <3>2. QED
      BY <1>2, <1>3, <3>1
  <2>3. QED
    BY <1>4, <1>6, <2>1, <2>2 DEF Kept, NewTurns
<1>7. QED
  BY <1>5, <1>6

-----------------------------------------------------------------------------
(* One verdict: a node with one task, or one that decides by votes, passes *)
(* only on an approval on record, and with that on record no drive that    *)
(* reads it rejects.                                                       *)

Endorsed(rs, m) ==
  IF mode = "single" THEN /\ rs # <<>>
                          /\ \A i \in DOMAIN rs : IsApproved(rs[i])
                     ELSE IsApproved(m)

Verdicts ==
  mode \in {"single", "countersign", "vote"} =>
    /\ \A p \in Caller : pc[p] = "pass" => Endorsed(rows, main)
    /\ passes > 0 => Endorsed(rows, main)
    /\ \A p \in Caller : pc[p] = "judge" /\ passes > 0 => Endorsed(seen.rows, seen.main)
    /\ \A p \in Caller : pc[p] = "reject" => passes = 0
    /\ rejected => passes = 0 /\ ~Live /\ GateFree

LEMMA CountSome ==
  ASSUME NEW S, NEW rs \in Seq(S)
  PROVE  /\ Count(rs, IsApproved) > 0 <=> \E i \in DOMAIN rs : IsApproved(rs[i])
         /\ Count(rs, IsRejected) > 0 <=> \E i \in DOMAIN rs : IsRejected(rs[i])
<1> DEFINE As == {i \in DOMAIN rs : IsApproved(rs[i])}
           Rs == {i \in DOMAIN rs : IsRejected(rs[i])}
<1>1. IsFiniteSet(DOMAIN rs)
  BY FS_Interval
<1>2. As \in SUBSET DOMAIN rs /\ Rs \in SUBSET DOMAIN rs
  OBVIOUS
<1>3. /\ Cardinality(As) \in Nat /\ (Cardinality(As) = 0 <=> As = {})
      /\ Cardinality(Rs) \in Nat /\ (Cardinality(Rs) = 0 <=> Rs = {})
  BY <1>1, <1>2, FS_Subset, FS_CardinalityType, FS_EmptySet
<1>4. /\ Count(rs, IsApproved) = Cardinality(As)
      /\ Count(rs, IsRejected) = Cardinality(Rs)
  BY DEF Count
<1>5. /\ As # {} <=> \E i \in DOMAIN rs : IsApproved(rs[i])
      /\ Rs # {} <=> \E i \in DOMAIN rs : IsRejected(rs[i])
  OBVIOUS
<1>6. QED
  BY <1>3, <1>4, <1>5

(* What was endorsed stays so. *)
LEMMA EndorsedStays ==
  ASSUME TInv, TInv', Kept, Assigned', mode' = mode, mode \in {"single", "countersign", "vote"},
         Endorsed(rows, main)
  PROVE  Endorsed(rows, main)'
<1>1. rows \in Seq(Row) /\ rows' \in Seq(Row)
  BY DEF TInv, TypeOK
<1>2. CASE mode = "single"
  <2>1. /\ 1 \in DOMAIN rows /\ IsApproved(rows[1])
    BY <1>1, <1>2 DEF Endorsed
  <2>2. 1 \in DOMAIN rows' /\ rows'[1] = rows[1]
    BY <2>1 DEF Kept, RowsKept, IsApproved, Final
  <2>3. \A i \in DOMAIN rows' : i = 1
    BY <1>2 DEF Assigned
  <2>4. QED
    BY <1>1, <1>2, <2>1, <2>2, <2>3 DEF Endorsed
<1>3. CASE mode # "single"
  BY <1>3 DEF Endorsed, Kept, MainKept, IsApproved, Final
<1>4. QED
  BY <1>2, <1>3

(* What the node judges when it passes, and when it rejects. *)
LEMMA JudgedFairly ==
  ASSUME TInv, SeenPast, Assigned, mode \in {"single", "countersign", "vote"}
  PROVE  /\ Judgement = "pass" => Endorsed(rows, main)
         /\ Judgement = "reject" => ~Endorsed(seen.rows, seen.main)
<1>1. /\ seen.rows \in Seq(Row) /\ rows \in Seq(Row)
      /\ <<seen.main>> \in Seq(MainRow)
  BY DEF TInv, TypeOK
<1>2. CASE mode = "single"
  <2>1. TopLevel = seen.rows
    BY <1>2 DEF TopLevel, ByVotes
  <2>2. /\ Passed => \E i \in DOMAIN seen.rows : IsApproved(seen.rows[i])
        /\ (\E i \in DOMAIN seen.rows : IsApproved(seen.rows[i]))
           /\ (\A i \in DOMAIN seen.rows : ~IsRejected(seen.rows[i])) => Passed
    BY <1>1, <2>1, CountSome DEF Passed, SomeRejected
  <2>3. /\ Judgement = "pass" => Passed
        /\ Judgement = "reject" => ~Passed
    BY <1>2 DEF Judgement, NoVoters, ByVotes
  <2>4. ASSUME NEW i \in DOMAIN seen.rows, IsApproved(seen.rows[i])
        PROVE  Endorsed(rows, main)
    <3>1. i \in DOMAIN rows /\ rows[i] = seen.rows[i]
      BY <2>4 DEF SeenPast, IsApproved, Final
    <3>2. \A j \in DOMAIN rows : j = i
      BY <1>2, <3>1 DEF Assigned
    <3>3. QED
      BY <1>1, <1>2, <2>4, <3>1, <3>2 DEF Endorsed
  <2>5. ASSUME Endorsed(seen.rows, seen.main) PROVE Passed
    <3>1. \A i \in DOMAIN seen.rows : ~IsRejected(seen.rows[i])
      BY <1>2, <2>5 DEF Endorsed, IsApproved, IsRejected
    <3>2. 1 \in DOMAIN seen.rows /\ IsApproved(seen.rows[1])
      BY <1>1, <1>2, <2>5 DEF Endorsed
    <3>3. QED
      BY <2>2, <3>1, <3>2
  <2>6. QED
    BY <2>2, <2>3, <2>4, <2>5
<1>3. CASE mode \in {"countersign", "vote"}
  <2>1. TopLevel = <<seen.main>> /\ DOMAIN TopLevel = {1} /\ TopLevel[1] = seen.main
    BY <1>3 DEF TopLevel, ByVotes
  <2>2. /\ Count(TopLevel, IsApproved) > 0 <=> IsApproved(seen.main)
        /\ Count(TopLevel, IsRejected) > 0 <=> IsRejected(seen.main)
    BY <1>1, <2>1, CountSome
  <2>3. Passed <=> IsApproved(seen.main)
    BY <2>2 DEF Passed, SomeRejected, IsApproved, IsRejected
  <2>4. /\ Judgement = "pass" => Passed
        /\ Judgement = "reject" => ~Passed
    BY <1>3 DEF Judgement, Passed
  <2>5. IsApproved(seen.main) => main = seen.main
    BY DEF SeenPast, IsApproved, Final
  <2>6. QED
    BY <1>3, <2>3, <2>4, <2>5 DEF Endorsed
<1>4. QED
  BY <1>2, <1>3

LEMMA VerdictsStep ==
  ASSUME TInv, TInv', SeenPast, Assigned, Assigned', Kept, Verdicts, [Next]_vars, mode' = mode
  PROVE  Verdicts'
<1> SUFFICES ASSUME mode \in {"single", "countersign", "vote"} PROVE Verdicts'
  BY DEF Verdicts
<1> USE DEF GateFree, InGate, Occupant
<1>1. Endorsed(rows, main) => Endorsed(rows, main)'
  BY EndorsedStays
<1>2. Live' => Live
  BY DEF Live, Next, Drive, ExecuteNext, GetExistingTasks, CreateRefused, CreateFirst,
     CreateCandidate, CreateMain, CreateSubTasks, Judge, Advance, AppendTask, TellSuccess,
     EndInstance, Archive, Answer, CompleteTask, CompleteSubTask, ReDrive, Restore, Manage,
     FinishNext, TerminateProcessInstance, SuspendTask, ActivateTask, SuspendProcessInstance,
     ActivateProcessInstance, Crash, vars
<1>3. pc \in [Caller -> {"idle", "drive"} \cup InGate] /\ passes \in Nat
  BY BoundsAssumption DEF TInv, TypeOK
<1> DEFINE Quiet ==
      /\ UNCHANGED <<passes, rejected>>
      /\ \A p \in Caller : pc'[p] \in {"judge", "pass", "reject"} => pc'[p] = pc[p]
      /\ seen' = seen \/ \A p \in Caller : pc'[p] # "judge"
      /\ GateFree /\ ~Live => GateFree'
<1>4. ASSUME Quiet PROVE Verdicts'
  <2>1. \A p \in Caller : pc'[p] = "judge" /\ passes' > 0 => Endorsed(seen.rows, seen.main)'
    BY <1>4 DEF Verdicts, Endorsed
  <2>2. QED
    BY <1>1, <1>2, <1>4, <2>1 DEF Verdicts
<1>5. ASSUME NEW p \in Caller, GetExistingTasks(p) PROVE Verdicts'
  <2>1. /\ UNCHANGED <<rows, main, passes, rejected>>
        /\ pc[p] = "node"
        /\ \/ pc' = [pc EXCEPT ![p] = "create"]
           \/ pc' = [pc EXCEPT ![p] = "judge"] /\ seen' = [rows |-> rows, main |-> main]
    BY <1>5 DEF GetExistingTasks, Goto
  <2>2. \A q \in Caller : pc'[q] \in {"judge", "pass", "reject"} => q = p /\ pc'[q] = "judge"
    BY <1>3, <2>1 DEF TInv
  <2>3. \A q \in Caller : pc'[q] = "judge" /\ passes' > 0 => Endorsed(seen.rows, seen.main)'
    BY <1>3, <2>1, <2>2 DEF Verdicts, Endorsed
  <2>4. ~rejected
    BY <2>1 DEF Verdicts
  <2>5. QED
    BY <1>1, <2>1, <2>2, <2>3, <2>4 DEF Verdicts
<1>6. ASSUME NEW p \in Caller, Judge(p) PROVE Verdicts'
  <2>1. /\ UNCHANGED <<rows, main, passes, rejected>>
        /\ pc[p] = "judge" /\ pc' = [pc EXCEPT ![p] = Judgement]
        /\ Judgement # "judge"
    BY <1>6 DEF Judge, Goto, Judgement
  <2>2. \A q \in Caller : pc'[q] \in {"judge", "pass", "reject"} => q = p /\ pc'[q] = Judgement
    BY <1>3, <2>1 DEF TInv
  <2>3. /\ Judgement = "pass" => Endorsed(rows, main)'
        /\ Judgement = "reject" => passes = 0
    BY <1>1, <1>3, <2>1, JudgedFairly DEF Verdicts
  <2>4. ~rejected
    BY <2>1 DEF Verdicts
  <2>5. QED
    BY <1>1, <2>1, <2>2, <2>3, <2>4 DEF Verdicts
<1>7. ASSUME NEW p \in Caller, TellSuccess(p) PROVE Verdicts'
  <2>1. /\ UNCHANGED <<rows, main, rejected>>
        /\ pc[p] = "pass" /\ pc' = [pc EXCEPT ![p] = "idle"]
    BY <1>7 DEF TellSuccess, Goto
  <2>2. \A q \in Caller : pc'[q] \notin {"judge", "pass", "reject"}
    BY <1>3, <2>1 DEF TInv
  <2>3. ~rejected /\ Endorsed(rows, main)
    BY <2>1 DEF Verdicts
  <2>4. QED
    BY <1>1, <2>1, <2>2, <2>3 DEF Verdicts
<1>8. ASSUME NEW p \in Caller, EndInstance(p) PROVE Verdicts'
  <2>1. /\ passes' = passes /\ pc[p] \in {"reject", "fail"} /\ pc' = [pc EXCEPT ![p] = "idle"]
        /\ ~Live'
    BY <1>8 DEF EndInstance, Archive, Goto, Live
  <2>2. rejected' => rejected \/ pc[p] = "reject"
    BY <1>8, Zenon DEF EndInstance
  <2>3. \A q \in Caller : pc'[q] \notin InGate
    BY <1>3, <2>1 DEF TInv
  <2>4. ~rejected
    BY <2>1 DEF Verdicts
  <2>5. QED
    BY <1>1, <2>1, <2>2, <2>3, <2>4 DEF Verdicts
<1>9. ASSUME NEW p \in Caller,
             \/ ExecuteNext(p) \/ CreateRefused(p) \/ CreateFirst(p) \/ CreateCandidate(p)
             \/ CreateMain(p) \/ CreateSubTasks(p) \/ Advance(p) \/ AppendTask(p)
             \/ Answer(p) \/ ReDrive(p) \/ Restore(p)
      PROVE  Quiet
  <2>1. CASE ExecuteNext(p) \/ ReDrive(p) \/ Restore(p) \/ Answer(p)
    BY <1>3, <2>1 DEF ExecuteNext, ReDrive, Restore, Answer, CompleteTask, CompleteSubTask,
       Goto, Live
  <2>2. CASE CreateRefused(p) \/ CreateFirst(p) \/ CreateCandidate(p)
             \/ CreateMain(p) \/ CreateSubTasks(p) \/ Advance(p) \/ AppendTask(p)
    <3>1. /\ UNCHANGED <<passes, rejected>>
          /\ pc[p] \in {"create", "advance", "append"}
          /\ \E label \in {"idle", "create", "append", "fail"} : pc' = [pc EXCEPT ![p] = label]
      BY <1>3, <2>2 DEF CreateRefused, CreateFirst, CreateCandidate, CreateMain,
         CreateSubTasks, Advance, AppendTask, Goto
    <3>2. \A q \in Caller : pc'[q] \notin {"judge", "pass", "reject"}
      BY <1>3, <3>1 DEF TInv
    <3>3. QED
      BY <3>1, <3>2
  <2>3. QED
    BY <1>9, <2>1, <2>2
<1>10. CASE Manage \/ UNCHANGED vars
  BY <1>4, <1>10 DEF Manage, FinishNext, TerminateProcessInstance, SuspendTask, ActivateTask,
     SuspendProcessInstance, ActivateProcessInstance, vars
<1>11. CASE Crash
  BY <1>4, <1>11 DEF Crash
<1>12. QED
  BY <1>4, <1>5, <1>6, <1>7, <1>8, <1>9, <1>10, <1>11 DEF Next, Drive

-----------------------------------------------------------------------------
NInv == /\ TInv
        /\ MainEnds
        /\ NoOrphanTask
        /\ Frozen
        /\ Assigned
        /\ SeenPast
        /\ InTurn
        /\ Verdicts

LEMMA InitNInv == Init => NInv
<1> SUFFICES ASSUME Init PROVE NInv
  OBVIOUS
<1>1. TInv
  BY InitTInv
<1>2. MainEnds /\ NoOrphanTask /\ Frozen /\ Assigned /\ SeenPast /\ InTurn /\ Verdicts
  BY DEF Init, NoMain, Nothing, MainEnds, NoOrphanTask, Frozen, Assigned, SeenPast, InTurn, Live,
     Final, Verdicts
<1>3. QED
  BY <1>1, <1>2 DEF NInv

LEMMA NextNInv == NInv /\ [Next]_vars => NInv'
<1> SUFFICES ASSUME NInv, [Next]_vars PROVE NInv'
  OBVIOUS
<1>1. TInv' /\ Kept /\ mode' = mode
  BY NextTInv, NextKeeps, ModeFixed DEF NInv
<1>2. MainEnds' /\ NoOrphanTask' /\ Frozen' /\ Assigned' /\ SeenPast'
  BY <1>1, MainEndsStep, EndedStep, FrozenStep, AssignedStep, SeenPastStep DEF NInv
<1>3. InTurn' /\ Verdicts'
  BY <1>1, <1>2, InTurnStep, VerdictsStep DEF NInv
<1>4. QED
  BY <1>1, <1>2, <1>3 DEF NInv

LEMMA SpecNInv == Spec => []NInv
BY InitNInv, NextNInv, PTL DEF Spec

(* An instance that ended holds no open task, whatever drive was in flight *)
(* when it ended (the terminal check of CreateTask).                       *)
THEOREM NoTaskSurvives == Spec => []NoOrphanTask
<1>1. NInv => NoOrphanTask
  BY DEF NInv
<1>2. QED
  BY <1>1, SpecNInv, PTL

(* Nothing of a suspended instance can be worked on, although drives that  *)
(* were in flight go on and create tasks (the freeze of CreateTask).       *)
THEOREM SuspendedIsFrozen == Spec => []Frozen
<1>1. NInv => Frozen
  BY DEF NInv
<1>2. QED
  BY <1>1, SpecNInv, PTL

(* However often a node is driven, each approver has one task.             *)
THEOREM TasksCreatedOnce == Spec => []CreatedOnce
<1>1. Assigned => CreatedOnce
  <2>1. \A i, j \in 1..Len(Order) : Order[i] = Order[j] => i = j
    BY OrderAssumption
  <2>2. QED
    BY <2>1 DEF Assigned, CreatedOnce
<1>2. NInv => Assigned
  BY DEF NInv
<1>3. QED
  BY <1>1, <1>2, SpecNInv, PTL

(* In a sequence nobody gets a task before everybody earlier answered,     *)
(* whatever is re-driven or restored meanwhile.                            *)
THEOREM SequenceInTurn == Spec => []InTurn
<1>1. NInv => InTurn
  BY DEF NInv
<1>2. QED
  BY <1>1, SpecNInv, PTL

(* A node with one task, or one that decides by votes, never passes and    *)
(* ends its instance as rejected as well.                                  *)
THEOREM OneVerdictOnly == Spec => []OneVerdict
<1>1. NInv => OneVerdict
  BY DEF NInv, Verdicts, OneVerdict
<1>2. QED
  BY <1>1, SpecNInv, PTL

(* Answers stay, and tasks taken away from their approvers stay away.      *)
THEOREM AnswersStay == Spec => AnswersFinal
<1>1. NInv /\ [Next]_vars =>
        [/\ \A i \in DOMAIN rows : Final(rows[i].status) => rows'[i] = rows[i]
         /\ Final(main.status) => main' = main]_vars
  BY NextKeeps DEF NInv, Kept, RowsKept, MainKept
<1>2. QED
  BY <1>1, SpecNInv, PTL DEF Spec, AnswersFinal

-----------------------------------------------------------------------------
(* Counting rows. *)

IsOpen(r) == ~Final(r.status)

(* A completed sub-task carries an answer. *)
Answers(rs) == \A i \in DOMAIN rs : rs[i].status = "completed" => rs[i].vote # "none"

LEMMA DisjointUnion ==
  ASSUME NEW S, NEW T, IsFiniteSet(S), IsFiniteSet(T), S \cap T = {}
  PROVE  /\ IsFiniteSet(S \cup T)
         /\ Cardinality(S) \in Nat /\ Cardinality(T) \in Nat
         /\ Cardinality(S \cup T) = Cardinality(S) + Cardinality(T)
<1>1. Cardinality(S \cap T) = 0
  BY FS_EmptySet
<1>2. Cardinality(S) \in Nat /\ Cardinality(T) \in Nat
  BY FS_CardinalityType
<1>3. /\ IsFiniteSet(S \cup T)
      /\ Cardinality(S \cup T) = Cardinality(S) + Cardinality(T) - Cardinality(S \cap T)
  BY FS_Union
<1>4. QED
  BY <1>1, <1>2, <1>3

LEMMA CountsAreNumbers ==
  ASSUME NEW rs \in Seq(Row)
  PROVE  /\ IsFiniteSet(DOMAIN rs)
         /\ Count(rs, IsApproved) \in Nat
         /\ Count(rs, IsRejected) \in Nat
         /\ Count(rs, IsOpen) \in Nat
<1>1. IsFiniteSet(DOMAIN rs)
  BY FS_Interval
<1>2. QED
  BY <1>1, FS_Subset, FS_CardinalityType DEF Count

(* Who voted, and who votes, are made up of the approvals, the rejections  *)
(* and the open tasks.                                                     *)
LEMMA Electorate ==
  ASSUME NEW rs \in Seq(Row), Answers(rs)
  PROVE  /\ Count(rs, IsCompleted) = Count(rs, IsApproved) + Count(rs, IsRejected)
         /\ Count(rs, IsVoter) =
              Count(rs, IsApproved) + Count(rs, IsRejected) + Count(rs, IsOpen)
<1> DEFINE A == {i \in DOMAIN rs : IsApproved(rs[i])}
           R == {i \in DOMAIN rs : IsRejected(rs[i])}
           O == {i \in DOMAIN rs : IsOpen(rs[i])}
           C == {i \in DOMAIN rs : IsCompleted(rs[i])}
           V == {i \in DOMAIN rs : IsVoter(rs[i])}
<1>1. IsFiniteSet(DOMAIN rs)
  BY CountsAreNumbers
<1>2. A \in SUBSET DOMAIN rs /\ R \in SUBSET DOMAIN rs /\ O \in SUBSET DOMAIN rs
  OBVIOUS
<1>3. IsFiniteSet(A) /\ IsFiniteSet(R) /\ IsFiniteSet(O)
  BY <1>1, <1>2, FS_Subset
<1>4. \A i \in DOMAIN rs : rs[i].status \in RowStatus /\ rs[i].vote \in Vote
  <2>1. \A i \in DOMAIN rs : rs[i] \in Row
    OBVIOUS
  <2>2. QED
    BY <2>1 DEF Row
<1>5. C = A \cup R /\ A \cap R = {}
  BY <1>4 DEF IsCompleted, IsApproved, IsRejected, Answers, Vote
<1>6. V = C \cup O /\ C \cap O = {}
  <2>1. \A i \in DOMAIN rs : IsVoter(rs[i]) <=> (IsCompleted(rs[i]) \/ IsOpen(rs[i]))
    BY DEF IsCompleted, IsVoter, IsOpen, Final
  <2>2. \A i \in DOMAIN rs : ~(IsCompleted(rs[i]) /\ IsOpen(rs[i]))
    BY DEF IsCompleted, IsOpen, Final
  <2>3. QED
    BY <2>1, <2>2
<1> HIDE DEF A, R, O, C, V
<1>7. IsFiniteSet(C) /\ Cardinality(C) = Cardinality(A) + Cardinality(R)
  BY <1>3, <1>5, DisjointUnion
<1>8. Cardinality(V) = Cardinality(C) + Cardinality(O)
  BY <1>3, <1>6, <1>7, DisjointUnion
<1>9. QED
  BY <1>7, <1>8 DEF Count, A, R, O, C, V

(* An open task votes: one voter less is left, one vote more is cast.      *)
LEMMA OneVote ==
  ASSUME NEW rs \in Seq(Row), NEW i \in DOMAIN rs, IsOpen(rs[i]),
         NEW vote \in {"approved", "rejected"}
  PROVE  /\ Count(Voted(rs, i, vote), IsApproved) =
              IF vote = "approved" THEN Count(rs, IsApproved) + 1 ELSE Count(rs, IsApproved)
         /\ Count(Voted(rs, i, vote), IsRejected) =
              IF vote = "approved" THEN Count(rs, IsRejected) ELSE Count(rs, IsRejected) + 1
         /\ Count(Voted(rs, i, vote), IsOpen) = Count(rs, IsOpen) - 1
         /\ Count(rs, IsOpen) > 0
<1>1. PICK cast : cast = Voted(rs, i, vote) /\ vote \in Vote
  BY DEF Vote
<1>2. /\ DOMAIN cast = DOMAIN rs
      /\ cast[i] = [who |-> rs[i].who, status |-> "completed", vote |-> vote]
      /\ \A j \in DOMAIN rs \ {i} : cast[j] = rs[j]
  BY <1>1, CastRows
<1> DEFINE A(q) == {j \in DOMAIN q : IsApproved(q[j])}
           R(q) == {j \in DOMAIN q : IsRejected(q[j])}
           O(q) == {j \in DOMAIN q : IsOpen(q[j])}
<1>3. IsFiniteSet(DOMAIN rs)
  BY CountsAreNumbers
<1>4. A(rs) \in SUBSET DOMAIN rs /\ R(rs) \in SUBSET DOMAIN rs /\ O(rs) \in SUBSET DOMAIN rs
  OBVIOUS
<1>5. IsFiniteSet(A(rs)) /\ IsFiniteSet(R(rs)) /\ IsFiniteSet(O(rs))
  BY <1>3, <1>4, FS_Subset
<1>6. i \notin A(rs) /\ i \notin R(rs) /\ i \in O(rs)
  BY DEF IsOpen, IsApproved, IsRejected, Final
<1>7. /\ A(cast) = IF vote = "approved" THEN A(rs) \cup {i} ELSE A(rs)
      /\ R(cast) = IF vote = "approved" THEN R(rs) ELSE R(rs) \cup {i}
      /\ O(cast) = O(rs) \ {i}
  <2>1. /\ cast[i].status = "completed" /\ cast[i].vote = vote
    BY <1>2
  <2>2. QED
    BY <1>2, <1>6, <2>1 DEF IsOpen, IsApproved, IsRejected, Final
<1>8. /\ Cardinality(A(cast)) = IF vote = "approved" THEN Cardinality(A(rs)) + 1
                                ELSE Cardinality(A(rs))
      /\ Cardinality(R(cast)) = IF vote = "approved" THEN Cardinality(R(rs))
                                ELSE Cardinality(R(rs)) + 1
      /\ Cardinality(O(cast)) = Cardinality(O(rs)) - 1
  <2>1. /\ Cardinality(A(rs) \cup {i}) = Cardinality(A(rs)) + 1
        /\ Cardinality(R(rs) \cup {i}) = Cardinality(R(rs)) + 1
        /\ Cardinality(O(rs) \ {i}) = Cardinality(O(rs)) - 1
    BY <1>5, <1>6, FS_AddElement, FS_RemoveElement
  <2> HIDE DEF A, R, O
  <2>2. QED
    BY <1>7, <2>1
<1>9. Cardinality(O(rs)) > 0
  <2>1. Cardinality(O(rs)) \in Nat /\ Cardinality(O(rs) \ {i}) \in Nat
    BY <1>5, FS_RemoveElement, FS_CardinalityType
  <2>2. Cardinality(O(rs) \ {i}) = Cardinality(O(rs)) - 1
    BY <1>5, <1>6, FS_RemoveElement
  <2>3. QED
    BY <2>1, <2>2
<1>10. QED
  BY <1>1, <1>8, <1>9 DEF Count

(* Cancelling open tasks takes no vote away. *)
LEMMA FewerOpen ==
  ASSUME NEW rs \in Seq(Row), NEW rt \in Seq(Row), DOMAIN rt = DOMAIN rs,
         \A i \in DOMAIN rs :
           /\ Final(rs[i].status) => rt[i] = rs[i]
           /\ rt[i].status = "completed" => Final(rs[i].status)
           /\ IsOpen(rt[i]) => IsOpen(rs[i])
  PROVE  /\ Count(rt, IsApproved) = Count(rs, IsApproved)
         /\ Count(rt, IsRejected) = Count(rs, IsRejected)
         /\ Count(rt, IsOpen) <= Count(rs, IsOpen)
         /\ (\A i \in DOMAIN rs : IsOpen(rs[i]) => IsOpen(rt[i]))
              => Count(rt, IsOpen) = Count(rs, IsOpen)
<1> DEFINE A(q) == {j \in DOMAIN q : IsApproved(q[j])}
           R(q) == {j \in DOMAIN q : IsRejected(q[j])}
           O(q) == {j \in DOMAIN q : IsOpen(q[j])}
<1>1. A(rt) = A(rs) /\ R(rt) = R(rs)
  BY DEF IsApproved, IsRejected, Final
<1>2. O(rt) \in SUBSET O(rs) /\ O(rs) \in SUBSET DOMAIN rs
  OBVIOUS
<1>3. IsFiniteSet(O(rs))
  BY <1>2, CountsAreNumbers, FS_Subset
<1>4. Cardinality(O(rt)) <= Cardinality(O(rs))
  BY <1>2, <1>3, FS_Subset
<1>5. (\A i \in DOMAIN rs : IsOpen(rs[i]) => IsOpen(rt[i])) => O(rt) = O(rs)
  OBVIOUS
<1>6. QED
  BY <1>1, <1>4, <1>5 DEF Count

LEMMA RowCount ==
  ASSUME NEW rs \in Seq(Row)
  PROVE  IsFiniteSet(DOMAIN rs) /\ Cardinality(DOMAIN rs) = Len(rs)
<1>1. DOMAIN rs = 1..Len(rs) /\ Len(rs) \in Nat
  BY SMTT(30)
<1>2. PICK n \in Nat : n = Len(rs)
  BY <1>1
<1>3. IsFiniteSet(1..n) /\ Cardinality(1..n) = n
  BY FS_Interval
<1>4. QED
  BY <1>1, <1>2, <1>3

LEMMA NotMoreThanRows ==
  ASSUME NEW rs \in Seq(Row)
  PROVE  Count(rs, IsApproved) <= Len(rs)
<1>1. IsFiniteSet(DOMAIN rs) /\ Cardinality(DOMAIN rs) = Len(rs)
  BY RowCount
<1>2. {i \in DOMAIN rs : IsApproved(rs[i])} \in SUBSET DOMAIN rs
  OBVIOUS
<1>3. QED
  BY <1>1, <1>2, FS_Subset DEF Count

(* If nobody was cancelled, everybody votes. *)
LEMMA FullElectorate ==
  ASSUME NEW rs \in Seq(Row), \A i \in DOMAIN rs : rs[i].status # "terminated"
  PROVE  Count(rs, IsVoter) = Len(rs)
<1>1. {i \in DOMAIN rs : IsVoter(rs[i])} = DOMAIN rs
  BY DEF IsVoter
<1>2. Cardinality(DOMAIN rs) = Len(rs)
  BY RowCount
<1>3. QED
  BY <1>1, <1>2 DEF Count

-----------------------------------------------------------------------------
(* What a step may do to the sub-tasks and their parent.                   *)

(* Only who and how: sub-tasks that were final are as before.              *)
SameFinal(rs, rt) ==
  /\ rt \in Seq(Row)
  /\ Len(rt) = Len(rs)
  /\ DOMAIN rt = DOMAIN rs
  /\ \A i \in DOMAIN rs : Final(rs[i].status) => rt[i] = rs[i]

Still == /\ UNCHANGED <<inst, rows>>
         /\ main' = main \/ (main = NoMain /\ main'.status \in {"active", "suspended"})
Toggle == /\ Live /\ Live'
          /\ SameFinal(rows, rows')
          /\ \A i \in DOMAIN rows : ~Final(rows[i].status) => ~Final(rows'[i].status)
          /\ main' = main \/ (~Final(main.status) /\ ~Final(main'.status))
Dismiss == /\ Live /\ ~Live'
           /\ SameFinal(rows, rows')
           /\ \A i \in DOMAIN rows : ~Final(rows[i].status) => rows'[i].status = "terminated"
           /\ main' = main \/ (main.status # "completed" /\ main'.status = "terminated")
HandOut == /\ Live /\ Live'
           /\ rows = <<>>
           /\ rows' \in Seq(Row) /\ DOMAIN rows' = 1..Len(Order) /\ Len(rows') = Len(Order)
           /\ \A i \in DOMAIN rows' : rows'[i].status = "active"
           /\ main' = main

LEMMA DismissStep ==
  ASSUME TInv, Live, NEW status \in {"terminated", "completed"}, Archive(status)
  PROVE  Dismiss
<1>1. /\ rows' \in Seq(Row) /\ Len(rows') = Len(rows) /\ DOMAIN rows' = DOMAIN rows
      /\ \A i \in DOMAIN rows :
           /\ rows[i].status \notin OpenStatus => rows'[i] = rows[i]
           /\ rows[i].status \in OpenStatus =>
                rows'[i] = [who |-> rows[i].who, status |-> "terminated", vote |-> rows[i].vote]
  BY ArchiveRows DEF TInv
<1>2. \A i \in DOMAIN rows : rows[i].status \in RowStatus
  <2>1. \A i \in DOMAIN rows : rows[i] \in Row
    BY DEF TInv, TypeOK
  <2>2. QED
    BY <2>1 DEF Row
<1>3. SameFinal(rows, rows')
  <2>1. \A i \in DOMAIN rows : Final(rows[i].status) => rows[i].status \notin OpenStatus
    BY DEF Final, OpenStatus
  <2>2. QED
    BY <1>1, <2>1 DEF SameFinal
<1>4. ASSUME NEW i \in DOMAIN rows, ~Final(rows[i].status)
      PROVE  rows'[i].status = "terminated"
  <2>1. rows[i].status \in OpenStatus
    BY <1>2, <1>4 DEF Final, RowStatus, OpenStatus
  <2>2. rows'[i] = [who |-> rows[i].who, status |-> "terminated", vote |-> rows[i].vote]
    BY <1>1, <2>1
  <2>3. QED
    BY <2>2
<1>5. main' = main \/ (main.status # "completed" /\ main'.status = "terminated")
  <2>1. main \in [status : MainStatus, vote : Vote]
    BY DEF TInv, TypeOK, MainRow
  <2>2. CASE main.status \in OpenStatus
    <3>1. main' = [main EXCEPT !.status = "terminated"]
      BY <2>2 DEF Archive
    <3>2. main'.status = "terminated"
      BY <2>1, <3>1
    <3>3. QED
      BY <2>2, <3>2 DEF OpenStatus
  <2>3. CASE main.status \notin OpenStatus
    BY <2>3 DEF Archive
  <2>4. QED
    BY <2>2, <2>3
<1>6. ~Live'
  BY DEF Archive, Live
<1>7. QED
  BY <1>3, <1>4, <1>5, <1>6 DEF Dismiss

LEMMA ToggleStep ==
  ASSUME TInv, \/ \E i \in DOMAIN rows : SuspendTask(i) \/ ActivateTask(i)
               \/ SuspendProcessInstance
               \/ ActivateProcessInstance
  PROVE  Toggle
<1>1. rows \in Seq(Row) /\ "active" \in RowStatus /\ "suspended" \in RowStatus
  BY DEF TInv, TypeOK, RowStatus
<1>2. ASSUME NEW i \in DOMAIN rows, SuspendTask(i) \/ ActivateTask(i) PROVE Toggle
  <2>1. PICK s \in RowStatus : rows' = Set(rows, i, s) /\ s \in {"active", "suspended"}
    BY <1>1, <1>2 DEF SuspendTask, ActivateTask
  <2>2. /\ main' = main /\ rows[i].status \in {"active", "suspended"} /\ Live /\ Live'
    BY <1>2 DEF SuspendTask, ActivateTask, Live
  <2>3. /\ rows' \in Seq(Row) /\ Len(rows') = Len(rows) /\ DOMAIN rows' = DOMAIN rows
        /\ rows'[i] = [who |-> rows[i].who, status |-> s, vote |-> rows[i].vote]
        /\ \A j \in DOMAIN rows \ {i} : rows'[j] = rows[j]
    BY <1>1, <2>1, StatusRows
  <2>4. ~Final(rows[i].status) /\ ~Final(rows'[i].status)
    BY <2>1, <2>2, <2>3 DEF Final
  <2>5. QED
    BY <2>2, <2>3, <2>4 DEF Toggle, SameFinal
<1>3. CASE SuspendProcessInstance \/ ActivateProcessInstance
  <2>1. PICK from, to \in RowStatus : /\ rows' = Mapped(rows, {from}, to)
                                      /\ ~Final(from) /\ ~Final(to)
    BY <1>1, <1>3 DEF SuspendProcessInstance, ActivateProcessInstance, Final
  <2>2. /\ rows' \in Seq(Row) /\ Len(rows') = Len(rows) /\ DOMAIN rows' = DOMAIN rows
        /\ \A i \in DOMAIN rows :
             /\ rows[i].status # from => rows'[i] = rows[i]
             /\ rows[i].status = from =>
                  rows'[i] = [who |-> rows[i].who, status |-> to, vote |-> rows[i].vote]
    BY <1>1, <2>1, MappedRows
  <2>3. SameFinal(rows, rows')
    BY <2>1, <2>2 DEF SameFinal
  <2>4. ASSUME NEW i \in DOMAIN rows, ~Final(rows[i].status)
        PROVE  ~Final(rows'[i].status)
    <3>1. CASE rows[i].status = from
      <4>1. rows'[i].status = to
        BY <2>2, <3>1
      <4>2. QED
        BY <2>1, <4>1
    <3>2. CASE rows[i].status # from
      BY <2>2, <2>4, <3>2
    <3>3. QED
      BY <3>1, <3>2
  <2>5. /\ main' = main \/ (~Final(main.status) /\ ~Final(main'.status))
        /\ Live /\ Live'
    <3>1. main \in MainRow
      BY DEF TInv, TypeOK
    <3>2. QED
      BY <1>3, <3>1 DEF SuspendProcessInstance, ActivateProcessInstance, MainRow, Final, Live
  <2>6. QED
    BY <2>3, <2>4, <2>5 DEF Toggle
<1>4. QED
  BY <1>2, <1>3

(* The steps of a node that decides by votes. *)
LEMMA VoteSteps ==
  ASSUME TInv, [Next]_vars, ByVotes
  PROVE  \/ Still \/ Toggle \/ Dismiss \/ HandOut
         \/ \E p \in Caller, i \in DOMAIN rows, vote \in {"approved", "rejected"} :
              CompleteSubTask(p, i, vote)
<1>1. CASE Manage
  <2>1. CASE FinishNext \/ TerminateProcessInstance
    BY <2>1, DismissStep DEF FinishNext, TerminateProcessInstance, Live
  <2>2. QED
    BY <1>1, <2>1, ToggleStep DEF Manage
<1>2. CASE Crash \/ UNCHANGED vars
  BY <1>2 DEF Crash, vars, Still
<1>3. ASSUME NEW p \in Caller, Answer(p)
      PROVE  \E i \in DOMAIN rows, vote \in {"approved", "rejected"} : CompleteSubTask(p, i, vote)
  BY <1>3 DEF Answer, CompleteTask
<1>4. ASSUME NEW p \in Caller, ReDrive(p) \/ Restore(p) PROVE Still
  BY <1>4 DEF ReDrive, Restore, Still
<1>5. ASSUME NEW p \in Caller, Drive(p) PROVE Still \/ Dismiss \/ HandOut
  <2>1. CASE \/ ExecuteNext(p) \/ GetExistingTasks(p) \/ CreateRefused(p) \/ Judge(p)
             \/ Advance(p) \/ TellSuccess(p)
    BY <2>1 DEF ExecuteNext, GetExistingTasks, CreateRefused, Judge, Advance, TellSuccess, Still
  <2>2. CASE CreateMain(p)
    BY <2>2 DEF CreateMain, NewStatus, Still
  <2>3. CASE CreateSubTasks(p)
    <3>1. rows = <<>> /\ main' = main /\ Live /\ Live' /\ "active" \in RowStatus
          /\ rows' = [i \in 1..Len(Order) |-> NewRow(Order[i], "active")]
      BY <2>3 DEF CreateSubTasks, TInv, Creating, Accepts, ByVotes, Live, RowStatus
    <3>2. /\ rows' \in Seq(Row) /\ Len(rows') = Len(Order) /\ DOMAIN rows' = 1..Len(Order)
          /\ \A i \in 1..Len(Order) : rows'[i].status = "active"
      BY <3>1, AllRows DEF NewRow
    <3>3. QED
      BY <3>1, <3>2 DEF HandOut
  <2>4. CASE EndInstance(p)
    BY <2>4, DismissStep DEF EndInstance, Still
  <2>5. CASE CreateFirst(p) \/ CreateCandidate(p) \/ AppendTask(p)
    BY <2>5 DEF CreateFirst, CreateCandidate, AppendTask, TInv, Appending, ByVotes
  <2>6. QED
    BY <1>5, <2>1, <2>2, <2>3, <2>4, <2>5 DEF Drive
<1>6. QED
  BY <1>1, <1>2, <1>3, <1>4, <1>5 DEF Next

(* An answer, alone or with the cancellation of the active siblings. *)
LEMMA AnsweredRows ==
  ASSUME NEW rs \in Seq(Row), NEW i \in DOMAIN rs, ~Final(rs[i].status),
         NEW vote \in {"approved", "rejected"}, NEW rt,
         rt = Voted(rs, i, vote) \/ rt = CancelActive(Voted(rs, i, vote))
  PROVE  /\ SameFinal(rs, rt)
         /\ rt[i].status = "completed" /\ rt[i].vote = vote
         /\ \A j \in DOMAIN rs \ {i} : rt[j] = rs[j] \/ rt[j].status = "terminated"
<1>1. PICK cast : cast = Voted(rs, i, vote) /\ vote \in Vote
  BY DEF Vote
<1>2. /\ cast \in Seq(Row) /\ Len(cast) = Len(rs) /\ DOMAIN cast = DOMAIN rs
      /\ cast[i] = [who |-> rs[i].who, status |-> "completed", vote |-> vote]
      /\ \A j \in DOMAIN rs \ {i} : cast[j] = rs[j]
  BY <1>1, CastRows
<1>3. cast[i].status = "completed" /\ cast[i].vote = vote
  BY <1>2
<1>4. CASE rt = cast
  BY <1>2, <1>3, <1>4 DEF SameFinal
<1>5. CASE rt = CancelActive(cast)
  <2>1. /\ rt \in Seq(Row) /\ Len(rt) = Len(rs) /\ DOMAIN rt = DOMAIN rs
        /\ \A j \in DOMAIN rs :
             /\ cast[j].status # "active" => rt[j] = cast[j]
             /\ cast[j].status = "active" =>
                  rt[j] = [who |-> cast[j].who, status |-> "terminated", vote |-> cast[j].vote]
    BY <1>2, <1>5, CancelledRows
  <2>2. rt[i] = cast[i]
    BY <1>3, <2>1
  <2>3. ASSUME NEW j \in DOMAIN rs \ {i}
        PROVE  /\ rt[j] = rs[j] \/ rt[j].status = "terminated"
               /\ Final(rs[j].status) => rt[j] = rs[j]
    <3>1. cast[j] = rs[j]
      BY <1>2
    <3>2. CASE rs[j].status = "active"
      <4>1. rt[j] = [who |-> cast[j].who, status |-> "terminated", vote |-> cast[j].vote]
        BY <2>1, <3>1, <3>2
      <4>2. QED
        BY <3>2, <4>1 DEF Final
    <3>3. CASE rs[j].status # "active"
      BY <2>1, <3>1, <3>3
    <3>4. QED
      BY <3>2, <3>3
  <2>4. QED
    BY <1>3, <2>1, <2>2, <2>3 DEF SameFinal
<1>6. QED
  BY <1>1, <1>4, <1>5

LEMMA CancelCounts ==
  ASSUME NEW rs \in Seq(Row)
  PROVE  /\ Count(CancelActive(rs), IsApproved) = Count(rs, IsApproved)
         /\ Count(CancelActive(rs), IsRejected) = Count(rs, IsRejected)
         /\ Count(CancelActive(rs), IsOpen) <= Count(rs, IsOpen)
         /\ Count(CancelActive(rs), IsOpen) \in Nat
<1>1. PICK rt : rt = CancelActive(rs)
  OBVIOUS
<1>2. /\ rt \in Seq(Row) /\ DOMAIN rt = DOMAIN rs
      /\ \A j \in DOMAIN rs :
           /\ rs[j].status # "active" => rt[j] = rs[j]
           /\ rs[j].status = "active" =>
                rt[j] = [who |-> rs[j].who, status |-> "terminated", vote |-> rs[j].vote]
  BY <1>1, CancelledRows
<1>3. ASSUME NEW j \in DOMAIN rs
      PROVE  /\ Final(rs[j].status) => rt[j] = rs[j]
             /\ rt[j].status = "completed" => Final(rs[j].status)
             /\ IsOpen(rt[j]) => IsOpen(rs[j])
  <2>1. CASE rs[j].status = "active"
    <3>1. rt[j].status = "terminated"
      BY <1>2, <2>1
    <3>2. QED
      BY <2>1, <3>1 DEF Final, IsOpen
  <2>2. CASE rs[j].status # "active"
    <3>1. rt[j] = rs[j]
      BY <1>2, <2>2
    <3>2. QED
      BY <3>1 DEF Final, IsOpen
  <2>3. QED
    BY <2>1, <2>2
<1>4. QED
  BY <1>1, <1>2, <1>3, FewerOpen, CountsAreNumbers, ZenonT(60)

-----------------------------------------------------------------------------
(* A completed task carries an answer, in every mode. *)

LEMMA AnswersStep ==
  ASSUME TInv, Answers(rows), [Next]_vars
  PROVE  Answers(rows')
<1>1. rows \in Seq(Row) /\ Len(Order) \in Nat /\ Len(Order) > 0
      /\ \A k \in 1..Len(Order) : Order[k] \in Approver
  BY OrderAssumption, SMTT(30) DEF TInv, TypeOK
<1>2. ASSUME rows' = rows PROVE Answers(rows')
  BY <1>2
<1>3. ASSUME Toggle \/ Dismiss PROVE Answers(rows')
  <2>1. \A i \in DOMAIN rows' : i \in DOMAIN rows
    BY <1>3 DEF Toggle, Dismiss, SameFinal
  <2>2. ASSUME NEW i \in DOMAIN rows, rows'[i].status = "completed"
        PROVE  rows'[i] = rows[i]
    BY <1>3, <2>2 DEF Toggle, Dismiss, SameFinal, Final
  <2>3. QED
    BY <2>1, <2>2 DEF Answers
<1>4. CASE Manage
  <2>1. CASE FinishNext \/ TerminateProcessInstance
    BY <1>3, <2>1, DismissStep DEF FinishNext, TerminateProcessInstance, Live
  <2>2. QED
    BY <1>3, <1>4, <2>1, ToggleStep DEF Manage
<1>5. ASSUME NEW p \in Caller, Answer(p) PROVE Answers(rows')
  <2>1. PICK i \in DOMAIN rows, vote \in {"approved", "rejected"} :
          /\ ~Final(rows[i].status)
          /\ rows' = Voted(rows, i, vote) \/ rows' = CancelActive(Voted(rows, i, vote))
    BY <1>5 DEF Answer, CompleteTask, CompleteSubTask, Completable, Answered, Final
  <2>2. /\ DOMAIN rows' = DOMAIN rows
        /\ rows'[i].vote = vote
        /\ \A j \in DOMAIN rows \ {i} : rows'[j] = rows[j] \/ rows'[j].status = "terminated"
    BY <1>1, <2>1, AnsweredRows DEF SameFinal
  <2>3. QED
    BY <2>1, <2>2 DEF Answers
<1>6. ASSUME NEW p \in Caller, Drive(p) \/ ReDrive(p) \/ Restore(p) PROVE Answers(rows')
  <2>1. CASE \/ ExecuteNext(p) \/ GetExistingTasks(p) \/ CreateRefused(p) \/ CreateMain(p)
             \/ Judge(p) \/ Advance(p) \/ TellSuccess(p) \/ ReDrive(p) \/ Restore(p)
    BY <1>2, <2>1 DEF ExecuteNext, GetExistingTasks, CreateRefused, CreateMain, Judge, Advance,
       TellSuccess, ReDrive, Restore
  <2>2. NewStatus \in RowStatus /\ NewStatus # "completed" /\ "active" \in RowStatus
    BY DEF NewStatus, RowStatus
  <2>3. ASSUME NEW a \in Approver, rows' = Append(rows, NewRow(a, NewStatus))
        PROVE  Answers(rows')
    <3>1. /\ rows'[Len(rows) + 1] = NewRow(a, NewStatus)
          /\ \A j \in DOMAIN rows : rows'[j] = rows[j]
          /\ \A j \in DOMAIN rows' : j \in DOMAIN rows \/ j = Len(rows) + 1
      BY <1>1, <2>2, <2>3, NewRows
    <3>2. rows'[Len(rows) + 1].status # "completed"
      BY <2>2, <3>1 DEF NewRow
    <3>3. QED
      BY <3>1, <3>2 DEF Answers
  <2>4. CASE CreateFirst(p) \/ CreateCandidate(p)
    <3>1. Len(rows) < Len(Order)
      BY <1>1, <2>4 DEF CreateFirst, CreateCandidate, TInv, Creating, Accepts
    <3>2. Order[1] \in Approver /\ Order[Len(rows) + 1] \in Approver
      BY <1>1, <3>1
    <3>3. QED
      BY <2>3, <2>4, <3>2 DEF CreateFirst, CreateCandidate
  <2>5. CASE CreateSubTasks(p)
    <3>1. rows' = [i \in 1..Len(Order) |-> NewRow(Order[i], "active")]
      BY <2>5 DEF CreateSubTasks
    <3>2. \A i \in DOMAIN rows' : rows'[i].status = "active"
      BY <3>1 DEF NewRow
    <3>3. QED
      BY <3>2 DEF Answers
  <2>6. CASE AppendTask(p)
    <3>1. Count(seen.rows, IsCompleted) < Len(Order)
      BY <2>6 DEF AppendTask, TInv, Appending
    <3>2. NextApprover \in Approver
      BY <1>1, <3>1, CompletedCount DEF NextApprover, TInv, TypeOK
    <3>3. QED
      BY <2>3, <2>6, <3>2 DEF AppendTask
  <2>7. CASE EndInstance(p)
    BY <1>2, <1>3, <2>7, DismissStep DEF EndInstance
  <2>8. QED
    BY <1>6, <2>1, <2>4, <2>5, <2>6, <2>7 DEF Drive
<1>7. CASE Crash \/ UNCHANGED vars
  BY <1>2, <1>7 DEF Crash, vars
<1>8. QED
  BY <1>4, <1>5, <1>6, <1>7 DEF Next

-----------------------------------------------------------------------------
(* Counting after a vote. *)

LEMMA CastCounts ==
  ASSUME NEW rs \in Seq(Row), Answers(rs), NEW i \in DOMAIN rs, rs[i].status = "active",
         NEW vote \in {"approved", "rejected"}, NEW cast, cast = Voted(rs, i, vote)
  PROVE  /\ cast \in Seq(Row)
         /\ Count(cast, IsApproved) =
              IF vote = "approved" THEN Count(rs, IsApproved) + 1 ELSE Count(rs, IsApproved)
         /\ Count(cast, IsRejected) =
              IF vote = "approved" THEN Count(rs, IsRejected) ELSE Count(rs, IsRejected) + 1
         /\ Count(cast, IsOpen) = Count(rs, IsOpen) - 1
         /\ Count(cast, IsCompleted) = Count(cast, IsApproved) + Count(cast, IsRejected)
         /\ Count(cast, IsVoter) =
              Count(cast, IsApproved) + Count(cast, IsRejected) + Count(cast, IsOpen)
         /\ Count(cast, IsApproved) \in Nat
         /\ Count(cast, IsRejected) \in Nat
         /\ Count(cast, IsOpen) \in Nat
         /\ Count(rs, IsOpen) \in Nat
<1>1. IsOpen(rs[i]) /\ vote \in Vote
  BY DEF IsOpen, Final, Vote
<1>2. /\ cast \in Seq(Row) /\ DOMAIN cast = DOMAIN rs
      /\ cast[i] = [who |-> rs[i].who, status |-> "completed", vote |-> vote]
      /\ \A j \in DOMAIN rs \ {i} : cast[j] = rs[j]
  BY <1>1, CastRows
<1>3. Answers(cast)
  <2>1. cast[i].vote = vote
    BY <1>2
  <2>2. QED
    BY <1>2, <2>1 DEF Answers
<1>4. QED
  BY <1>1, <1>2, <1>3, OneVote, Electorate, CountsAreNumbers

(* The vote that closes the parent decides it as the rule says. *)
LEMMA RuleFixed == [Next]_vars => rule' = rule
BY DEF Next, Drive, ExecuteNext, GetExistingTasks, CreateRefused, CreateFirst, CreateCandidate,
   CreateMain, CreateSubTasks, Judge, Advance, AppendTask, TellSuccess, EndInstance, Answer,
   CompleteTask, CompleteSubTask, ReDrive, Restore, Manage, FinishNext,
   TerminateProcessInstance, SuspendTask, ActivateTask, SuspendProcessInstance,
   ActivateProcessInstance, Crash, vars

-----------------------------------------------------------------------------
(* The parent and its sub-tasks.  While the parent is open nobody was      *)
(* cancelled, so the electorate a decision counts is the full one; a       *)
(* closed parent has the answer the rule gives on the approvals on record. *)

Unparented == ~ByVotes => main = NoMain
Closed == main.status = "completed" =>
            /\ main.vote \in {"approved", "rejected"}
            /\ rows # <<>>
Full == (ByVotes /\ Live /\ main.status # "completed") =>
          \A i \in DOMAIN rows : rows[i].status # "terminated"
Endorsing == (main.status = "completed" /\ main.vote = "approved") =>
               Outcome(rule, Len(rows), Count(rows, IsApproved))
Parental == Unparented /\ Closed /\ Full /\ Endorsing

LEMMA UnparentedStep ==
  ASSUME TInv, Unparented, [Next]_vars, mode' = mode
  PROVE  Unparented'
<1> SUFFICES ASSUME ~ByVotes PROVE main' = main
  BY DEF Unparented, ByVotes
<1>1. main = NoMain
  BY DEF Unparented
<1>2. ASSUME NEW status, Archive(status) PROVE main' = main
  BY <1>1, <1>2 DEF Archive, NoMain, OpenStatus
<1>3. ASSUME NEW p \in Caller, Drive(p) PROVE main' = main
  BY <1>2, <1>3 DEF Drive, ExecuteNext, GetExistingTasks, CreateRefused, CreateFirst,
     CreateCandidate, CreateMain, CreateSubTasks, Judge, Advance, AppendTask, TellSuccess,
     EndInstance
<1>4. CASE Manage
  <2>1. CASE SuspendProcessInstance \/ ActivateProcessInstance
    BY <1>1, <2>1 DEF SuspendProcessInstance, ActivateProcessInstance, NoMain
  <2>2. QED
    BY <1>2, <1>4, <2>1 DEF Manage, FinishNext, TerminateProcessInstance, SuspendTask,
       ActivateTask
<1>5. QED
  BY <1>3, <1>4 DEF Next, Answer, CompleteTask, CompleteSubTask, ReDrive, Restore, Crash, vars

(* Everything but a vote. *)
LEMMA ParentalKept ==
  ASSUME TInv, TInv', Closed, Full, Endorsing, ByVotes, mode' = mode, rule' = rule,
         Still \/ Toggle \/ Dismiss \/ HandOut
  PROVE  Closed' /\ Full' /\ Endorsing'
<1>1. /\ rows \in Seq(Row) /\ rows' \in Seq(Row) /\ ValidRule(rule)
      /\ Len(Order) \in Nat /\ Len(Order) > 0
  BY OrderAssumption DEF TInv, TypeOK
<1>2. main'.status = "completed" => main' = main
  BY DEF Still, Toggle, Dismiss, HandOut, Final
<1>3. CASE HandOut
  <2>1. rows = <<>> /\ main' = main /\ main.status # "completed"
    BY <1>3 DEF HandOut, Closed
  <2>2. \A i \in DOMAIN rows' : rows'[i].status # "terminated"
    BY <1>3 DEF HandOut
  <2>3. QED
    BY <2>1, <2>2 DEF Closed, Full, Endorsing
<1>4. CASE Still
  BY <1>2, <1>4 DEF Still, Closed, Full, Endorsing, ByVotes, Live, NoMain
<1>5. CASE Toggle \/ Dismiss
  <2>1. /\ Len(rows') = Len(rows) /\ DOMAIN rows' = DOMAIN rows
        /\ \A i \in DOMAIN rows : Final(rows[i].status) => rows'[i] = rows[i]
    BY <1>5 DEF Toggle, Dismiss, SameFinal
  <2>2. Closed'
    BY <1>1, <1>2, <2>1 DEF Closed
  <2>3. Full'
    <3>1. CASE Dismiss
      BY <3>1 DEF Dismiss, Full
    <3>2. CASE Toggle
      <4>1. main'.status # "completed" => main.status # "completed"
        BY <3>2 DEF Toggle, Final
      <4>2. ASSUME NEW i \in DOMAIN rows, rows[i].status # "terminated"
            PROVE  rows'[i].status # "terminated"
        <5>1. CASE Final(rows[i].status)
          BY <2>1, <4>2, <5>1
        <5>2. CASE ~Final(rows[i].status)
          BY <3>2, <5>2 DEF Toggle, Final
        <5>3. QED
          BY <5>1, <5>2
      <4>3. QED
        BY <2>1, <3>2, <4>1, <4>2 DEF Toggle, Full
    <3>3. QED
      BY <1>5, <3>1, <3>2
  <2>4. Endorsing'
    <3>1. /\ Count(rows, IsApproved) \in Nat /\ Count(rows', IsApproved) \in Nat
          /\ Count(rows, IsApproved) <= Count(rows', IsApproved)
      BY <1>1, <2>1, CountGrows
    <3>2. Count(rows', IsApproved) <= Len(rows') /\ Len(rows) \in Nat
      BY <1>1, NotMoreThanRows
    <3>3. QED
      BY <1>1, <1>2, <2>1, <3>1, <3>2, OutcomeMonotone DEF Endorsing
  <2>5. QED
    BY <2>2, <2>3, <2>4
<1>6. QED
  BY <1>3, <1>4, <1>5

(* A vote. *)
LEMMA ParentalVote ==
  ASSUME TInv, TInv', MainEnds, Answers(rows), Closed, Full, Endorsing, rule' = rule, mode' = mode,
         NEW p \in Caller, NEW i \in DOMAIN rows, NEW vote \in {"approved", "rejected"},
         CompleteSubTask(p, i, vote)
  PROVE  Closed' /\ Full' /\ Endorsing'
<1> DEFINE cast == Voted(rows, i, vote)
<1>1. /\ rows \in Seq(Row) /\ rows' \in Seq(Row) /\ ValidRule(rule)
      /\ ByVotes /\ Live /\ inst' = inst
      /\ rows[i].status = "active" /\ ~Final(rows[i].status)
      /\ vote \in Vote
  BY DEF TInv, TypeOK, CompleteSubTask, Completable, Live, Final, Vote
<1>2. \/ /\ Closes(cast, vote)
         /\ main' = [status |-> "completed", vote |-> ClosingVote(cast, vote)]
         /\ rows' = CancelActive(cast)
      \/ /\ ~Closes(cast, vote)
         /\ rows' = cast
         /\ main' = main
  BY DEF CompleteSubTask
<1>3. SameFinal(rows, rows') /\ SameFinal(rows, cast)
  <2>1. rows' = cast \/ rows' = CancelActive(cast)
    BY <1>2
  <2>2. QED
    BY <1>1, <2>1, AnsweredRows
<1>4. /\ cast \in Seq(Row) /\ Len(cast) = Len(rows) /\ DOMAIN cast = DOMAIN rows
      /\ cast[i].status = "completed"
      /\ \A j \in DOMAIN rows \ {i} : cast[j] = rows[j]
  <2>1. cast[i] = [who |-> rows[i].who, status |-> "completed", vote |-> vote]
    BY <1>1, CastRows
  <2>2. QED
    BY <1>1, <2>1, CastRows
<1>5. rows # <<>> /\ rows' # <<>> /\ Len(rows') = Len(rows)
  BY <1>1, <1>3 DEF SameFinal
<1>6. /\ Count(cast, IsCompleted) = Count(cast, IsApproved) + Count(cast, IsRejected)
      /\ Count(cast, IsVoter) =
           Count(cast, IsApproved) + Count(cast, IsRejected) + Count(cast, IsOpen)
      /\ Count(cast, IsApproved) \in Nat
      /\ Count(cast, IsRejected) \in Nat
      /\ Count(cast, IsOpen) \in Nat
  <2>1. /\ rows \in Seq(Row) /\ Answers(rows) /\ i \in DOMAIN rows /\ rows[i].status = "active"
        /\ vote \in {"approved", "rejected"}
    BY <1>1
  <2>2. cast = Voted(rows, i, vote)
    OBVIOUS
  <2> HIDE DEF cast
  <2>3. QED
    BY <2>1, <2>2, CastCounts, ZenonT(60)
<1> HIDE DEF cast
<1>7. CASE main.status = "completed"
  <2>1. main' = main /\ rows' = cast
    BY <1>2, <1>7 DEF Closes, MainOpen
  <2>2. /\ Count(rows, IsApproved) \in Nat /\ Count(rows', IsApproved) \in Nat
        /\ Count(rows, IsApproved) <= Count(rows', IsApproved)
    BY <1>1, <1>3, CountGrows DEF SameFinal
  <2>3. Count(rows', IsApproved) <= Len(rows') /\ Len(rows) \in Nat
    BY <1>1, NotMoreThanRows
  <2>4. Endorsing'
    BY <1>1, <1>5, <2>1, <2>2, <2>3, OutcomeMonotone DEF Endorsing
  <2>5. QED
    BY <1>5, <1>7, <2>1, <2>4 DEF Closed, Full
<1>8. CASE main.status # "completed"
  <2>1. \A j \in DOMAIN cast : cast[j].status # "terminated"
    BY <1>1, <1>4, <1>8 DEF Full
  <2>2. CASE ~Closes(cast, vote)
    <3>1. rows' = cast /\ main' = main
      BY <1>2, <2>2
    <3>2. QED
      BY <1>8, <2>1, <3>1 DEF Closed, Full, Endorsing
  <2>3. CASE Closes(cast, vote)
    <3>1. /\ main'.status = "completed" /\ main'.vote = ClosingVote(cast, vote)
          /\ rows' = CancelActive(cast)
      BY <1>2, <2>3
    <3>2. Closed' /\ Full'
      BY <1>5, <3>1 DEF Closed, Full, ClosingVote
    <3>3. ASSUME main'.vote = "approved" PROVE Outcome(rule, Len(rows), Count(rows', IsApproved))
      <4>1. ~(rule.type = "all" /\ vote = "rejected") /\ Favours(cast) /\ Decided(cast)
        BY <2>3, <3>1, <3>3 DEF ClosingVote, Closes
      <4>2. PICK y \in Nat, n \in Nat, l \in Nat :
              /\ y = Count(cast, IsApproved) /\ n = Count(cast, IsRejected)
              /\ l = Count(cast, IsOpen)
        BY <1>6
      <4>3. Count(cast, IsCompleted) = y + n /\ Count(cast, IsVoter) = y + n + l
        BY <1>6, <4>2
      <4>4. Outcome(rule, y + n + l, y)
        <5>1. Decides(rule, y + n + l, y + n, y) /\ Approves(rule, y + n + l, y + n, y)
          BY <4>1, <4>2, <4>3 DEF Favours, Decided
        <5>2. PICK t : t = y + n + l
          OBVIOUS
        <5>3. Decides(rule, t, y + n, y) /\ Approves(rule, t, y + n, y)
          BY <5>1, <5>2
        <5>4. ValidRule(rule)
          BY <1>1
        <5>5. Outcome(rule, t, y)
          BY <5>2, <5>3, <5>4, DecisionIsSound
        <5>6. QED
          BY <5>2, <5>5
      <4>5. y + n + l = Len(rows)
        BY <1>4, <2>1, <4>3, FullElectorate
      <4>6. Count(rows', IsApproved) = y
        BY <1>4, <3>1, <4>2, CancelCounts
      <4>7. QED
        BY <4>4, <4>5, <4>6
    <3>4. Endorsing'
      BY <1>5, <3>3 DEF Endorsing
    <3>5. QED
      BY <3>2, <3>4
  <2>4. QED
    BY <2>2, <2>3
<1>9. QED
  BY <1>7, <1>8

LEMMA ParentalStep ==
  ASSUME TInv, TInv', MainEnds, Answers(rows), Parental, [Next]_vars
  PROVE  Parental'
<1>1. mode' = mode /\ rule' = rule
  BY ModeFixed, RuleFixed
<1>2. Unparented'
  BY <1>1, UnparentedStep DEF Parental
<1>3. CASE ~ByVotes
  <2>1. main' = NoMain
    BY <1>1, <1>2, <1>3 DEF Unparented, ByVotes
  <2>2. QED
    BY <1>1, <1>2, <1>3, <2>1 DEF Parental, Closed, Full, Endorsing, NoMain, ByVotes
<1>4. CASE ByVotes
  BY <1>1, <1>2, <1>4, VoteSteps, ParentalKept, ParentalVote DEF Parental
<1>5. QED
  BY <1>3, <1>4

-----------------------------------------------------------------------------
(* Module Ballot seen from here. *)

LEMMA SameRule ==
  ASSUME NEW r, NEW t, NEW c, NEW a
  PROVE  /\ Votes!ValidRule(r) <=> ValidRule(r)
         /\ Votes!Decides(r, t, c, a) <=> Decides(r, t, c, a)
         /\ Votes!Approves(r, t, c, a) <=> Approves(r, t, c, a)
<1>1. Votes!Required(r, t) = Required(r, t)
  BY DEF Votes!Required, Votes!AtLeastOne, Votes!Ceil, Required, AtLeastOne, Ceil
<1>2. Votes!ValidRule(r) <=> ValidRule(r)
  BY DEF Votes!ValidRule, Votes!RuleType, ValidRule, RuleType
<1>3. Votes!Decides(r, t, c, a) <=> Decides(r, t, c, a)
  BY <1>1 DEF Votes!Decides, Decides
<1>4. Votes!Approves(r, t, c, a) <=> Approves(r, t, c, a)
  BY <1>1 DEF Votes!Approves, Approves
<1>5. QED
  BY <1>2, <1>3, <1>4

(* What the ballot's variables are while the instance runs. *)
LEMMA Tally ==
  ASSUME ByVotes, rows # <<>>
  PROVE  /\ Yes = Count(rows, IsApproved)
         /\ No = Count(rows, IsRejected)
         /\ Live => Left = Count(rows, IsOpen)
BY DEF Yes, No, Left, Count, IsOpen

LEMMA VoteIsCast ==
  ASSUME TInv, MainEnds, Answers(rows), Closed, rule' = rule, mode' = mode,
         NEW p \in Caller, NEW i \in DOMAIN rows, NEW vote \in {"approved", "rejected"},
         CompleteSubTask(p, i, vote)
  PROVE  Votes!BNext
<1> DEFINE cast == Voted(rows, i, vote)
           approve == vote = "approved"
<1>1. /\ rows \in Seq(Row) /\ ValidRule(rule) /\ vote \in Vote
      /\ ByVotes /\ ByVotes' /\ Live /\ Live' /\ rows[i].status = "active"
      /\ rows # <<>>
  BY DEF TInv, TypeOK, CompleteSubTask, Completable, Live, Vote, ByVotes
<1>2. \/ /\ Closes(cast, vote)
         /\ main' = [status |-> "completed", vote |-> ClosingVote(cast, vote)]
         /\ rows' = CancelActive(cast)
      \/ /\ ~Closes(cast, vote)
         /\ rows' = cast
         /\ main' = main
  BY DEF CompleteSubTask
<1>3. cast \in Seq(Row) /\ Len(cast) = Len(rows) /\ cast # <<>>
  <2>1. rows \in Seq(Row) /\ vote \in Vote
    BY <1>1
  <2>2. cast \in Seq(Row) /\ Len(cast) = Len(rows)
    BY <2>1, CastRows, Zenon
  <2>3. QED
    BY <1>1, <2>2
<1>4. rows' # <<>>
  <2>1. Len(CancelActive(cast)) = Len(cast) /\ CancelActive(cast) \in Seq(Row)
    BY <1>3, CancelledRows
  <2>2. QED
    BY <1>1, <1>2, <1>3, <2>1
<1>5. PICK y \in Nat, n \in Nat, l \in Nat :
        /\ y = Count(cast, IsApproved) /\ n = Count(cast, IsRejected)
        /\ l = Count(cast, IsOpen)
        /\ Count(cast, IsCompleted) = y + n
        /\ Count(cast, IsVoter) = y + n + l
        /\ y = IF vote = "approved" THEN Yes + 1 ELSE Yes
        /\ n = IF vote = "approved" THEN No ELSE No + 1
        /\ l = Left - 1
        /\ Left \in Nat
  <2>1. /\ Yes = Count(rows, IsApproved)
        /\ No = Count(rows, IsRejected)
        /\ Left = Count(rows, IsOpen)
    BY <1>1, Tally
  <2>2. /\ Count(cast, IsApproved) =
             IF vote = "approved" THEN Count(rows, IsApproved) + 1 ELSE Count(rows, IsApproved)
        /\ Count(cast, IsRejected) =
             IF vote = "approved" THEN Count(rows, IsRejected) ELSE Count(rows, IsRejected) + 1
        /\ Count(cast, IsOpen) = Count(rows, IsOpen) - 1
        /\ Count(cast, IsCompleted) = Count(cast, IsApproved) + Count(cast, IsRejected)
        /\ Count(cast, IsVoter) =
             Count(cast, IsApproved) + Count(cast, IsRejected) + Count(cast, IsOpen)
        /\ Count(cast, IsApproved) \in Nat
        /\ Count(cast, IsRejected) \in Nat
        /\ Count(cast, IsOpen) \in Nat
        /\ Count(rows, IsOpen) \in Nat
    <3>1. PICK c : c = cast
      OBVIOUS
    <3> HIDE DEF cast
    <3>2. c = Voted(rows, i, vote)
      BY <3>1 DEF cast
    <3>a. /\ rows \in Seq(Row) /\ Answers(rows) /\ i \in DOMAIN rows
          /\ rows[i].status = "active" /\ vote \in {"approved", "rejected"}
      BY <1>1
    <3>3. /\ Count(c, IsOpen) = Count(rows, IsOpen) - 1
          /\ Count(c, IsCompleted) = Count(c, IsApproved) + Count(c, IsRejected)
          /\ Count(c, IsVoter) = Count(c, IsApproved) + Count(c, IsRejected) + Count(c, IsOpen)
          /\ Count(c, IsApproved) \in Nat
          /\ Count(c, IsRejected) \in Nat
          /\ Count(c, IsOpen) \in Nat
          /\ Count(rows, IsOpen) \in Nat
      BY <3>a, <3>2, CastCounts, ZenonT(60)
    <3>4. Count(c, IsApproved) =
            IF vote = "approved" THEN Count(rows, IsApproved) + 1 ELSE Count(rows, IsApproved)
      BY <3>a, <3>2, CastCounts, ZenonT(60)
    <3>5. Count(c, IsRejected) =
            IF vote = "approved" THEN Count(rows, IsRejected) ELSE Count(rows, IsRejected) + 1
      <4>1. IsOpen(rows[i])
        BY <1>1 DEF IsOpen, Final
      <4>2. QED
        BY <1>1, <3>2, <4>1, OneVote
    <3>6. QED
      BY <3>1, <3>3, <3>4, <3>5
  <2> HIDE DEF cast
  <2>3. QED
    BY <2>1, <2>2
<1> HIDE DEF cast
<1>6. /\ Yes' = y /\ No' = n
      /\ Closes(cast, vote) => Left' \in 0..l
      /\ ~Closes(cast, vote) => Left' = l
  <2>1. /\ Yes' = Count(rows', IsApproved)
        /\ No' = Count(rows', IsRejected)
        /\ Left' = Count(rows', IsOpen)
    BY <1>1, <1>4 DEF Yes, No, Left, Count, IsOpen
  <2>2. /\ Count(CancelActive(cast), IsApproved) = y
        /\ Count(CancelActive(cast), IsRejected) = n
        /\ Count(CancelActive(cast), IsOpen) \in 0..l
    <3>1. /\ Count(CancelActive(cast), IsApproved) = Count(cast, IsApproved)
          /\ Count(CancelActive(cast), IsRejected) = Count(cast, IsRejected)
          /\ Count(CancelActive(cast), IsOpen) <= Count(cast, IsOpen)
          /\ Count(CancelActive(cast), IsOpen) \in Nat
      BY <1>3, CancelCounts
    <3>2. PICK o \in Nat : o = Count(CancelActive(cast), IsOpen) /\ o <= l
      BY <1>5, <3>1
    <3>3. o \in 0..l
      BY <3>2
    <3>4. QED
      BY <1>5, <3>1, <3>2, <3>3
  <2>3. QED
    BY <1>2, <1>5, <2>1, <2>2
<1>7. CASE MainOpen
  <2>1. Verdict = "open"
    BY <1>1, <1>7 DEF Verdict, MainOpen
  <2> DEFINE veto == rule.type = "all" /\ vote = "rejected"
  <2>2. /\ Closes(cast, vote) <=> (veto \/ Decides(rule, y + n + l, y + n, y))
        /\ ClosingVote(cast, vote) =
             IF veto \/ ~Approves(rule, y + n + l, y + n, y) THEN "rejected" ELSE "approved"
    BY <1>5, <1>7 DEF Closes, ClosingVote, Decided, Favours
  <2>3. Verdict' = IF Closes(cast, vote) THEN ClosingVote(cast, vote) ELSE "open"
    BY <1>1, <1>2, <1>7 DEF Verdict, MainOpen
  <2>4. Votes!BVetoes(approve) <=> veto
    BY DEF Votes!BVetoes
  <2>5. /\ y + n + l = Yes' + No' + Left - 1
        /\ y + n = Yes' + No' /\ l = Left - 1
    BY <1>5, <1>6
  <2>6. Votes!Settle(approve, Yes', No')
    <3> HIDE DEF veto
    <3> DEFINE total == Yes' + No' + Left - 1
               completed == Yes' + No'
               done == Votes!BVetoes(approve) \/ Votes!Decides(rule, total, completed, Yes')
               approves == ~Votes!BVetoes(approve) /\ Votes!Approves(rule, total, completed, Yes')
    <3>1. done <=> Closes(cast, vote)
      BY <1>6, <2>2, <2>4, <2>5, SameRule
    <3>2. ClosingVote(cast, vote) = IF approves THEN "approved" ELSE "rejected"
      BY <1>6, <2>2, <2>4, <2>5, SameRule
    <3>3. /\ Verdict' = IF done THEN (IF approves THEN "approved" ELSE "rejected") ELSE "open"
          /\ IF done THEN Left' \in 0..(Left - 1) ELSE Left' = Left - 1
      BY <1>6, <2>3, <2>5, <3>1, <3>2
    <3>4. QED
      BY <3>3 DEF Votes!Settle
  <2>7. Votes!Cast(approve)
    BY <1>5, <1>6, <2>1, <2>6 DEF Votes!Cast
  <2>8. QED
    BY <2>7 DEF Votes!BNext
<1>8. CASE ~MainOpen
  <2>1. ~Closes(cast, vote) /\ main' = main /\ Verdict \in {"approved", "rejected"}
    BY <1>2, <1>8 DEF Closes, MainOpen, Verdict, Closed
  <2>2. Verdict' = Verdict
    BY <1>1, <1>8, <2>1 DEF Verdict, MainOpen
  <2>3. Votes!CastLate(approve)
    BY <1>5, <1>6, <2>1, <2>2 DEF Votes!CastLate
  <2>4. QED
    BY <2>3 DEF Votes!BNext
<1>9. QED
  BY <1>7, <1>8

(* Every step is a step of the ballot, or none. *)
LEMMA BallotStep ==
  ASSUME TInv, TInv', MainEnds, Answers(rows), Parental, [Next]_vars
  PROVE  [Votes!BNext]_(Votes!bvars)
<1>1. /\ mode' = mode /\ rule' = rule /\ rows \in Seq(Row) /\ rows' \in Seq(Row)
      /\ Len(Order) \in Nat /\ Closed
  BY ModeFixed, RuleFixed, OrderAssumption DEF TInv, TypeOK, Parental
<1>2. ASSUME Yes' = Yes, No' = No, Left' = Left, Verdict' = Verdict
      PROVE  [Votes!BNext]_(Votes!bvars)
  BY <1>1, <1>2 DEF Votes!bvars
<1>3. CASE ~ByVotes
  <2>1. ~ByVotes' /\ main.status # "completed" /\ main'.status # "completed"
    BY <1>1, <1>3, UnparentedStep DEF ByVotes, Parental, Unparented, NoMain
  <2>2. Yes' = Yes /\ No' = No
    BY <1>3, <2>1 DEF Yes, No
  <2>3. Left' = Left
    BY <1>3, <2>1 DEF Left
  <2>4. Verdict' = Verdict
    BY <1>3, <2>1 DEF Verdict
  <2>5. QED
    BY <1>2, <2>2, <2>3, <2>4
<1>4. ASSUME ByVotes, Still PROVE [Votes!BNext]_(Votes!bvars)
  <2>1. Verdict' = Verdict
    BY <1>1, <1>4 DEF Still, Verdict, ByVotes, Live, NoMain
  <2>2. Yes' = Yes /\ No' = No /\ Left' = Left
    BY <1>1, <1>4 DEF Still, Yes, No, Left, ByVotes, Live
  <2>3. QED
    BY <1>2, <2>1, <2>2
<1>5. ASSUME ByVotes, Toggle PROVE [Votes!BNext]_(Votes!bvars)
  <2>1. Verdict' = Verdict
    BY <1>1, <1>5 DEF Toggle, Verdict, ByVotes, Final
  <2>2. CASE rows = <<>>
    <3>1. rows' = <<>>
      BY <1>1, <1>5, <2>2 DEF Toggle, SameFinal
    <3>2. Yes' = Yes /\ No' = No /\ Left' = Left
      BY <1>1, <1>5, <2>2, <3>1 DEF Toggle, Yes, No, Left, ByVotes
    <3>3. QED
      BY <1>2, <2>1, <3>2
  <2>3. CASE rows # <<>>
    <3>1. rows' # <<>>
      BY <1>1, <1>5, <2>3 DEF Toggle, SameFinal
    <3>2. /\ DOMAIN rows' = DOMAIN rows
          /\ \A i \in DOMAIN rows :
               /\ Final(rows[i].status) => rows'[i] = rows[i]
               /\ rows'[i].status = "completed" => Final(rows[i].status)
               /\ IsOpen(rows'[i]) <=> IsOpen(rows[i])
      BY <1>5 DEF Toggle, SameFinal, Final, IsOpen
    <3>3. /\ Count(rows', IsApproved) = Count(rows, IsApproved)
          /\ Count(rows', IsRejected) = Count(rows, IsRejected)
          /\ Count(rows', IsOpen) = Count(rows, IsOpen)
      BY <1>1, <3>2, FewerOpen
    <3>4. Yes' = Yes /\ No' = No /\ Left' = Left
      BY <1>1, <1>5, <2>3, <3>1, <3>3 DEF Toggle, Yes, No, Left, ByVotes, Count, IsOpen
    <3>5. QED
      BY <1>2, <2>1, <3>4
  <2>4. QED
    BY <2>2, <2>3
<1>6. ASSUME ByVotes, Dismiss PROVE Votes!Abandon
  <2>1. Left' = 0
    BY <1>1, <1>6 DEF Dismiss, Left, ByVotes
  <2>2. Verdict' = IF Verdict = "open" THEN "void" ELSE Verdict
    <3>1. CASE main.status = "completed"
      <4>1. main' = main /\ Verdict = main.vote /\ Verdict # "open"
        BY <1>1, <1>6, <3>1 DEF Dismiss, Verdict, Closed
      <4>2. QED
        BY <1>1, <1>6, <3>1, <4>1 DEF Verdict, ByVotes
    <3>2. CASE main.status # "completed"
      <4>1. main'.status # "completed"
        BY <1>6, <3>2 DEF Dismiss
      <4>2. QED
        BY <1>1, <1>6, <3>2, <4>1 DEF Dismiss, Verdict, ByVotes
    <3>3. QED
      BY <3>1, <3>2
  <2>3. Yes' = Yes /\ No' = No
    <3>1. /\ DOMAIN rows' = DOMAIN rows
          /\ \A i \in DOMAIN rows :
               /\ Final(rows[i].status) => rows'[i] = rows[i]
               /\ rows'[i].status = "completed" => Final(rows[i].status)
               /\ IsOpen(rows'[i]) => IsOpen(rows[i])
      BY <1>6 DEF Dismiss, SameFinal, Final, IsOpen
    <3>2. /\ Count(rows', IsApproved) = Count(rows, IsApproved)
          /\ Count(rows', IsRejected) = Count(rows, IsRejected)
      BY <1>1, <3>1, FewerOpen
    <3>3. QED
      BY <1>1, <1>6, <3>2 DEF Yes, No, ByVotes
  <2>4. QED
    BY <1>1, <2>1, <2>2, <2>3 DEF Votes!Abandon
<1>7. ASSUME ByVotes, HandOut PROVE [Votes!BNext]_(Votes!bvars)
  <2>1. Verdict' = Verdict
    BY <1>1, <1>7 DEF HandOut, Verdict, ByVotes
  <2>2. rows = <<>> /\ rows' # <<>> /\ Live /\ Live'
    BY <1>1, <1>7, OrderAssumption DEF HandOut
  <2>3. /\ {i \in DOMAIN rows : IsApproved(rows[i])} = {}
        /\ {i \in DOMAIN rows' : IsApproved(rows'[i])} = {}
        /\ {i \in DOMAIN rows : IsRejected(rows[i])} = {}
        /\ {i \in DOMAIN rows' : IsRejected(rows'[i])} = {}
    BY <1>7, <2>2 DEF HandOut, IsApproved, IsRejected
  <2>4. {i \in DOMAIN rows' : ~Final(rows'[i].status)} = DOMAIN rows'
    BY <1>7 DEF HandOut, Final
  <2>5. Cardinality(DOMAIN rows') = Len(Order)
    BY <1>1, <1>7, RowCount DEF HandOut
  <2>6. Yes' = Yes /\ No' = No
    BY <1>1, <1>7, <2>3 DEF Yes, No, ByVotes, Count
  <2>7. Left' = Left
    BY <1>1, <1>7, <2>2, <2>4, <2>5 DEF Left, ByVotes
  <2>8. QED
    BY <1>2, <2>1, <2>6, <2>7
<1>8. ASSUME NEW p \in Caller, NEW i \in DOMAIN rows, NEW vote \in {"approved", "rejected"},
             CompleteSubTask(p, i, vote)
      PROVE  Votes!BNext
  BY <1>1, <1>8, VoteIsCast
<1>9. Votes!Abandon => Votes!BNext
  BY DEF Votes!BNext
<1>10. QED
  BY <1>3, <1>4, <1>5, <1>6, <1>7, <1>8, <1>9, VoteSteps

-----------------------------------------------------------------------------
(* What a drive concludes. *)

Judging == \A p \in Caller : (pc[p] = "judge" /\ ~ByVotes) => seen.rows # <<>>

(* How a drive comes to judge, to pass and to reject. *)
LEMMA Arrives ==
  ASSUME TInv, [Next]_vars, NEW p \in Caller
  PROVE  /\ pc'[p] = "judge" => \/ pc[p] = "judge" /\ seen' = seen
                                \/ /\ ~NoTasks /\ seen' = [rows |-> rows, main |-> main]
         /\ pc'[p] = "pass" => \/ pc[p] = "pass"
                               \/ Judgement = "pass" /\ pc[p] = "judge" /\ rows' = rows /\ main' = main
         /\ pc'[p] = "reject" => \/ pc[p] = "reject"
                                 \/ Judgement = "reject" /\ pc[p] = "judge" /\ rows' = rows
<1> USE DEF InGate
<1>1. pc \in [Caller -> {"idle", "drive"} \cup InGate] /\ Occupant
  BY DEF TInv, TypeOK
<1> DEFINE Quiet == /\ pc'[p] \in {"judge", "pass", "reject"} => pc'[p] = pc[p]
                    /\ pc'[p] = "judge" => seen' = seen
<1>2. ASSUME NEW q \in Caller, GetExistingTasks(q)
      PROVE  \/ Quiet
             \/ pc'[p] = "create"
             \/ pc'[p] = "judge" /\ ~NoTasks /\ seen' = [rows |-> rows, main |-> main]
  <2>1. /\ pc[q] = "node"
        /\ \/ pc' = [pc EXCEPT ![q] = "create"]
           \/ /\ pc' = [pc EXCEPT ![q] = "judge"] /\ ~NoTasks
              /\ seen' = [rows |-> rows, main |-> main]
    BY <1>2 DEF GetExistingTasks, Goto
  <2>2. CASE p = q
    BY <1>1, <2>1, <2>2
  <2>3. CASE p # q
    BY <1>1, <2>1, <2>3 DEF Occupant
  <2>4. QED
    BY <2>2, <2>3
<1>3. ASSUME NEW q \in Caller, Judge(q)
      PROVE  \/ Quiet
             \/ p = q /\ pc[p] = "judge" /\ pc'[p] = Judgement /\ Judgement # "judge"
                /\ rows' = rows /\ main' = main
  <2>1. /\ pc[q] = "judge" /\ pc' = [pc EXCEPT ![q] = Judgement]
        /\ rows' = rows /\ main' = main /\ Judgement # "judge"
    BY <1>3 DEF Judge, Goto, Judgement
  <2>2. CASE p = q
    BY <1>1, <2>1, <2>2
  <2>3. CASE p # q
    BY <1>1, <2>1, <2>3 DEF Occupant
  <2>4. QED
    BY <2>2, <2>3
<1>4. ASSUME NEW q \in Caller,
             \/ ExecuteNext(q) \/ CreateRefused(q) \/ CreateFirst(q) \/ CreateCandidate(q)
             \/ CreateMain(q) \/ CreateSubTasks(q) \/ Advance(q) \/ AppendTask(q)
             \/ TellSuccess(q) \/ EndInstance(q)
      PROVE  Quiet
  <2>1. \/ pc' = pc
        \/ /\ pc[q] \in InGate
           /\ \E label \in {"idle", "create", "append", "fail"} : pc' = [pc EXCEPT ![q] = label]
        \/ /\ seen' = seen
           /\ \E label \in {"idle", "node"} : pc' = [pc EXCEPT ![q] = label]
    BY <1>4 DEF ExecuteNext, CreateRefused, CreateFirst, CreateCandidate, CreateMain,
       CreateSubTasks, Advance, AppendTask, TellSuccess, EndInstance, Goto
  <2>2. pc' = pc => seen' = seen
    BY <1>1, <1>4 DEF ExecuteNext, CreateRefused, CreateFirst, CreateCandidate, CreateMain,
       CreateSubTasks, Advance, AppendTask, TellSuccess, EndInstance, Goto
  <2>3. QED
    BY <1>1, <2>1, <2>2 DEF Occupant
<1>5. ASSUME NEW q \in Caller, Answer(q) \/ ReDrive(q) \/ Restore(q)
      PROVE  Quiet
  BY <1>1, <1>5 DEF Answer, CompleteTask, CompleteSubTask, ReDrive, Restore, Goto
<1>6. CASE Manage \/ Crash \/ UNCHANGED vars
  BY <1>6 DEF Manage, FinishNext, TerminateProcessInstance, SuspendTask, ActivateTask,
     SuspendProcessInstance, ActivateProcessInstance, Crash, vars
<1>7. QED
  BY <1>2, <1>3, <1>4, <1>5, <1>6 DEF Next, Drive

LEMMA JudgingStep ==
  ASSUME TInv, Unparented, Judging, [Next]_vars, mode' = mode
  PROVE  Judging'
<1> SUFFICES ASSUME NEW p \in Caller, pc'[p] = "judge", ~ByVotes PROVE seen'.rows # <<>>
  BY DEF Judging, ByVotes
<1>1. CASE pc[p] = "judge" /\ seen' = seen
  BY <1>1 DEF Judging
<1>2. CASE ~NoTasks /\ seen' = [rows |-> rows, main |-> main]
  BY <1>2 DEF NoTasks, Unparented
<1>3. QED
  BY <1>1, <1>2, Arrives

(* What a drive read is on record still, and answered as it was. *)
LEMMA SeenCounts ==
  ASSUME TInv, SeenPast, Answers(rows)
  PROVE  /\ seen.rows \in Seq(Row) /\ Answers(seen.rows)
         /\ Count(seen.rows, IsApproved) <= Count(rows, IsApproved)
         /\ Count(rows, IsApproved) \in Nat
         /\ Count(seen.rows, IsRejected) > 0 => Count(rows, IsRejected) > 0
<1>1. seen.rows \in Seq(Row) /\ rows \in Seq(Row)
  BY DEF TInv, TypeOK
<1>2. \A i \in DOMAIN seen.rows :
        /\ i \in DOMAIN rows
        /\ Final(seen.rows[i].status) => rows[i] = seen.rows[i]
  BY DEF SeenPast
<1>3. Answers(seen.rows)
  BY <1>2 DEF Answers, Final
<1>4. ASSUME NEW i \in DOMAIN seen.rows, IsRejected(seen.rows[i])
      PROVE  Count(rows, IsRejected) > 0
  <2>1. i \in DOMAIN rows /\ IsRejected(rows[i])
    BY <1>2, <1>4 DEF IsRejected, Final
  <2>2. QED
    BY <1>1, <2>1, CountSome
<1>5. Count(seen.rows, IsRejected) > 0 => \E i \in DOMAIN seen.rows : IsRejected(seen.rows[i])
  BY <1>1, CountSome
<1>6. QED
  BY <1>1, <1>2, <1>3, <1>4, <1>5, CountGrows

LEMMA PassIsAllowed ==
  ASSUME TInv, SeenPast, Assigned, Answers(rows), Parental, Judgement = "pass"
  PROVE  Allowed
<1>1. /\ mode \in ModeType /\ Len(Order) \in Nat
      /\ Count(seen.rows, IsApproved) \in Nat /\ Count(seen.rows, IsRejected) \in Nat
  BY OrderAssumption, SeenCounts, CountsAreNumbers DEF TInv, TypeOK
<1>2. CASE ByVotes
  <2>1. IsApproved(main)
    BY <1>2, JudgedFairly DEF Endorsed, ByVotes
  <2>2. QED
    BY <1>2, <2>1 DEF Allowed, Parental, Endorsing, IsApproved, ByVotes
<1>3. CASE ~ByVotes
  <2>1. AllCompleted /\ Passed /\ ~SomeRejected /\ TopLevel = seen.rows
    BY <1>3 DEF Judgement, NoVoters, Passed, TopLevel, ByVotes
  <2>2. Count(seen.rows, IsApproved) > 0 /\ ~(Count(seen.rows, IsRejected) > 0)
    BY <2>1 DEF Passed, SomeRejected
  <2>3. CASE mode = "sequential"
    <3>1. Count(seen.rows, IsCompleted) >= Len(Order)
      BY <2>1, <2>3 DEF AllCompleted
    <3>2. Count(seen.rows, IsCompleted) =
            Count(seen.rows, IsApproved) + Count(seen.rows, IsRejected)
      BY SeenCounts, Electorate
    <3>3. Count(seen.rows, IsApproved) >= Len(Order)
      BY <1>1, <2>2, <3>1, <3>2
    <3>4. Count(rows, IsApproved) >= Len(Order)
      BY <1>1, <3>3, SeenCounts
    <3>5. QED
      BY <2>3, <3>4 DEF Allowed, ByVotes
  <2>4. CASE mode # "sequential"
    <3>1. Count(rows, IsApproved) > 0
      BY <1>1, <2>2, SeenCounts
    <3>2. QED
      BY <1>3, <2>4, <3>1 DEF Allowed
  <2>5. QED
    BY <2>3, <2>4
<1>4. QED
  BY <1>2, <1>3

LEMMA RejectIsAnswered ==
  ASSUME TInv, SeenPast, Answers(rows), ~ByVotes, seen.rows # <<>>, Judgement = "reject"
  PROVE  Count(rows, IsRejected) > 0
<1>1. /\ mode \in ModeType /\ Len(Order) \in Nat /\ Len(Order) > 0
      /\ seen.rows \in Seq(Row) /\ Len(seen.rows) \in Nat /\ Len(seen.rows) > 0
  BY OrderAssumption DEF TInv, TypeOK
<1>2. /\ Count(seen.rows, IsApproved) \in Nat /\ Count(seen.rows, IsRejected) \in Nat
      /\ Count(seen.rows, IsCompleted) =
           Count(seen.rows, IsApproved) + Count(seen.rows, IsRejected)
  BY SeenCounts, CountsAreNumbers, Electorate
<1>3. TopLevel = seen.rows
  BY DEF TopLevel
<1>4. SomeRejected \/ (AllCompleted /\ ~Passed)
  BY DEF Judgement, NoVoters
<1>5. CASE SomeRejected
  BY <1>3, <1>5, SeenCounts DEF SomeRejected
<1>6. CASE ~SomeRejected
  <2>1. ~(Count(seen.rows, IsApproved) > 0)
    BY <1>3, <1>4, <1>6 DEF Passed
  <2>2. Count(seen.rows, IsCompleted) > 0
    <3>1. AllCompleted
      BY <1>4, <1>6
    <3>2. CASE mode = "single"
      BY <1>1, <3>1, <3>2 DEF AllCompleted
    <3>3. CASE mode = "any"
      BY <3>1, <3>3 DEF AllCompleted
    <3>4. CASE mode = "sequential"
      <4>1. Count(seen.rows, IsCompleted) >= Len(Order)
        BY <3>1, <3>4 DEF AllCompleted
      <4>2. QED
        BY <1>1, <1>2, <4>1
    <3>5. QED
      BY <1>1, <3>2, <3>3, <3>4 DEF ModeType, ByVotes
  <2>3. Count(seen.rows, IsRejected) > 0
    BY <1>2, <2>1, <2>2
  <2>4. QED
    BY <2>3, SeenCounts
<1>7. QED
  BY <1>5, <1>6

LEMMA NoBypassStep ==
  ASSUME TInv, TInv', SeenPast, Assigned, Answers(rows), Parental, Parental', Kept, NoBypass,
         [Next]_vars
  PROVE  NoBypass'
<1> SUFFICES ASSUME NEW p \in Caller, pc'[p] = "pass" PROVE Allowed'
  BY DEF NoBypass
<1>1. /\ mode' = mode /\ rows \in Seq(Row) /\ rows' \in Seq(Row)
      /\ Len(Order) \in Nat
  BY ModeFixed, OrderAssumption DEF TInv, TypeOK
<1>2. Allowed
  BY Arrives, PassIsAllowed DEF NoBypass
<1>3. /\ Count(rows, IsApproved) \in Nat /\ Count(rows', IsApproved) \in Nat
      /\ Count(rows, IsApproved) <= Count(rows', IsApproved)
  BY <1>1, CountGrows DEF Kept, RowsKept
<1>4. CASE ByVotes
  <2>1. main.status = "completed" /\ main.vote = "approved"
    BY <1>2, <1>4 DEF Allowed, ByVotes
  <2>2. main' = main
    BY <2>1 DEF Kept, MainKept, Final
  <2>3. QED
    BY <1>1, <1>4, <2>1, <2>2 DEF Allowed, Parental, Endorsing, ByVotes
<1>5. CASE ~ByVotes
  BY <1>1, <1>2, <1>3, <1>5 DEF Allowed, ByVotes
<1>6. QED
  BY <1>4, <1>5

LEMMA RejectedStep ==
  ASSUME TInv, TInv', SeenPast, Answers(rows), Judging, Kept, RejectedByAnswer, [Next]_vars
  PROVE  RejectedByAnswer'
<1>1. mode' = mode /\ rows \in Seq(Row) /\ rows' \in Seq(Row)
  BY ModeFixed DEF TInv, TypeOK
<1> SUFFICES ASSUME NEW p \in Caller, pc'[p] = "reject", ~ByVotes
             PROVE  Count(rows', IsRejected) > 0
  BY <1>1 DEF RejectedByAnswer, ByVotes
<1>2. Count(rows, IsRejected) > 0
  BY Arrives, RejectIsAnswered DEF RejectedByAnswer, Judging
<1>3. PICK i \in DOMAIN rows : IsRejected(rows[i])
  BY <1>1, <1>2, CountSome
<1>4. i \in DOMAIN rows' /\ IsRejected(rows'[i])
  BY <1>3 DEF Kept, RowsKept, IsRejected, Final
<1>5. QED
  BY <1>1, <1>4, CountSome

-----------------------------------------------------------------------------
VInv == /\ NInv
        /\ Answers(rows)
        /\ Parental
        /\ Judging
        /\ NoBypass
        /\ RejectedByAnswer

LEMMA InitVInv == Init => VInv
<1> SUFFICES ASSUME Init PROVE VInv
  OBVIOUS
<1>1. NInv
  BY InitNInv
<1>2. Answers(rows) /\ Parental /\ Judging /\ NoBypass /\ RejectedByAnswer
  BY DEF Init, NoMain, Answers, Parental, Unparented, Closed, Full, Endorsing, Judging,
     NoBypass, RejectedByAnswer
<1>3. QED
  BY <1>1, <1>2 DEF VInv

LEMMA NextVInv == VInv /\ [Next]_vars => VInv'
<1> SUFFICES ASSUME VInv, [Next]_vars PROVE VInv'
  OBVIOUS
<1>1. NInv' /\ Kept /\ mode' = mode
  BY NextNInv, NextKeeps, ModeFixed DEF VInv, NInv
<1>2. Answers(rows)'
  BY AnswersStep DEF VInv, NInv, Answers
<1>3. Parental'
  BY <1>1, ParentalStep DEF VInv, NInv
<1>4. Judging'
  BY <1>1, JudgingStep DEF VInv, NInv, Parental
<1>5. NoBypass' /\ RejectedByAnswer'
  BY <1>1, <1>3, NoBypassStep, RejectedStep DEF VInv, NInv
<1>6. QED
  BY <1>1, <1>2, <1>3, <1>4, <1>5 DEF VInv

LEMMA SpecVInv == Spec => []VInv
BY InitVInv, NextVInv, PTL DEF Spec

(* The node is left by its success edge only on the approvals its mode     *)
(* asks for, on record at that moment, although a drive judges tasks it    *)
(* read earlier (UserTaskNode.OnMsg).                                      *)
THEOREM PassesAreEarned == Spec => []NoBypass
<1>1. VInv => NoBypass
  BY DEF VInv
<1>2. QED
  BY <1>1, SpecVInv, PTL

(* A node that decides by its own tasks ends the instance only on a        *)
(* rejection that is on record.                                            *)
THEOREM RejectionsAreGiven == Spec => []RejectedByAnswer
<1>1. VInv => RejectedByAnswer
  BY DEF VInv
<1>2. QED
  BY <1>1, SpecVInv, PTL

(* Votes after the parent is closed start no drive                         *)
(* (completeWithApprovalInternal looks at the parent under the row lock).  *)
THEOREM LateVotesAreSilent == Spec => LateVoteSilent
<1> DEFINE Silent == (ByVotes /\ main.status = "completed") =>
                       \A p \in Caller : (pc[p] = "idle" /\ pc'[p] = "drive") => rows' = rows
<1>1. TInv /\ [Next]_vars => [Silent]_vars
  <2> SUFFICES ASSUME TInv, [Next]_vars, ByVotes, main.status = "completed",
                      NEW p \in Caller, pc[p] = "idle", pc'[p] = "drive"
               PROVE  rows' = rows
    OBVIOUS
  <2>1. pc \in [Caller -> {"idle", "drive"} \cup InGate]
    BY DEF TInv, TypeOK
  <2>2. ASSUME NEW q \in Caller, Answer(q) PROVE FALSE
    BY <2>1, <2>2 DEF Answer, CompleteTask, CompleteSubTask, Closes, MainOpen
  <2>3. ASSUME NEW q \in Caller, Drive(q) PROVE rows' = rows
    <3>1. \E label \in {"idle"} \cup InGate : pc' = pc \/ pc' = [pc EXCEPT ![q] = label]
      BY <2>3 DEF Drive, ExecuteNext, GetExistingTasks, CreateRefused, CreateFirst,
         CreateCandidate, CreateMain, CreateSubTasks, Judge, Judgement, Advance, AppendTask,
         TellSuccess, EndInstance, Goto, InGate
    <3>2. QED
      BY <2>1, <3>1 DEF InGate
  <2>4. QED
    BY <2>1, <2>2, <2>3 DEF Next, ReDrive, Restore, Manage, FinishNext, TerminateProcessInstance,
       SuspendTask, ActivateTask, SuspendProcessInstance, ActivateProcessInstance, Crash, vars
<1>2. QED
  BY <1>1, SpecTInv, PTL DEF Spec, LateVoteSilent

(* The sub-tasks and their parent are a ballot: what BallotProofs shows    *)
(* of ballots holds of every countersign and vote node.                    *)
THEOREM NodesAreBallots == Spec => ImplementsBallot
<1>1. Init => Votes!BInit
  <2> SUFFICES ASSUME Init PROVE Votes!BInit
    OBVIOUS
  <2>1. ValidRule(rule) /\ mode \in ModeType /\ Len(Order) \in Nat /\ Len(Order) > 0
    BY InitTInv, OrderAssumption DEF TInv, TypeOK
  <2>2. Votes!ValidRule(rule)
    BY <2>1, SameRule
  <2>3. Left \in Nat \ {0} /\ Verdict = "open"
    BY <2>1 DEF Init, Left, Verdict, Live, NoMain
  <2>4. Yes = 0 /\ No = 0
    <3>1. Count(rows, IsApproved) = 0 /\ Count(rows, IsRejected) = 0
      <4>1. rows \in Seq(Row) /\ rows = <<>>
        BY DEF Init
      <4>2. Count(rows, IsApproved) \in Nat /\ Count(rows, IsRejected) \in Nat
        BY <4>1, CountsAreNumbers
      <4>3. DOMAIN rows = {}
        BY <4>1
      <4>4. ~(Count(rows, IsApproved) > 0) /\ ~(Count(rows, IsRejected) > 0)
        BY <4>1, <4>3, CountSome
      <4>5. QED
        BY <4>2, <4>4
    <3>2. QED
      BY <3>1 DEF Yes, No
  <2>5. QED
    BY <2>2, <2>3, <2>4 DEF Votes!BInit
<1>2. VInv /\ VInv' /\ [Next]_vars => [Votes!BNext]_(Votes!bvars)
  BY BallotStep DEF VInv, NInv
<1>3. QED
  BY <1>1, <1>2, SpecVInv, PTL DEF Spec, ImplementsBallot, Votes!BSpec
=============================================================================
