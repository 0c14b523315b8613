--------------------------- MODULE TaskDeskProofs ---------------------------
(***************************************************************************)
(* The tasks of one instance on any chain of user tasks, for any people:   *)
(* an invariant of the rows, of the order of their answers and of the      *)
(* drive, what each operation does to it, and the theorems that follow.    *)
(* The definition of the instance is one that satisfies Apart; what is     *)
(* said of the detail page asks for Offered.  BallotProofs goes on from    *)
(* here with the votes.                                                    *)
(***************************************************************************)
EXTENDS TaskDesk, FiniteSetTheorems, SequenceTheorems, WellFoundedInduction, TLAPS

-----------------------------------------------------------------------------
(* Numbers in their order.                                                 *)

(* How many members of S are at most k. *)
Rank(S, k) == Cardinality({j \in S : j <= k})

(* A finite set of numbers has a least one. *)
LEMMA LeastOf ==
  ASSUME NEW S, S \subseteq Nat, IsFiniteSet(S), S # {}
  PROVE  \E m \in S : \A k \in S : m <= k
<1>. DEFINE HasLeast(T) == \E m \in T : \A k \in T : m <= k
            Bad == {T \in FiniteSubsetsOf(S) : T # {} /\ ~HasLeast(T)}
<1>1. Bad = {}
  <2>. SUFFICES ASSUME Bad # {} PROVE FALSE
    OBVIOUS
  <2>1. PICK T \in Bad : \A U \in Bad : ~(<<U, T>> \in StrictSubsetOrdering(S))
    <3>. HIDE DEF Bad
    <3>1. Bad \subseteq FiniteSubsetsOf(S)
      BY DEF Bad
    <3>2. QED
      BY <3>1, FS_StrictSubsetOrderingWellFounded, WFMin
  <2>2. T \subseteq S /\ IsFiniteSet(T) /\ T # {} /\ ~HasLeast(T)
    BY DEF FiniteSubsetsOf
  <2>3. PICK x : x \in T
    BY <2>2
  <2>. DEFINE U == T \ {x}
  <2>4. U # {}
    BY <2>2, <2>3
  <2>5. IsFiniteSet(U) /\ U \subseteq S
    BY <2>2, FS_RemoveElement
  <2>6. <<U, T>> \in StrictSubsetOrdering(S)
    BY <2>2, <2>3 DEF StrictSubsetOrdering
  <2>7. PICK m \in U : \A k \in U : m <= k
    BY <2>1, <2>4, <2>5, <2>6 DEF FiniteSubsetsOf
  <2>8. \E z \in {x, m} : \A k \in T : z <= k
    BY <2>2, <2>3, <2>7
  <2>9. QED
    BY <2>2, <2>3, <2>7, <2>8
<1>2. HasLeast(S)
  BY <1>1 DEF FiniteSubsetsOf
<1>3. QED
  BY <1>2

(* Places in an order: positive numbers up to some bound. *)
Places(S) == \E N \in Nat : S \subseteq 1..N

(* There are finitely many places. *)
LEMMA PlacesFinite ==
  ASSUME NEW S, Places(S)
  PROVE  IsFiniteSet(S) /\ Cardinality(S) \in Nat /\ \A j \in S : j \in Nat /\ 0 < j
<1>1. PICK N \in Nat : S \subseteq 1..N
  BY DEF Places
<1>2. IsFiniteSet(1..N)
  BY FS_Interval
<1>3. IsFiniteSet(S)
  BY <1>1, <1>2, FS_Subset
<1>4. \A j \in 1..N : j \in Nat /\ 0 < j
  OBVIOUS
<1>5. Cardinality(S) \in Nat
  BY <1>3, FS_CardinalityType
<1>6. QED
  BY <1>1, <1>3, <1>4, <1>5

(* A rank counts places, and so does not pass the number it is of. *)
LEMMA RankType ==
  ASSUME NEW S, Places(S), NEW k \in Nat
  PROVE  /\ Rank(S, k) \in Nat /\ Cardinality(S) \in Nat
         /\ Rank(S, k) <= k /\ Rank(S, k) <= Cardinality(S)
<1>. DEFINE T == {j \in S : j <= k}
<1>1. IsFiniteSet(1..k) /\ Cardinality(1..k) = k
  BY FS_Interval
<1>2. ASSUME NEW j \in S, j <= k PROVE j \in 1..k
  <2>1. j \in Nat /\ 1 <= j
    BY PlacesFinite
  <2>2. QED
    BY <1>2, <2>1
<1>3. T \subseteq 1..k /\ T \subseteq S
  BY <1>2
<1>4. IsFiniteSet(T) /\ Cardinality(T) <= k
  BY <1>1, <1>3, FS_Subset
<1>5. Cardinality(T) <= Cardinality(S)
  BY <1>3, FS_Subset, PlacesFinite
<1>6. Cardinality(T) \in Nat /\ Cardinality(S) \in Nat
  BY <1>4, FS_CardinalityType, PlacesFinite
<1>. HIDE DEF T
<1>7. Rank(S, k) = Cardinality(T)
  BY DEF Rank, T
<1>8. QED
  BY <1>4, <1>5, <1>6, <1>7

(* Above all places the rank is their number. *)
LEMMA RankAll ==
  ASSUME NEW S, NEW k, \A j \in S : j <= k
  PROVE  Rank(S, k) = Cardinality(S)
<1>1. {j \in S : j <= k} = S
  OBVIOUS
<1>2. QED
  BY <1>1 DEF Rank

(* The rank is monotone. *)
LEMMA RankGrows ==
  ASSUME NEW S, Places(S), NEW a \in Nat, NEW b \in Nat, a <= b
  PROVE  Rank(S, a) <= Rank(S, b)
<1>. DEFINE A == {j \in S : j <= a}
            B == {j \in S : j <= b}
<1>1. IsFiniteSet(B)
  BY FS_Subset, PlacesFinite
<1>2. ASSUME NEW j \in S, j <= a PROVE j <= b
  <2>1. j \in Nat
    BY PlacesFinite
  <2>2. QED
    BY <1>2, <2>1
<1>3. A \subseteq B
  BY <1>2
<1>4. Cardinality(A) <= Cardinality(B)
  BY <1>1, <1>3, FS_Subset
<1>5. QED
  BY <1>4 DEF Rank

(* It grows by one at each place. *)
LEMMA RankNext ==
  ASSUME NEW S, Places(S), NEW a \in Nat
  PROVE  Rank(S, a + 1) = IF a + 1 \in S THEN Rank(S, a) + 1 ELSE Rank(S, a)
<1>. DEFINE A == {j \in S : j <= a}
            B == {j \in S : j <= a + 1}
<1>1. IsFiniteSet(A)
  BY FS_Subset, PlacesFinite
<1>2. ASSUME NEW j \in S PROVE j <= a + 1 <=> j <= a \/ j = a + 1
  <2>1. j \in Nat
    BY PlacesFinite
  <2>2. QED
    BY <2>1
<1>3. ~(a + 1 <= a)
  OBVIOUS
<1>4. CASE a + 1 \in S
  <2>1. \A j : j \in B <=> j \in A \/ j = a + 1
    BY <1>2, <1>3, <1>4
  <2>2. B = A \cup {a + 1} /\ a + 1 \notin A
    BY <2>1, <1>3
  <2>3. Cardinality(B) = Cardinality(A) + 1
    BY <1>1, <2>2, FS_AddElement
  <2>4. QED
    BY <1>4, <2>3 DEF Rank
<1>5. CASE a + 1 \notin S
  <2>1. \A j : j \in B <=> j \in A
    BY <1>2, <1>3, <1>5
  <2>2. A = B
    BY <2>1
  <2>3. QED
    BY <1>5, <2>2 DEF Rank
<1>6. QED
  BY <1>4, <1>5

(* It is strictly greater at a place than at any number below. *)
LEMMA RankRises ==
  ASSUME NEW S, Places(S), NEW a \in Nat, NEW b \in S, a < b
  PROVE  Rank(S, a) < Rank(S, b)
<1>1. b \in Nat \ {0}
  BY PlacesFinite
<1>2. PICK c \in Nat : b = c + 1
  <2>1. b - 1 \in Nat /\ b = (b - 1) + 1
    BY <1>1
  <2>2. QED
    BY <2>1
<1>3. a <= c
  BY <1>1, <1>2
<1>4. Rank(S, a) <= Rank(S, c)
  BY <1>3, RankGrows
<1>5. Rank(S, b) = Rank(S, c) + 1
  BY <1>2, RankNext
<1>6. Rank(S, a) \in Nat /\ Rank(S, c) \in Nat
  BY RankType
<1>7. QED
  BY <1>4, <1>5, <1>6

(* The members of S are numbered by their ranks. *)
LEMMA RankOne ==
  ASSUME NEW S, Places(S), NEW i \in S
  PROVE  Rank(S, i) \in 1..Cardinality(S) /\ Nth(S, Rank(S, i)) = i
<1>1. i \in Nat /\ 0 < i
  BY PlacesFinite
<1>2. Rank(S, 0) < Rank(S, i)
  BY <1>1, RankRises
<1>3. Rank(S, 0) \in Nat /\ Rank(S, i) \in Nat /\ Cardinality(S) \in Nat /\ Rank(S, i) <= Cardinality(S)
  BY <1>1, RankType
<1>4. ASSUME NEW j \in S, Rank(S, j) = Rank(S, i) PROVE j = i
  <2>1. j \in Nat
    BY PlacesFinite
  <2>2. j < i => Rank(S, j) < Rank(S, i)
    BY <2>1, RankRises
  <2>3. i < j => Rank(S, i) < Rank(S, j)
    BY <1>1, RankRises
  <2>4. QED
    BY <1>1, <1>3, <1>4, <2>1, <2>2, <2>3
<1>5. Nth(S, Rank(S, i)) = CHOOSE j \in S : Rank(S, j) = Rank(S, i)
  BY DEF Nth, Rank
<1>6. Nth(S, Rank(S, i)) = i
  BY <1>4, <1>5
<1>7. QED
  BY <1>2, <1>3, <1>6

(* The k-th place has rank k. *)
LEMMA NthOne ==
  ASSUME NEW S, Places(S), NEW m \in 1..Cardinality(S)
  PROVE  Nth(S, m) \in S /\ Rank(S, Nth(S, m)) = m
<1>0. Cardinality(S) \in Nat
  BY FS_CardinalityType, PlacesFinite
<1>1. PICK N \in Nat : \A j \in S : j <= N
  BY DEF Places
<1>2. PICK i \in S : Rank(S, i) = m
  <2>. DEFINE T == {b \in 0..N : Rank(S, b) >= m}
  <2>1. N \in T
    <3>1. Rank(S, N) = Cardinality(S)
      BY <1>1, RankAll
    <3>2. QED
      BY <1>0, <3>1
  <2>2. IsFiniteSet(T) /\ T \subseteq Nat
    <3>1. IsFiniteSet(0..N) /\ T \subseteq 0..N
      BY FS_Interval
    <3>2. QED
      BY <3>1, FS_Subset
  <2>3. PICK b \in T : \A k \in T : b <= k
    <3>. HIDE DEF T
    <3>1. QED
      BY <2>1, <2>2, LeastOf
  <2>4. b \in Nat /\ b <= N /\ Rank(S, b) >= m /\ Rank(S, b) \in Nat
    BY <2>3, RankType
  <2>5. b # 0
    <3>1. Rank(S, 0) \in Nat /\ Rank(S, 0) <= 0
      BY RankType
    <3>2. QED
      BY <1>0, <2>4, <3>1
  <2>6. PICK a \in Nat : b = a + 1
    <3>1. b - 1 \in Nat /\ b = (b - 1) + 1
      BY <2>4, <2>5
    <3>2. QED
      BY <3>1
  <2>7. ~(Rank(S, a) >= m)
    <3>1. a \in 0..N /\ ~(b <= a)
      BY <2>4, <2>6
    <3>2. a \notin T
      BY <2>3, <3>1
    <3>3. QED
      BY <3>1, <3>2
  <2>8. Rank(S, b) = IF b \in S THEN Rank(S, a) + 1 ELSE Rank(S, a)
    BY <2>6, RankNext
  <2>9. Rank(S, a) \in Nat
    BY RankType
  <2>10. b \in S /\ Rank(S, b) = m
    BY <1>0, <2>4, <2>7, <2>8, <2>9
  <2>11. QED
    BY <2>10
<1>3. Nth(S, m) = CHOOSE j \in S : Rank(S, j) = m
  BY DEF Nth, Rank
<1>4. QED
  BY <1>2, <1>3

-----------------------------------------------------------------------------
(* What holds of the rows of a definition f and of the order ans of their  *)
(* answers, between any two steps.                                         *)

NodesOf(f) == ToSet(f.nodes)
PlaceOf(f, n) == CHOOSE k \in DOMAIN f.nodes : f.nodes[k] = n
VoteNode(f, n) == f.mode[n] \in {"countersign", "vote"}
OrSigned(f, n) == f.mode[n] = "any" /\ ~HasPool(f.approver[n])
AskedBy(f, n) == ResolveAssignees(f.approver[n], f.self[n], f.starter)
Opened(r) == r.status \in {"pending", "active"}

Typed(f, rows, ans) ==
  /\ DOMAIN rows \subseteq Id
  /\ \A i \in DOMAIN rows : rows[i] \in Row(rows[i].node) /\ rows[i].node \in NodesOf(f)
  /\ ans \in Seq(Id) /\ IsInjective(ans)
  /\ \A i \in Id : i \in ToSet(ans) <=> i \in DOMAIN rows /\ rows[i].status = "completed"

(* A sub-task has a parent of the same node that is no younger and nobody's *)
(* sub-task, and an or-sign node has none.                                 *)
Family(f, rows) ==
  \A j \in DOMAIN rows : rows[j].parent # NoId =>
    LET p == rows[j].parent
    IN  /\ ~OrSigned(f, rows[j].node)
        /\ p \in DOMAIN rows
        /\ rows[p].parent = NoId
        /\ rows[p].node = rows[j].node
        /\ rows[p].born <= rows[j].born

(* A node has one main task, or one for each approver of an or-sign; these *)
(* are not claimed, one is answered at most, and then none is open.        *)
LoneMain(f, rows) ==
  /\ \A i, j \in DOMAIN rows :
       rows[i].parent = NoId /\ rows[j].parent = NoId /\ rows[i].node = rows[j].node
         => i = j \/ OrSigned(f, rows[i].node)
  /\ \A i, j \in DOMAIN rows :
       rows[i].parent = NoId /\ rows[i].status = "completed" /\ Opened(rows[j])
         => rows[i].node # rows[j].node
  /\ \A i, j \in DOMAIN rows :
       /\ rows[i].parent = NoId /\ rows[j].parent = NoId /\ rows[i].node = rows[j].node
       /\ rows[i].status = "completed" /\ rows[j].status = "completed"
       => i = j
  /\ \A i, j \in DOMAIN rows :
       OrSigned(f, rows[i].node) /\ rows[i].node = rows[j].node /\ i # j
         /\ Opened(rows[i]) /\ Opened(rows[j])
         => rows[i].status = "active" /\ ~rows[i].claimed

(* Tasks that wait to be claimed, and those that a claim has closed and    *)
(* would give back.                                                        *)
Claims(f, rows) ==
  \A i \in DOMAIN rows :
    /\ rows[i].status = "pending" => rows[i].assignee = Nobody
    /\ rows[i].closedBy # NoId =>
         /\ ~OrSigned(f, rows[i].node)
         /\ rows[i].assignee = Nobody
         /\ rows[i].status = "terminated" \/ (rows[i].parent = NoId /\ rows[i].status = "completed")
    /\ rows[i].parent = NoId /\ rows[i].status = "terminated" /\ ~OrSigned(f, rows[i].node)
         => rows[i].assignee = Nobody
    /\ rows[i].fallback => AskedBy(f, rows[i].node) = <<>>

(* A row is older than its answer, and no older than an answer of an       *)
(* earlier node.                                                           *)
Ends(f, rows, ans) ==
  /\ \A i \in DOMAIN rows : rows[i].born <= Len(ans)
  /\ \A k \in DOMAIN ans : rows[ans[k]].born < k
  /\ \A k \in DOMAIN ans : \A j \in DOMAIN rows :
       PlaceOf(f, rows[ans[k]].node) < PlaceOf(f, rows[j].node) => k <= rows[j].born

Cut(rows) == \A i \in DOMAIN rows : rows[i].reason = "threshold" => rows[i].status = "terminated"

(* Where answers can be recalled, a task that is answered by its sub-tasks *)
(* is nobody's, and a row is terminated only with the end of its parent.   *)
Aggregate(f, rows, i) ==
  /\ rows[i].parent = NoId
  /\ \/ \E j \in DOMAIN rows : rows[j].parent = i
     \/ VoteNode(f, rows[i].node) /\ AskedBy(f, rows[i].node) # <<>>
Recallable(f, rows) ==
  "Recall" \in f.uses => \A i \in DOMAIN rows :
    /\ rows[i].closedBy = NoId
    /\ rows[i].parent # NoId =>
         VoteNode(f, rows[i].node) /\ rows[i].status # "pending" /\ ~rows[i].claimed
    /\ Aggregate(f, rows, i) =>
         rows[i].assignee = Nobody /\ rows[i].owner = Nobody /\ rows[i].status # "pending"
    /\ rows[i].status = "terminated" /\ ~OrSigned(f, rows[i].node) =>
         /\ rows[i].parent # NoId
         /\ rows[i].reason = "threshold"
         /\ rows[rows[i].parent].status = "completed"

(* Open rows are of one node, and that is the last one with rows. *)
OneNode(f, rows) ==
  \A i, j \in DOMAIN rows : Opened(rows[j]) =>
    /\ PlaceOf(f, rows[i].node) <= PlaceOf(f, rows[j].node)
    /\ Opened(rows[i]) => rows[i].node = rows[j].node

RowInv(f, rows, ans) ==
  /\ Typed(f, rows, ans)
  /\ Family(f, rows)
  /\ LoneMain(f, rows)
  /\ Claims(f, rows)
  /\ Ends(f, rows, ans)
  /\ Cut(rows)
  /\ Recallable(f, rows)
  /\ OneNode(f, rows)

-----------------------------------------------------------------------------
(* The drive and the rows.                                                 *)

DriveTyped ==
  /\ def \in Flows
  /\ inst \in {"active", "completed", "terminated"}
  /\ asks \subseteq Nodes
  /\ at \in Nodes \cup {End, NoNode}
  /\ auto \in Nodes \cup {NoNode}
  /\ resets \in Seq(Nodes)
  /\ recalls \in 0..MaxRecall
  /\ past \subseteq Nodes \X User
  /\ last \in Nodes \cup {NoNode}
OneDrive ==
  /\ \A m, n \in asks : m = n
  /\ asks # {} => at = NoNode /\ resets = <<>>
  /\ at # NoNode => resets = <<>>
  /\ auto # NoNode => at = NoNode /\ resets = <<>>
  /\ inst = "completed" => ~Driving
  /\ inst # "active" => Ids = {}
Quiet ==
  /\ Driving => \A i \in Ids : ~Opened(task[i])
  /\ Waiting => \E i \in Ids : Opened(task[i])
Beyond ==
  /\ \A n \in asks, i \in Ids : PlaceOf(def, task[i].node) <= PlaceOf(def, n)
  /\ at \in Nodes => \A i \in Ids : PlaceOf(def, task[i].node) <= PlaceOf(def, at)
  /\ resets # <<>> => \A i \in Ids :
       \/ PlaceOf(def, task[i].node) < PlaceOf(def, resets[Len(resets)])
       \/ \E k \in 1..(Len(resets) - 1) : task[i].node = resets[k]

DeskInv ==
  /\ Apart(def)
  /\ DriveTyped
  /\ RowInv(def, task, answered)
  /\ OneDrive
  /\ Quiet
  /\ Beyond

-----------------------------------------------------------------------------
(* The nodes of a definition. *)

(* What the assumption on definitions says of their nodes. *)
LEMMA FlowNodes ==
  ASSUME NEW f \in Flows
  PROVE  /\ f.nodes \in Seq(NodesOf(f)) /\ Len(f.nodes) \in Nat /\ Len(f.nodes) >= 1
         /\ DOMAIN f.nodes = 1..Len(f.nodes)
         /\ \A k \in DOMAIN f.nodes : f.nodes[k] \in NodesOf(f) /\ PlaceOf(f, f.nodes[k]) = k
         /\ \A n \in NodesOf(f) :
              /\ PlaceOf(f, n) \in DOMAIN f.nodes /\ f.nodes[PlaceOf(f, n)] = n
              /\ n # End /\ n # NoNode
              /\ f.mode[n] \in ModeType /\ ValidRule(f.rule[n]) /\ f.reject[n] \in Strategy
              /\ f.approver[n] \in Approver /\ f.empty[n] \in EmptyPolicy
              /\ AskedBy(f, n) \in Seq(User)
<1>1. f.nodes \in Seq(NodesOf(f)) /\ f.nodes # <<>> /\ IsInjective(f.nodes)
  BY FlowAssumption DEF NodesOf
<1>2. Len(f.nodes) \in Nat /\ Len(f.nodes) >= 1 /\ DOMAIN f.nodes = 1..Len(f.nodes)
  BY <1>1, LenProperties, EmptySeq
<1>3. \A k \in DOMAIN f.nodes : f.nodes[k] \in NodesOf(f) /\ PlaceOf(f, f.nodes[k]) = k
  BY <1>1 DEF NodesOf, ToSet, PlaceOf, IsInjective
<1>4. ASSUME NEW n \in NodesOf(f)
      PROVE  /\ PlaceOf(f, n) \in DOMAIN f.nodes /\ f.nodes[PlaceOf(f, n)] = n
             /\ n # End /\ n # NoNode
             /\ f.mode[n] \in ModeType /\ ValidRule(f.rule[n]) /\ f.reject[n] \in Strategy
             /\ f.approver[n] \in Approver /\ f.empty[n] \in EmptyPolicy
  <2>1. PICK k \in DOMAIN f.nodes : n = f.nodes[k]
    BY DEF NodesOf, ToSet
  <2>2. PlaceOf(f, n) = k
    BY <1>3, <2>1
  <2>3. QED
    BY <2>1, <2>2, FlowAssumption
<1>5. \A n \in NodesOf(f) : AskedBy(f, n) \in Seq(User)
  BY ResolverAssumption DEF NodesOf, AskedBy
<1>6. QED
  BY <1>1, <1>2, <1>3, <1>4, <1>5

(* The place of a node is a positive number. *)
LEMMA PlaceType ==
  ASSUME NEW f \in Flows, NEW n \in NodesOf(f)
  PROVE  PlaceOf(f, n) \in Nat /\ PlaceOf(f, n) >= 1
<1>1. PlaceOf(f, n) \in 1..Len(f.nodes) /\ Len(f.nodes) \in Nat
  BY FlowNodes
<1>2. QED
  BY <1>1

(* Two nodes have two places. *)
LEMMA PlaceOne ==
  ASSUME NEW f \in Flows, NEW m \in NodesOf(f), NEW n \in NodesOf(f), PlaceOf(f, m) = PlaceOf(f, n)
  PROVE  m = n
BY FlowNodes

-----------------------------------------------------------------------------
(* New rows get ids that no row has or refers to. *)

(* With room there are as many ids as are asked for, all different. *)
LEMMA FreshIds ==
  ASSUME NEW L \in Nat, RoomFor(L)
  PROVE  /\ \A k \in 1..L : Fresh(k) \in Free
         /\ \A k, l \in 1..L : Fresh(k) = Fresh(l) => k = l
<1>1. Places(Free)
  <2>1. MaxRows \in Nat
    BY RowBounds
  <2>2. Free \subseteq 1..MaxRows
    BY DEF Free, Id
  <2>3. QED
    BY <2>1, <2>2 DEF Places
<1>2. Cardinality(Free) \in Nat /\ L <= Cardinality(Free)
  BY <1>1, PlacesFinite DEF RoomFor
<1>3. ASSUME NEW k \in 1..L PROVE Fresh(k) \in Free /\ Rank(Free, Fresh(k)) = k
  <2>1. k \in 1..Cardinality(Free)
    BY <1>2
  <2>2. QED
    BY <1>1, <2>1, NthOne DEF Fresh
<1>4. QED
  BY <1>3

(* A free id is no row, and no row refers to it. *)
LEMMA FreeIds ==
  ASSUME NEW i \in Free
  PROVE  /\ i \in Id /\ i \in Nat \ {0} /\ i \notin Ids
         /\ \A j \in Ids : task[j].parent # i /\ task[j].closedBy # i
BY RowBounds DEF Free, Id

(* WithNew leaves the rows that are there and adds the new ones. *)
LEMMA NewRows ==
  ASSUME NEW L \in Nat, RoomFor(L), NEW rows, DOMAIN rows \subseteq Ids,
         NEW new, DOMAIN new = 1..L
  PROVE  /\ \A i : i \in DOMAIN WithNew(rows, new) <=>
                     i \in DOMAIN rows \/ \E k \in 1..L : i = Fresh(k)
         /\ \A i \in DOMAIN rows : WithNew(rows, new)[i] = rows[i]
         /\ \A k \in 1..L : WithNew(rows, new)[Fresh(k)] = new[k]
<1>. DEFINE id == [k \in DOMAIN new |-> Fresh(k)]
<1>1. \A k \in 1..L : Fresh(k) \notin DOMAIN rows
  BY FreshIds, FreeIds
<1>2. \A i : i \in Range(id) <=> \E k \in 1..L : i = Fresh(k)
  BY DEF Range
<1>3. \A k \in 1..L : id[k] = Fresh(k)
  OBVIOUS
<1>. HIDE DEF id
<1>4. WithNew(rows, new) =
        [i \in DOMAIN rows \cup Range(id) |->
           IF i \in DOMAIN rows THEN rows[i] ELSE new[CHOOSE k \in DOMAIN new : id[k] = i]]
  BY DEF WithNew, id
<1>5. ASSUME NEW k \in 1..L
      PROVE  (CHOOSE l \in DOMAIN new : id[l] = Fresh(k)) = k
  BY <1>3, FreshIds
<1>6. QED
  BY <1>1, <1>2, <1>4, <1>5

-----------------------------------------------------------------------------
(* Answers that are taken back. *)

(* The answers that stay are places in the order of answers. *)
LEMMA StayingPlaces ==
  ASSUME NEW n \in Nat, DOMAIN answered = 1..n, NEW gone
  PROVE  /\ Places(Staying(gone))
         /\ Staying(gone) \subseteq 1..n
         /\ Cardinality(Staying(gone)) \in Nat
<1>1. Staying(gone) \subseteq 1..n
  BY DEF Staying
<1>2. QED
  BY <1>1, PlacesFinite DEF Places

(* A place in the order moves down by the places below it that go. *)
LEMMA EarlierRank ==
  ASSUME NEW n \in Nat, DOMAIN answered = 1..n, NEW gone, NEW b \in 0..n
  PROVE  Earlier(b, gone) = Rank(Staying(gone), b)
<1>. DEFINE D == {k \in 1..b : answered[k] \in gone}
            T == {k \in Staying(gone) : k <= b}
<1>1. b \in Nat /\ IsFiniteSet(1..b) /\ Cardinality(1..b) = b
  BY FS_Interval
<1>2. \A k : k \in T <=> k \in 1..b /\ answered[k] \notin gone
  BY DEF Staying
<1>3. T = (1..b) \ D /\ (1..b) \cap D = D
  BY <1>2
<1>4. Cardinality(T) = b - Cardinality(D)
  <2>. HIDE DEF D, T
  <2>1. Cardinality((1..b) \ D) = Cardinality(1..b) - Cardinality((1..b) \cap D)
    BY <1>1, FS_Difference
  <2>2. QED
    BY <1>1, <1>3, <2>1
<1>5. IsFiniteSet(D) /\ Cardinality(D) \in Nat
  BY <1>1, FS_Subset, FS_CardinalityType
<1>6. IsFiniteSet(T) /\ Cardinality(T) \in Nat
  <2>1. T \subseteq 1..b
    BY <1>2
  <2>2. QED
    BY <1>1, <2>1, FS_Subset, FS_CardinalityType
<1>7. QED
  BY <1>1, <1>4, <1>5 DEF Earlier, Rank

(* The order of the answers that stay is the old one with gaps closed. *)
LEMMA KeptAnswers ==
  ASSUME NEW n \in Nat, answered \in Seq(Id), Len(answered) = n, IsInjective(answered), NEW gone,
         NEW S, S = Staying(gone), NEW C, C = Cardinality(S)
  PROVE  /\ C \in Nat /\ C <= n /\ S \subseteq 1..n /\ Places(S)
         /\ Unanswer(gone) \in Seq(Id) /\ Len(Unanswer(gone)) = C /\ DOMAIN Unanswer(gone) = 1..C
         /\ IsInjective(Unanswer(gone))
         /\ \A k \in 1..C : Nth(S, k) \in S /\ Rank(S, Nth(S, k)) = k
                             /\ Unanswer(gone)[k] = answered[Nth(S, k)]
         /\ \A k \in S : Rank(S, k) \in 1..C /\ Unanswer(gone)[Rank(S, k)] = answered[k]
         /\ \A b \in 0..n : Earlier(b, gone) = Rank(S, b) /\ Rank(S, b) \in 0..C /\ Rank(S, b) <= b
         /\ ToSet(Unanswer(gone)) = ToSet(answered) \ gone
<1>1. DOMAIN answered = 1..n
  BY LenProperties
<1>2. Places(S) /\ S \subseteq 1..n /\ C \in Nat
  BY <1>1, StayingPlaces
<1>3. C <= n
  <2>1. IsFiniteSet(1..n) /\ Cardinality(1..n) = n
    BY FS_Interval
  <2>2. QED
    BY <1>2, <2>1, FS_Subset
<1>4. \A k \in 1..C : Nth(S, k) \in S /\ Rank(S, Nth(S, k)) = k
  BY <1>2, NthOne
<1>5. \A k \in S : Rank(S, k) \in 1..C /\ Nth(S, Rank(S, k)) = k
  BY <1>2, RankOne
<1>6. Unanswer(gone) = [k \in 1..C |-> answered[Nth(S, k)]]
  BY DEF Unanswer
<1>7. \A k \in S : answered[k] \in Id
  BY <1>1, <1>2, ElementOfSeq
<1>8. Unanswer(gone) \in Seq(Id) /\ Len(Unanswer(gone)) = C /\ DOMAIN Unanswer(gone) = 1..C
  <2>1. Unanswer(gone) \in [1..C -> Id]
    BY <1>4, <1>6, <1>7
  <2>2. Unanswer(gone) \in Seq(Id)
    BY <1>2, <2>1, SeqDef
  <2>3. QED
    BY <1>2, <2>1, <2>2, LenProperties
<1>9. IsInjective(Unanswer(gone))
  <2>1. SUFFICES ASSUME NEW k \in 1..C, NEW l \in 1..C, Unanswer(gone)[k] = Unanswer(gone)[l]
                 PROVE  k = l
    BY <1>8 DEF IsInjective
  <2>2. Nth(S, k) = Nth(S, l)
    BY <1>1, <1>2, <1>4, <1>6, <2>1 DEF IsInjective
  <2>3. QED
    BY <1>4, <2>2
<1>10. \A k \in S : Unanswer(gone)[Rank(S, k)] = answered[k]
  BY <1>5, <1>6
<1>11. ASSUME NEW b \in 0..n
       PROVE  Earlier(b, gone) = Rank(S, b) /\ Rank(S, b) \in 0..C /\ Rank(S, b) <= b
  <2>1. b \in Nat
    OBVIOUS
  <2>2. Rank(S, b) \in Nat /\ Rank(S, b) <= b /\ Rank(S, b) <= C
    BY <1>2, <2>1, RankType
  <2>3. QED
    BY <1>1, <1>2, <2>2, EarlierRank
<1>12. ToSet(Unanswer(gone)) = ToSet(answered) \ gone
  <2>1. \A k : k \in S <=> k \in DOMAIN answered /\ answered[k] \notin gone
    BY DEF Staying
  <2>2. \A x : x \in ToSet(Unanswer(gone)) <=> \E k \in 1..C : x = answered[Nth(S, k)]
    BY <1>6 DEF ToSet
  <2>3. \A x : x \in ToSet(Unanswer(gone)) <=> \E k \in S : x = answered[k]
    BY <1>4, <1>5, <2>2
  <2>4. \A x : x \in ToSet(answered) <=> \E k \in DOMAIN answered : x = answered[k]
    BY DEF ToSet
  <2>5. QED
    BY <2>1, <2>3, <2>4
<1>13. QED
  BY <1>2, <1>3, <1>4, <1>5, <1>6, <1>8, <1>9, <1>10, <1>11, <1>12

-----------------------------------------------------------------------------
(* Tasks in other hands.                                                   *)

(* The fields of a row. *)
LEMMA RowFields ==
  ASSUME NEW n, NEW r \in Row(n)
  PROVE  /\ r.node = n /\ r.parent \in Id \cup {NoId} /\ r.assignee \in User \cup {Nobody}
         /\ r.owner \in User \cup {Nobody} /\ r.claimed \in BOOLEAN /\ r.closedBy \in Id \cup {NoId}
         /\ r.status \in RowStatus /\ r.reason \in Reason /\ r.fallback \in BOOLEAN
         /\ r.born \in 0..MaxRows /\ r.born \in Nat /\ r.by \in AnswerBy
         /\ r.pool \in SUBSET (User \cup {Nobody}) /\ r.addedBy \in User \cup {Nobody}
<1>1. r.born \in 0..MaxRows
  BY DEF Row
<1>2. r.born \in Nat
  BY <1>1, RowBounds
<1>3. QED
  BY <1>1, <1>2 DEF Row

(* A task changes hands. *)
Moved(f, rows, i, s) ==
  /\ i \in DOMAIN rows
  /\ s \in Row(rows[i].node)
  /\ Opened(rows[i])
  /\ Opened(s)
  /\ s.parent = rows[i].parent
  /\ s.closedBy = rows[i].closedBy
  /\ s.reason = rows[i].reason
  /\ s.fallback = rows[i].fallback
  /\ s.born = rows[i].born
  /\ s.claimed = rows[i].claimed
  /\ s.status = "pending" => s.assignee = Nobody
  /\ s.status # rows[i].status => ~OrSigned(f, rows[i].node)
  /\ "Recall" \in f.uses =>
       /\ rows[i].parent # NoId => s.status # "pending"
       /\ Aggregate(f, rows, i) =>
            s.assignee = Nobody /\ s.owner = Nobody /\ s.status # "pending"

(* A task that changes hands keeps the rows right. *)
LEMMA MoveRow ==
  ASSUME NEW f \in Flows,
         NEW rows,
         NEW ans,
         RowInv(f, rows, ans),
         NEW i,
         NEW s,
         Moved(f, rows, i, s)
  PROVE  RowInv(f, [rows EXCEPT ![i] = s], ans)
<1>. USE DEF Moved
<1>. DEFINE r == [rows EXCEPT ![i] = s]
<1>1. DOMAIN r = DOMAIN rows /\ r[i] = s /\ \A j \in DOMAIN rows \ {i} : r[j] = rows[j]
  OBVIOUS
<1>2. s.node = rows[i].node
  BY RowFields
<1>. HIDE DEF r
<1>3. \A j \in DOMAIN rows :
        /\ r[j].node = rows[j].node /\ r[j].parent = rows[j].parent /\ r[j].closedBy = rows[j].closedBy
        /\ r[j].reason = rows[j].reason /\ r[j].fallback = rows[j].fallback
        /\ r[j].born = rows[j].born /\ r[j].claimed = rows[j].claimed
        /\ Opened(r[j]) <=> Opened(rows[j])
  BY <1>1, <1>2
<1>4. \A j \in DOMAIN rows :
        /\ r[j].status = "completed" <=> rows[j].status = "completed"
        /\ r[j].status = "terminated" <=> rows[j].status = "terminated"
        /\ r[j].status \in {"completed", "terminated"} => r[j] = rows[j]
  BY <1>1 DEF Opened
<1>5. Typed(f, r, ans)
  <2>1. \A j \in DOMAIN r : r[j] \in Row(r[j].node)
    BY <1>1, <1>2 DEF RowInv, Typed
  <2>2. QED
    BY <1>1, <1>3, <1>4, <2>1 DEF RowInv, Typed
<1>6. Family(f, r)
  BY <1>1, <1>3 DEF RowInv, Family
<1>7. LoneMain(f, r)
  <2>1. \A j \in DOMAIN rows : OrSigned(f, rows[j].node) => r[j].status = rows[j].status
    BY <1>1
  <2>2. QED
    BY <1>1, <1>3, <1>4, <2>1 DEF RowInv, LoneMain
<1>8. Claims(f, r)
  <2>1. \A j \in DOMAIN rows : r[j].status = "pending" => r[j].assignee = Nobody
    BY <1>1 DEF RowInv, Claims
  <2>2. QED
    BY <1>1, <1>3, <1>4, <2>1 DEF RowInv, Claims
<1>9. Ends(f, r, ans)
  <2>1. \A k \in DOMAIN ans : ans[k] \in DOMAIN rows
    BY DEF RowInv, Typed, ToSet
  <2>2. QED
    BY <1>1, <1>3, <2>1 DEF RowInv, Ends
<1>10. Cut(r)
  BY <1>1, <1>3, <1>4 DEF RowInv, Cut
<1>11. Recallable(f, r)
  <2>1. SUFFICES ASSUME "Recall" \in f.uses, NEW j \in DOMAIN rows
                 PROVE  /\ r[j].closedBy = NoId
                        /\ r[j].parent # NoId => VoteNode(f, r[j].node) /\ r[j].status # "pending" /\ ~r[j].claimed
                        /\ Aggregate(f, r, j) => r[j].assignee = Nobody /\ r[j].owner = Nobody /\ r[j].status # "pending"
                        /\ r[j].status = "terminated" /\ ~OrSigned(f, r[j].node) =>
                             /\ r[j].parent # NoId
                             /\ r[j].reason = "threshold"
                             /\ r[r[j].parent].status = "completed"
    BY <1>1 DEF Recallable
  <2>2. Aggregate(f, r, j) <=> Aggregate(f, rows, j)
    BY <1>1, <1>3 DEF Aggregate
  <2>3. r[j].parent # NoId => VoteNode(f, r[j].node) /\ r[j].status # "pending" /\ ~r[j].claimed
    BY <1>1, <1>3, <2>1 DEF RowInv, Recallable
  <2>4. Aggregate(f, r, j) => r[j].assignee = Nobody /\ r[j].owner = Nobody /\ r[j].status # "pending"
    BY <1>1, <2>1, <2>2 DEF RowInv, Recallable
  <2>5. r[j].parent # NoId => r[j].parent \in DOMAIN rows
    BY <1>3 DEF RowInv, Family
  <2>6. QED
    BY <1>1, <1>3, <1>4, <2>1, <2>3, <2>4, <2>5 DEF RowInv, Recallable
<1>12. OneNode(f, r)
  BY <1>1, <1>3 DEF RowInv, OneNode
<1>13. QED
  BY <1>5, <1>6, <1>7, <1>8, <1>9, <1>10, <1>11, <1>12 DEF RowInv, r

(* A task is claimed, and the others that wait on the node are closed. *)
ClaimedFor(w, u) == [w EXCEPT !.assignee = u, !.status = "active", !.claimed = TRUE]

(* The fields of a claimed task. *)
LEMMA ClaimedRow ==
  ASSUME NEW n, NEW w \in Row(n), NEW u \in User,
         NEW x, x = ClaimedFor(w, u)
  PROVE  /\ x \in Row(n) /\ x.node = w.node /\ x.parent = w.parent /\ x.fallback = w.fallback
         /\ x.born = w.born /\ x.pool = w.pool /\ x.owner = w.owner /\ x.closedBy = w.closedBy /\ x.reason = w.reason
         /\ x.assignee = u /\ x.status = "active" /\ x.claimed
<1>1. x \in Row(n)
  BY DEF ClaimedFor, Row, RowStatus
<1>2. QED
  BY <1>1 DEF ClaimedFor, Row

ClosedFor(w, i) == [w EXCEPT !.status = "terminated", !.reason = "claimed_by_other", !.closedBy = i]

(* The fields of a task that a claim closes. *)
LEMMA ClosedRow ==
  ASSUME NEW n, NEW w \in Row(n), NEW i \in Id,
         NEW x, x = ClosedFor(w, i)
  PROVE  /\ x \in Row(n) /\ x.node = w.node /\ x.parent = w.parent /\ x.fallback = w.fallback
         /\ x.born = w.born /\ x.pool = w.pool /\ x.owner = w.owner /\ x.closedBy = i /\ x.reason = "claimed_by_other"
         /\ x.assignee = w.assignee /\ x.status = "terminated" /\ x.claimed = w.claimed
<1>1. x \in Row(n)
  BY DEF ClosedFor, Row, RowStatus, Reason
<1>2. QED
  BY <1>1 DEF ClosedFor, Row

Forgetting(w, i) == [w EXCEPT !.closedBy = IF @ = i THEN NoId ELSE @]

(* The fields of a task whose closing round is forgotten. *)
LEMMA ForgottenRow ==
  ASSUME NEW n, NEW w \in Row(n), NEW i,
         NEW x, x = Forgetting(w, i)
  PROVE  /\ x \in Row(n) /\ x.node = w.node /\ x.parent = w.parent /\ x.fallback = w.fallback
         /\ x.born = w.born /\ x.pool = w.pool /\ x.owner = w.owner /\ x.closedBy = (IF w.closedBy = i THEN NoId ELSE w.closedBy)
         /\ x.reason = w.reason /\ x.assignee = w.assignee /\ x.status = w.status /\ x.claimed = w.claimed
<1>1. x \in Row(n)
  BY DEF Forgetting, Row
<1>2. QED
  BY <1>1 DEF Forgetting, Row

Claimed(rows, i, u, O, r) ==
  /\ i \in DOMAIN rows
  /\ u \in User
  /\ rows[i].status = "pending"
  /\ \A j : j \in O <=> j \in DOMAIN rows /\ j # i /\ rows[j].node = rows[i].node
                        /\ rows[j].status = "pending"
  /\ DOMAIN r = DOMAIN rows
  /\ \A j \in DOMAIN rows :
       /\ r[j] \in Row(rows[j].node)
       /\ r[j].node = rows[j].node /\ r[j].parent = rows[j].parent
       /\ r[j].fallback = rows[j].fallback /\ r[j].born = rows[j].born
       /\ r[j].owner = rows[j].owner /\ r[j].pool = rows[j].pool
  /\ /\ r[i].assignee = u /\ r[i].status = "active" /\ r[i].claimed
     /\ r[i].closedBy = rows[i].closedBy /\ r[i].reason = rows[i].reason
  /\ \A j \in O : r[j].status = "terminated" /\ r[j].reason = "claimed_by_other" /\ r[j].closedBy = i
                  /\ r[j].assignee = rows[j].assignee /\ r[j].claimed = rows[j].claimed
  /\ \A j \in DOMAIN rows : j # i /\ j \notin O =>
       /\ r[j].status = rows[j].status /\ r[j].reason = rows[j].reason
       /\ r[j].assignee = rows[j].assignee /\ r[j].claimed = rows[j].claimed
       /\ r[j].closedBy = IF rows[j].closedBy = i THEN NoId ELSE rows[j].closedBy

(* A claim keeps the rows right. *)
LEMMA ClaimRow ==
  ASSUME NEW f \in Flows,
         NEW rows,
         NEW ans,
         RowInv(f, rows, ans),
         NEW i,
         NEW u,
         NEW O,
         NEW r,
         Claimed(rows, i, u, O, r)
  PROVE  RowInv(f, r, ans) /\ Opened(r[i])
<1>. USE DEF Claimed
<1>0. \A j \in DOMAIN rows : rows[j] \in Row(rows[j].node) /\ j \in Id
  BY DEF RowInv, Typed
<1>1. /\ DOMAIN r = DOMAIN rows
      /\ \A j \in DOMAIN rows :
           /\ r[j] \in Row(rows[j].node)
           /\ r[j].node = rows[j].node /\ r[j].parent = rows[j].parent
           /\ r[j].fallback = rows[j].fallback /\ r[j].born = rows[j].born
           /\ r[j].owner = rows[j].owner
  OBVIOUS
<1>2. r[i].assignee = u /\ r[i].status = "active" /\ r[i].claimed /\ r[i].closedBy = rows[i].closedBy
      /\ r[i].reason = rows[i].reason
  OBVIOUS
<1>3. \A j \in O : r[j].status = "terminated" /\ r[j].reason = "claimed_by_other" /\ r[j].closedBy = i
                   /\ r[j].assignee = rows[j].assignee /\ r[j].claimed = rows[j].claimed
  OBVIOUS
<1>4. \A j \in DOMAIN rows \ (O \cup {i}) :
        /\ r[j].status = rows[j].status /\ r[j].reason = rows[j].reason
        /\ r[j].assignee = rows[j].assignee /\ r[j].claimed = rows[j].claimed
        /\ r[j].closedBy = IF rows[j].closedBy = i THEN NoId ELSE rows[j].closedBy
  OBVIOUS
<1>5. \A j \in O : j \in DOMAIN rows /\ j # i /\ rows[j].node = rows[i].node /\ rows[j].status = "pending"
  OBVIOUS
<1>6. \A j \in DOMAIN rows \ {i} : rows[j].node = rows[i].node /\ rows[j].status = "pending" => j \in O
  OBVIOUS
<1>8. \A j \in DOMAIN rows :
        /\ Opened(r[j]) => Opened(rows[j]) /\ j \notin O
        /\ r[j].status = "completed" <=> rows[j].status = "completed"
  BY <1>2, <1>3, <1>4, <1>5 DEF Opened
<1>9. OrSigned(f, rows[i].node) => O = {} /\ \A j \in DOMAIN rows \ {i} : rows[j].node = rows[i].node => ~Opened(rows[j])
  <2>1. ASSUME OrSigned(f, rows[i].node), NEW j \in DOMAIN rows \ {i}, rows[j].node = rows[i].node, Opened(rows[j])
        PROVE  FALSE
    BY <2>1 DEF RowInv, LoneMain, Opened
  <2>2. QED
    BY <1>5, <2>1 DEF Opened
<1>10. i # NoId /\ Opened(rows[i])
  BY <1>0, RowBounds DEF NoId, Id, Opened
<1>11. Typed(f, r, ans)
  BY <1>1, <1>8 DEF RowInv, Typed
<1>12. Family(f, r)
  BY <1>1 DEF RowInv, Family
<1>13. LoneMain(f, r)
  <2>1. \A a, b \in DOMAIN r :
       r[a].parent = NoId /\ r[b].parent = NoId /\ r[a].node = r[b].node => a = b \/ OrSigned(f, r[a].node)
    BY <1>1 DEF RowInv, LoneMain
  <2>2. \A a, b \in DOMAIN r :
       r[a].parent = NoId /\ r[a].status = "completed" /\ Opened(r[b]) => r[a].node # r[b].node
    BY <1>1, <1>8 DEF RowInv, LoneMain
  <2>3. ASSUME NEW a \in DOMAIN r, NEW b \in DOMAIN r, OrSigned(f, r[a].node), r[a].node = r[b].node, a # b,
               Opened(r[a]), Opened(r[b])
        PROVE  r[a].status = "active" /\ ~r[a].claimed
    <3>1. Opened(rows[a]) /\ Opened(rows[b]) /\ OrSigned(f, rows[a].node) /\ rows[a].node = rows[b].node
      BY <1>1, <1>8, <2>3
    <3>2. a # i /\ b # i
      BY <1>1, <1>9, <2>3, <3>1
    <3>3. rows[a].status = "active" /\ ~rows[a].claimed
      BY <1>1, <2>3, <3>1 DEF RowInv, LoneMain
    <3>4. QED
      BY <1>1, <1>4, <1>8, <2>3, <3>2, <3>3
  <2>4. \A a, b \in DOMAIN r :
       /\ r[a].parent = NoId /\ r[b].parent = NoId /\ r[a].node = r[b].node
       /\ r[a].status = "completed" /\ r[b].status = "completed"
       => a = b
    BY <1>1, <1>8 DEF RowInv, LoneMain
  <2>5. QED
    BY <2>1, <2>2, <2>3, <2>4 DEF LoneMain
<1>14. Claims(f, r)
  <2>1. SUFFICES ASSUME NEW j \in DOMAIN rows
        PROVE  /\ r[j].status = "pending" => r[j].assignee = Nobody
               /\ r[j].closedBy # NoId =>
                    /\ ~OrSigned(f, r[j].node)
                    /\ r[j].assignee = Nobody
                    /\ r[j].status = "terminated" \/ (r[j].parent = NoId /\ r[j].status = "completed")
               /\ r[j].parent = NoId /\ r[j].status = "terminated" /\ ~OrSigned(f, r[j].node)
                    => r[j].assignee = Nobody
               /\ r[j].fallback => AskedBy(f, r[j].node) = <<>>
    BY <1>1 DEF Claims
  <2>. /\ rows[j].status = "pending" => rows[j].assignee = Nobody
       /\ rows[j].closedBy # NoId =>
                    /\ ~OrSigned(f, rows[j].node)
                    /\ rows[j].assignee = Nobody
                    /\ rows[j].status = "terminated" \/ (rows[j].parent = NoId /\ rows[j].status = "completed")
       /\ rows[j].parent = NoId /\ rows[j].status = "terminated" /\ ~OrSigned(f, rows[j].node)
            => rows[j].assignee = Nobody
       /\ rows[j].fallback => AskedBy(f, rows[j].node) = <<>>
    BY DEF RowInv, Claims
  <2>2. CASE j = i
    BY <1>1, <1>2, <1>8, <1>10, <2>2
  <2>3. CASE j \in O
    BY <1>1, <1>3, <1>5, <1>9, <2>3
  <2>4. CASE j \notin O /\ j # i
    BY <1>1, <1>4, <1>8, <2>4
  <2>5. QED
    BY <2>2, <2>3, <2>4
<1>15. Ends(f, r, ans)
  <2>1. \A k \in DOMAIN ans : ans[k] \in DOMAIN rows
    BY DEF RowInv, Typed, ToSet
  <2>2. QED
    BY <1>1, <2>1 DEF RowInv, Ends
<1>16. Cut(r)
  <2>1. ASSUME NEW j \in DOMAIN rows, r[j].reason = "threshold" PROVE r[j].status = "terminated"
    <3>1. j \notin O
      BY <1>3, <2>1
    <3>2. rows[j].reason = "threshold"
      BY <1>2, <1>4, <2>1, <3>1
    <3>3. rows[j].status = "terminated"
      BY <3>2 DEF RowInv, Cut
    <3>4. QED
      BY <1>4, <1>10, <3>1, <3>3 DEF Opened
  <2>2. QED
    BY <1>1, <2>1 DEF Cut
<1>17. Recallable(f, r)
  <2>1. SUFFICES ASSUME "Recall" \in f.uses PROVE Recallable(f, r)
    BY DEF Recallable
  <2>2. rows[i].parent = NoId
    BY <2>1 DEF RowInv, Recallable
  <2>3. O = {}
    <3>1. ASSUME NEW j \in O PROVE FALSE
      <4>1. rows[j].parent = NoId
        BY <1>5, <2>1 DEF RowInv, Recallable
      <4>2. OrSigned(f, rows[i].node)
        BY <1>5, <2>2, <4>1 DEF RowInv, LoneMain
      <4>3. QED
        BY <1>9, <4>2
    <3>2. QED
      BY <3>1
  <2>4. ~Aggregate(f, rows, i)
    BY <2>1 DEF RowInv, Recallable
  <2>5. \A j \in DOMAIN rows : Aggregate(f, r, j) <=> Aggregate(f, rows, j)
    BY <1>1 DEF Aggregate
  <2>6. \A j \in DOMAIN rows \ {i} :
        /\ r[j].status = rows[j].status /\ r[j].reason = rows[j].reason
        /\ r[j].assignee = rows[j].assignee /\ r[j].claimed = rows[j].claimed
    BY <1>4, <2>3
  <2>7. \A j \in DOMAIN rows : r[j].closedBy = NoId
    BY <1>2, <1>4, <2>1, <2>3 DEF RowInv, Recallable
  <2>8. \A j \in DOMAIN rows : rows[j].parent # NoId => rows[j].parent \in DOMAIN rows
    BY DEF RowInv, Family
  <2>9. QED
    BY <1>1, <1>2, <1>8, <2>1, <2>2, <2>4, <2>5, <2>6, <2>7, <2>8 DEF RowInv, Recallable
<1>18. OneNode(f, r)
  BY <1>1, <1>8 DEF RowInv, OneNode
<1>19. QED
  BY <1>2, <1>11, <1>12, <1>13, <1>14, <1>15, <1>16, <1>17, <1>18 DEF RowInv, Opened

(* A claimed task goes back to its pool with those that the claim closed. *)
Unclaimed(w) == [w EXCEPT !.assignee = Nobody, !.status = "pending", !.claimed = FALSE]

(* The fields of a task that goes back to its pool. *)
LEMMA UnclaimedRow ==
  ASSUME NEW n, NEW w \in Row(n),
         NEW x, x = Unclaimed(w)
  PROVE  /\ x \in Row(n) /\ x.node = w.node /\ x.parent = w.parent /\ x.fallback = w.fallback
         /\ x.born = w.born /\ x.pool = w.pool /\ x.owner = w.owner /\ x.closedBy = w.closedBy /\ x.reason = w.reason
         /\ x.assignee = Nobody /\ x.status = "pending" /\ ~x.claimed
<1>1. x \in Row(n)
  BY DEF Unclaimed, Row, RowStatus
<1>2. QED
  BY <1>1 DEF Unclaimed, Row

GivenBack(w) == [w EXCEPT !.status = "pending", !.reason = "none", !.closedBy = NoId]

(* The fields of a task that goes back with it. *)
LEMMA GivenBackRow ==
  ASSUME NEW n, NEW w \in Row(n),
         NEW x, x = GivenBack(w)
  PROVE  /\ x \in Row(n) /\ x.node = w.node /\ x.parent = w.parent /\ x.fallback = w.fallback
         /\ x.born = w.born /\ x.pool = w.pool /\ x.owner = w.owner /\ x.closedBy = NoId /\ x.reason = "none"
         /\ x.assignee = w.assignee /\ x.status = "pending" /\ x.claimed = w.claimed
<1>1. x \in Row(n)
  BY DEF GivenBack, Row, RowStatus, Reason
<1>2. QED
  BY <1>1 DEF GivenBack, Row

GivesBack(rows, i, J, r) ==
  /\ i \in DOMAIN rows
  /\ rows[i].status = "active"
  /\ rows[i].claimed
  /\ rows[i].assignee # Nobody
  /\ \A j : j \in J <=> j \in DOMAIN rows /\ j # i /\ rows[j].node = rows[i].node
                        /\ rows[j].closedBy = i
  /\ DOMAIN r = DOMAIN rows
  /\ \A j \in DOMAIN rows :
       /\ r[j] \in Row(rows[j].node)
       /\ r[j].node = rows[j].node /\ r[j].parent = rows[j].parent
       /\ r[j].fallback = rows[j].fallback /\ r[j].born = rows[j].born
       /\ r[j].owner = rows[j].owner /\ r[j].pool = rows[j].pool
  /\ /\ r[i].assignee = Nobody /\ r[i].status = "pending" /\ ~r[i].claimed
     /\ r[i].closedBy = rows[i].closedBy /\ r[i].reason = rows[i].reason
  /\ \A j \in J : r[j].status = "pending" /\ r[j].reason = "none" /\ r[j].closedBy = NoId
                  /\ r[j].assignee = rows[j].assignee /\ r[j].claimed = rows[j].claimed
  /\ \A j \in DOMAIN rows : j # i /\ j \notin J => r[j] = rows[j]

(* Giving a claimed task back keeps the rows right. *)
LEMMA UnclaimRow ==
  ASSUME NEW f \in Flows,
         NEW rows,
         NEW ans,
         RowInv(f, rows, ans),
         NEW i,
         NEW J,
         NEW r,
         GivesBack(rows, i, J, r)
  PROVE  RowInv(f, r, ans) /\ Opened(r[i])
<1>. USE DEF GivesBack
<1>0. \A j \in DOMAIN rows : rows[j] \in Row(rows[j].node) /\ j \in Id /\ j # NoId
  BY RowBounds DEF RowInv, Typed, NoId, Id
<1>1. /\ Opened(rows[i])
      /\ \A j \in J : rows[j].status = "terminated" /\ rows[j].assignee = Nobody
                      /\ ~OrSigned(f, rows[j].node)
  <2>1. Opened(rows[i])
    BY DEF Opened
  <2>2. \A j \in J : /\ rows[j].assignee = Nobody /\ ~OrSigned(f, rows[j].node)
                     /\ rows[j].status = "terminated" \/ (rows[j].parent = NoId /\ rows[j].status = "completed")
    BY <1>0 DEF RowInv, Claims
  <2>3. \A j \in J : ~(rows[j].parent = NoId /\ rows[j].status = "completed")
    BY <2>1 DEF RowInv, LoneMain
  <2>4. QED
    BY <2>1, <2>2, <2>3
<1>2. \A j \in DOMAIN rows :
        /\ Opened(r[j]) => Opened(rows[j]) \/ j \in J
        /\ r[j].status = "completed" <=> rows[j].status = "completed"
        /\ Opened(r[j]) => r[j].node = rows[j].node
  BY <1>1 DEF Opened
<1>3. Typed(f, r, ans)
  BY <1>2 DEF RowInv, Typed
<1>4. Family(f, r)
  BY DEF RowInv, Family
<1>5. LoneMain(f, r)
  <2>1. \A a, b \in DOMAIN r :
       r[a].parent = NoId /\ r[b].parent = NoId /\ r[a].node = r[b].node => a = b \/ OrSigned(f, r[a].node)
    BY DEF RowInv, LoneMain
  <2>2. ASSUME NEW a \in DOMAIN r, NEW b \in DOMAIN r,
               r[a].parent = NoId, r[a].status = "completed", Opened(r[b]), r[a].node = r[b].node
        PROVE  FALSE
    <3>1. rows[a].parent = NoId /\ rows[a].status = "completed" /\ rows[a].node = rows[b].node
      BY <1>2, <2>2
    <3>2. b \in J => rows[b].node = rows[i].node
      OBVIOUS
    <3>3. rows[a].node # rows[i].node
      BY <1>2, <2>2, <3>1, <3>2, <1>1 DEF RowInv, LoneMain, OneNode
    <3>4. QED
      BY <1>2, <2>2, <3>1, <3>2, <3>3 DEF RowInv, LoneMain
  <2>3. ASSUME NEW a \in DOMAIN r, NEW b \in DOMAIN r, OrSigned(f, r[a].node), r[a].node = r[b].node, a # b,
               Opened(r[a]), Opened(r[b])
        PROVE  r[a].status = "active" /\ ~r[a].claimed
    <3>1. a \notin J /\ b \notin J /\ OrSigned(f, rows[a].node) /\ rows[a].node = rows[b].node
      BY <1>1, <2>3
    <3>2. Opened(rows[a]) /\ Opened(rows[b])
      BY <1>2, <2>3, <3>1
    <3>3. a # i /\ b # i
      BY <2>3, <3>1, <3>2 DEF RowInv, LoneMain
    <3>4. QED
      BY <2>3, <3>1, <3>2, <3>3 DEF RowInv, LoneMain
  <2>4. \A a, b \in DOMAIN r :
       /\ r[a].parent = NoId /\ r[b].parent = NoId /\ r[a].node = r[b].node
       /\ r[a].status = "completed" /\ r[b].status = "completed"
       => a = b
    BY <1>2 DEF RowInv, LoneMain
  <2>5. QED
    BY <2>1, <2>2, <2>3, <2>4 DEF LoneMain
<1>6. Claims(f, r)
  <2>1. SUFFICES ASSUME NEW j \in DOMAIN rows
        PROVE  /\ r[j].status = "pending" => r[j].assignee = Nobody
               /\ r[j].closedBy # NoId =>
                    /\ ~OrSigned(f, r[j].node)
                    /\ r[j].assignee = Nobody
                    /\ r[j].status = "terminated" \/ (r[j].parent = NoId /\ r[j].status = "completed")
               /\ r[j].parent = NoId /\ r[j].status = "terminated" /\ ~OrSigned(f, r[j].node)
                    => r[j].assignee = Nobody
               /\ r[j].fallback => AskedBy(f, r[j].node) = <<>>
    BY DEF Claims
  <2>. /\ rows[j].status = "pending" => rows[j].assignee = Nobody
       /\ rows[j].closedBy # NoId =>
                    /\ ~OrSigned(f, rows[j].node)
                    /\ rows[j].assignee = Nobody
                    /\ rows[j].status = "terminated" \/ (rows[j].parent = NoId /\ rows[j].status = "completed")
       /\ rows[j].parent = NoId /\ rows[j].status = "terminated" /\ ~OrSigned(f, rows[j].node)
            => rows[j].assignee = Nobody
       /\ rows[j].fallback => AskedBy(f, rows[j].node) = <<>>
    BY DEF RowInv, Claims
  <2>2. CASE j = i
    BY <1>1, <1>2, <2>2 DEF Opened
  <2>3. CASE j \in J
    BY <1>0, <1>1, <2>3
  <2>4. CASE j \notin J /\ j # i
    BY <1>2, <2>4
  <2>5. QED
    BY <2>2, <2>3, <2>4
<1>7. Ends(f, r, ans)
  <2>1. \A k \in DOMAIN ans : ans[k] \in DOMAIN rows
    BY DEF RowInv, Typed, ToSet
  <2>2. QED
    BY <2>1 DEF RowInv, Ends
<1>8. Cut(r)
  BY <1>1 DEF RowInv, Cut
<1>9. Recallable(f, r)
  <2>1. SUFFICES ASSUME "Recall" \in f.uses PROVE Recallable(f, r)
    BY DEF Recallable
  <2>2. rows[i].parent = NoId /\ J = {}
    BY <1>0, <2>1 DEF RowInv, Recallable
  <2>3. \A j \in DOMAIN rows : Aggregate(f, r, j) <=> Aggregate(f, rows, j)
    BY DEF Aggregate
  <2>4. ~Aggregate(f, rows, i)
    BY <2>1 DEF RowInv, Recallable
  <2>5. \A j \in DOMAIN rows : rows[j].parent # NoId => rows[j].parent \in DOMAIN rows
    BY DEF RowInv, Family
  <2>6. QED
    BY <1>2, <2>1, <2>2, <2>3, <2>4, <2>5 DEF RowInv, Recallable
<1>10. OneNode(f, r)
  <2>1. \A j \in DOMAIN rows : Opened(r[j]) => \E c \in DOMAIN rows : Opened(rows[c]) /\ rows[c].node = rows[j].node
    BY <1>1, <1>2
  <2>2. QED
    BY <2>1 DEF RowInv, OneNode
<1>11. QED
  BY <1>3, <1>4, <1>5, <1>6, <1>7, <1>8, <1>9, <1>10 DEF RowInv, Opened

-----------------------------------------------------------------------------
(* Answers.                                                                *)

(* The order ans2 has the answers of ans and then those of A. *)
Longer(ans, ans2, A) ==
  /\ ans2 \in Seq(Id) /\ IsInjective(ans2) /\ Len(ans) \in Nat /\ Len(ans2) > Len(ans)
  /\ \A k \in DOMAIN ans : k \in DOMAIN ans2 /\ ans2[k] = ans[k]
  /\ \A k \in DOMAIN ans2 : k \notin DOMAIN ans => k > Len(ans) /\ ans2[k] \in A
  /\ \A j : j \in ToSet(ans2) <=> j \in ToSet(ans) \/ j \in A

(* One or two more answers. *)
LEMMA AnswerOne ==
  ASSUME NEW ans \in Seq(Id), IsInjective(ans), NEW i \in Id, i \notin ToSet(ans),
         NEW ans2, ans2 = Append(ans, i)
  PROVE  Longer(ans, ans2, {i})
<1>1. /\ ans2 \in Seq(Id) /\ Len(ans2) = Len(ans) + 1
      /\ \A k \in 1..Len(ans) : ans2[k] = ans[k]
      /\ ans2[Len(ans) + 1] = i
  BY AppendProperties
<1>2. Len(ans) \in Nat /\ DOMAIN ans = 1..Len(ans) /\ DOMAIN ans2 = 1..(Len(ans) + 1)
  BY <1>1, LenProperties
<1>3. \A k \in DOMAIN ans2 : k \in DOMAIN ans \/ k = Len(ans) + 1
  BY <1>2
<1>4. \A k \in DOMAIN ans : k \in DOMAIN ans2 /\ ans2[k] = ans[k] /\ k # Len(ans) + 1
  BY <1>1, <1>2
<1>5. Len(ans) + 1 \in DOMAIN ans2
  BY <1>2
<1>6. \A j : j \in ToSet(ans2) <=> j \in ToSet(ans) \/ j = i
  BY <1>1, <1>3, <1>4, <1>5 DEF ToSet
<1>7. IsInjective(ans2)
  BY <1>1, <1>3, <1>4 DEF IsInjective, ToSet
<1>8. QED
  BY <1>1, <1>2, <1>3, <1>4, <1>6, <1>7 DEF Longer

(* Two answers more in the order of answers. *)
LEMMA AnswerTwo ==
  ASSUME NEW ans \in Seq(Id), IsInjective(ans), NEW i \in Id, i \notin ToSet(ans),
         NEW p \in Id, p \notin ToSet(ans), p # i,
         NEW ans2, ans2 = ans \o <<i, p>>
  PROVE  Longer(ans, ans2, {i, p})
<1>1. <<i, p>> \in Seq(Id) /\ Len(<<i, p>>) = 2 /\ <<i, p>>[1] = i /\ <<i, p>>[2] = p
  OBVIOUS
<1>2. /\ ans2 \in Seq(Id) /\ Len(ans2) = Len(ans) + 2
      /\ \A k \in 1..(Len(ans) + 2) : ans2[k] = IF k <= Len(ans) THEN ans[k] ELSE <<i, p>>[k - Len(ans)]
  BY <1>1, ConcatProperties
<1>3. Len(ans) \in Nat /\ DOMAIN ans = 1..Len(ans) /\ DOMAIN ans2 = 1..(Len(ans) + 2)
  BY <1>2, LenProperties
<1>4. ans2[Len(ans) + 1] = i /\ ans2[Len(ans) + 2] = p
  BY <1>1, <1>2, <1>3
<1>5. \A k \in DOMAIN ans2 : k \in DOMAIN ans \/ k = Len(ans) + 1 \/ k = Len(ans) + 2
  BY <1>3
<1>6. \A k \in DOMAIN ans : k \in DOMAIN ans2 /\ ans2[k] = ans[k] /\ k # Len(ans) + 1 /\ k # Len(ans) + 2
  BY <1>2, <1>3
<1>7. Len(ans) + 1 \in DOMAIN ans2 /\ Len(ans) + 2 \in DOMAIN ans2
  BY <1>3
<1>8. \A j : j \in ToSet(ans2) <=> j \in ToSet(ans) \/ j = i \/ j = p
  <2>1. \A j : j \in ToSet(ans2) <=> \E k \in DOMAIN ans2 : ans2[k] = j
    BY DEF ToSet
  <2>2. \A j : j \in ToSet(ans) <=> \E k \in DOMAIN ans : ans[k] = j
    BY DEF ToSet
  <2>3. ASSUME NEW j, j \in ToSet(ans2) PROVE j \in ToSet(ans) \/ j = i \/ j = p
    <3>1. PICK k \in DOMAIN ans2 : ans2[k] = j
      BY <2>1, <2>3
    <3>2. QED
      BY <1>4, <1>5, <1>6, <2>2, <3>1
  <2>4. ASSUME NEW j, j \in ToSet(ans) PROVE j \in ToSet(ans2)
    <3>1. PICK k \in DOMAIN ans : ans[k] = j
      BY <2>2, <2>4
    <3>2. QED
      BY <1>6, <2>1, <3>1
  <2>5. i \in ToSet(ans2) /\ p \in ToSet(ans2)
    BY <1>4, <1>7, <2>1
  <2>6. QED
    BY <2>3, <2>4, <2>5
<1>9. IsInjective(ans2)
  <2>1. SUFFICES ASSUME NEW k \in DOMAIN ans2, NEW l \in DOMAIN ans2, ans2[k] = ans2[l] PROVE k = l
    BY DEF IsInjective
  <2>2. \A m \in DOMAIN ans : ans[m] # i /\ ans[m] # p
    BY DEF ToSet
  <2>3. \A m, o \in DOMAIN ans : ans[m] = ans[o] => m = o
    BY DEF IsInjective
  <2>4. QED
    BY <1>4, <1>5, <1>6, <2>1, <2>2, <2>3
<1>10. \A k \in DOMAIN ans2 : k \notin DOMAIN ans => k > Len(ans) /\ ans2[k] \in {i, p}
  BY <1>3, <1>4, <1>5
<1>11. Len(ans2) > Len(ans)
  BY <1>2, <1>3
<1>12. \A j : j \in ToSet(ans2) <=> j \in ToSet(ans) \/ j \in {i, p}
  BY <1>8
<1>13. QED
  BY <1>2, <1>3, <1>6, <1>9, <1>10, <1>11, <1>12 DEF Longer

(* The rows of A are answered, and the open ones of T terminated with them. *)
Answered(f, rows, ans, i, A, T, why, r, ans2) ==
  /\ A \subseteq DOMAIN rows
  /\ T \subseteq DOMAIN rows
  /\ A \cap T = {}
  /\ i \in A
  /\ Opened(rows[i])
  /\ why \in {"threshold", "sibling"}
  /\ \A a \in A : /\ rows[a].node = rows[i].node /\ rows[a].status # "completed"
                  /\ Opened(rows[a]) \/ rows[a].parent = NoId
  /\ \A j \in T : /\ Opened(rows[j])
                  /\ ~OrSigned(f, rows[j].node) =>
                       why = "threshold" /\ rows[j].parent # NoId /\ rows[j].parent \in A
  /\ \A a, b \in A : rows[a].parent = NoId /\ rows[b].parent = NoId => a = b
  /\ (\E a \in A : rows[a].parent = NoId) => \A j \in DOMAIN rows : Opened(rows[j]) => j \in A \cup T
  /\ DOMAIN r = DOMAIN rows
  /\ \A j \in DOMAIN rows :
       /\ r[j] \in Row(rows[j].node)
       /\ r[j].node = rows[j].node /\ r[j].parent = rows[j].parent /\ r[j].closedBy = rows[j].closedBy
       /\ r[j].fallback = rows[j].fallback /\ r[j].born = rows[j].born /\ r[j].claimed = rows[j].claimed
       /\ r[j].assignee = rows[j].assignee /\ r[j].owner = rows[j].owner
  /\ \A j \in A : r[j].status = "completed" /\ r[j].reason \in {"approved", "rejected"}
  /\ \A j \in T : r[j].status = "terminated" /\ r[j].reason = why
  /\ \A j \in DOMAIN rows : j \notin A /\ j \notin T =>
       r[j].status = rows[j].status /\ r[j].reason = rows[j].reason
  /\ Longer(ans, ans2, A)

(* Answers, and the end of the tasks they decide, keep the rows right. *)
LEMMA AnswerRows ==
  ASSUME NEW f \in Flows,
         NEW rows,
         NEW ans,
         RowInv(f, rows, ans),
         NEW r,
         NEW ans2,
         NEW A,
         NEW T,
         NEW i,
         NEW why,
         Answered(f, rows, ans, i, A, T, why, r, ans2)
  PROVE  RowInv(f, r, ans2)
<1>. USE DEF Answered, Longer
<1>1. \A j \in DOMAIN rows :
        /\ Opened(r[j]) => Opened(rows[j]) /\ j \notin A /\ j \notin T /\ r[j].status = rows[j].status
        /\ r[j].status = "completed" <=> rows[j].status = "completed" \/ j \in A
        /\ rows[j].status = "completed" => j \notin T
  BY DEF Opened
<1>2. Typed(f, r, ans2)
  <2>1. \A j \in Id : j \in ToSet(ans) <=> j \in DOMAIN rows /\ rows[j].status = "completed"
    BY DEF RowInv, Typed
  <2>2. DOMAIN r \subseteq Id /\ \A j \in DOMAIN r : r[j] \in Row(r[j].node) /\ r[j].node \in NodesOf(f)
    BY DEF RowInv, Typed
  <2>3. \A j \in Id : j \in ToSet(ans2) <=> j \in DOMAIN r /\ r[j].status = "completed"
    BY <1>1, <2>1
  <2>4. QED
    BY <2>2, <2>3 DEF Typed
<1>3. Family(f, r)
  BY DEF RowInv, Family
<1>4. LoneMain(f, r)
  <2>1. \A a, b \in DOMAIN r :
       r[a].parent = NoId /\ r[b].parent = NoId /\ r[a].node = r[b].node => a = b \/ OrSigned(f, r[a].node)
    BY DEF RowInv, LoneMain
  <2>2. ASSUME NEW a \in DOMAIN r, NEW b \in DOMAIN r,
               r[a].parent = NoId, r[a].status = "completed", Opened(r[b]), r[a].node = r[b].node
        PROVE  FALSE
    <3>1. Opened(rows[b]) /\ b \notin A /\ b \notin T
      BY <1>1, <2>2
    <3>2. a \notin A
      BY <2>2, <3>1
    <3>3. rows[a].status = "completed" /\ rows[a].parent = NoId /\ rows[a].node = rows[b].node
      BY <1>1, <2>2, <3>2
    <3>4. QED
      BY <3>1, <3>3 DEF RowInv, LoneMain
  <2>3. ASSUME NEW a \in DOMAIN r, NEW b \in DOMAIN r, OrSigned(f, r[a].node), r[a].node = r[b].node, a # b,
               Opened(r[a]), Opened(r[b])
        PROVE  r[a].status = "active" /\ ~r[a].claimed
    <3>1. /\ Opened(rows[a]) /\ Opened(rows[b]) /\ OrSigned(f, rows[a].node) /\ rows[a].node = rows[b].node
          /\ r[a].status = rows[a].status /\ r[a].claimed = rows[a].claimed
      BY <1>1, <2>3
    <3>2. QED
      BY <2>3, <3>1 DEF RowInv, LoneMain
  <2>4. ASSUME NEW a \in DOMAIN r, NEW b \in DOMAIN r,
               r[a].parent = NoId, r[b].parent = NoId, r[a].node = r[b].node,
               r[a].status = "completed", r[b].status = "completed"
        PROVE  a = b
    <3>1. /\ rows[a].parent = NoId /\ rows[b].parent = NoId /\ rows[a].node = rows[b].node
          /\ rows[a].status = "completed" \/ a \in A
          /\ rows[b].status = "completed" \/ b \in A
      BY <1>1, <2>4
    <3>2. \A c \in A, d \in DOMAIN rows :
            rows[d].parent = NoId /\ rows[d].status = "completed" => rows[d].node # rows[c].node
      BY DEF RowInv, LoneMain
    <3>3. QED
      BY <3>1, <3>2 DEF RowInv, LoneMain
  <2>5. QED
    BY <2>1, <2>2, <2>3, <2>4 DEF LoneMain
<1>5. Claims(f, r)
  <2>1. SUFFICES ASSUME NEW j \in DOMAIN rows
        PROVE  /\ r[j].status = "pending" => r[j].assignee = Nobody
               /\ r[j].closedBy # NoId =>
                    /\ ~OrSigned(f, r[j].node)
                    /\ r[j].assignee = Nobody
                    /\ r[j].status = "terminated" \/ (r[j].parent = NoId /\ r[j].status = "completed")
               /\ r[j].parent = NoId /\ r[j].status = "terminated" /\ ~OrSigned(f, r[j].node)
                    => r[j].assignee = Nobody
               /\ r[j].fallback => AskedBy(f, r[j].node) = <<>>
    BY DEF Claims
  <2>. /\ rows[j].status = "pending" => rows[j].assignee = Nobody
       /\ rows[j].closedBy # NoId =>
            /\ ~OrSigned(f, rows[j].node)
            /\ rows[j].assignee = Nobody
            /\ rows[j].status = "terminated" \/ (rows[j].parent = NoId /\ rows[j].status = "completed")
       /\ rows[j].parent = NoId /\ rows[j].status = "terminated" /\ ~OrSigned(f, rows[j].node)
            => rows[j].assignee = Nobody
       /\ rows[j].fallback => AskedBy(f, rows[j].node) = <<>>
    BY DEF RowInv, Claims
  <2>2. r[j].status = "pending" => r[j].assignee = Nobody
    BY <1>1 DEF Opened
  <2>3. r[j].closedBy # NoId => r[j].status = "terminated" \/ (r[j].parent = NoId /\ r[j].status = "completed")
    BY <1>1 DEF Opened
  <2>4. r[j].parent = NoId /\ r[j].status = "terminated" /\ ~OrSigned(f, r[j].node) => r[j].assignee = Nobody
    BY <1>1
  <2>5. QED
    BY <2>2, <2>3, <2>4
<1>6. Ends(f, r, ans2)
  <2>1. \A k \in DOMAIN ans : ans[k] \in DOMAIN rows
    BY DEF RowInv, Typed, ToSet
  <2>2. Len(ans) \in Nat /\ Len(ans2) \in Nat
    BY LenProperties DEF RowInv, Typed
  <2>3. \A j \in DOMAIN rows : rows[j].born \in Nat /\ rows[j].born <= Len(ans)
    BY RowFields DEF RowInv, Typed, Ends
  <2>4. \A k \in DOMAIN ans2 : k \in Nat
    BY LenProperties
  <2>5. \A j \in DOMAIN r : r[j].born <= Len(ans2)
    BY <2>2, <2>3
  <2>6. ASSUME NEW k \in DOMAIN ans2 PROVE r[ans2[k]].born < k
    <3>1. CASE k \in DOMAIN ans
      BY <2>1, <3>1 DEF RowInv, Ends
    <3>2. CASE k \notin DOMAIN ans
      <4>1. ans2[k] \in DOMAIN rows /\ k > Len(ans)
        BY <3>2
      <4>2. QED
        BY <2>2, <2>3, <2>4, <4>1
    <3>3. QED
      BY <3>1, <3>2
  <2>7. ASSUME NEW k \in DOMAIN ans2, NEW j \in DOMAIN r,
               PlaceOf(f, r[ans2[k]].node) < PlaceOf(f, r[j].node)
        PROVE  k <= r[j].born
    <3>1. CASE k \in DOMAIN ans
      BY <2>1, <2>7, <3>1 DEF RowInv, Ends
    <3>2. CASE k \notin DOMAIN ans
      <4>1. ans2[k] \in A
        BY <3>2
      <4>2. r[ans2[k]].node = rows[i].node /\ r[j].node = rows[j].node
        BY <4>1
      <4>3. PlaceOf(f, rows[j].node) <= PlaceOf(f, rows[i].node)
        BY DEF RowInv, OneNode
      <4>4. PlaceOf(f, rows[j].node) \in Nat /\ PlaceOf(f, rows[i].node) \in Nat
        BY PlaceType DEF RowInv, Typed
      <4>5. QED
        BY <2>7, <4>2, <4>3, <4>4
    <3>3. QED
      BY <3>1, <3>2
  <2>8. QED
    BY <2>5, <2>6, <2>7 DEF Ends
<1>7. Cut(r)
  BY <1>1 DEF RowInv, Cut
<1>8. Recallable(f, r)
  <2>1. SUFFICES ASSUME "Recall" \in f.uses, NEW j \in DOMAIN rows
                 PROVE  /\ r[j].closedBy = NoId
                        /\ r[j].parent # NoId => VoteNode(f, r[j].node) /\ r[j].status # "pending" /\ ~r[j].claimed
                        /\ Aggregate(f, r, j) => r[j].assignee = Nobody /\ r[j].owner = Nobody /\ r[j].status # "pending"
                        /\ r[j].status = "terminated" /\ ~OrSigned(f, r[j].node) =>
                             /\ r[j].parent # NoId
                             /\ r[j].reason = "threshold"
                             /\ r[r[j].parent].status = "completed"
    BY DEF Recallable
  <2>2. Aggregate(f, r, j) <=> Aggregate(f, rows, j)
    BY DEF Aggregate
  <2>3. r[j].status = "pending" => rows[j].status = "pending"
    BY <1>1 DEF Opened
  <2>4. rows[j].parent # NoId => rows[j].parent \in DOMAIN rows
    BY DEF RowInv, Family
  <2>5. r[j].closedBy = NoId
    BY <2>1 DEF RowInv, Recallable
  <2>6. r[j].parent # NoId => VoteNode(f, r[j].node) /\ r[j].status # "pending" /\ ~r[j].claimed
    BY <2>1, <2>3 DEF RowInv, Recallable
  <2>7. Aggregate(f, r, j) => r[j].assignee = Nobody /\ r[j].owner = Nobody /\ r[j].status # "pending"
    BY <2>1, <2>2, <2>3 DEF RowInv, Recallable
  <2>8. ASSUME r[j].status = "terminated", ~OrSigned(f, r[j].node)
        PROVE  r[j].parent # NoId /\ r[j].reason = "threshold" /\ r[r[j].parent].status = "completed"
    <3>1. CASE j \in T
      BY <1>1, <2>8, <3>1
    <3>2. CASE j \notin T
      <4>1. j \notin A /\ rows[j].status = "terminated" /\ rows[j].reason = r[j].reason
        BY <2>8, <3>2
      <4>2. rows[j].parent # NoId /\ rows[j].reason = "threshold" /\ rows[rows[j].parent].status = "completed"
        BY <2>1, <2>8, <4>1 DEF RowInv, Recallable
      <4>3. QED
        BY <1>1, <2>4, <4>1, <4>2
    <3>3. QED
      BY <3>1, <3>2
  <2>9. QED
    BY <2>5, <2>6, <2>7, <2>8
<1>9. OneNode(f, r)
  BY <1>1 DEF RowInv, OneNode
<1>10. QED
  BY <1>2, <1>3, <1>4, <1>5, <1>6, <1>7, <1>8, <1>9 DEF RowInv

-----------------------------------------------------------------------------
(* Rows that leave.                                                        *)

(* The answers on rows that stay keep their order, and their rows are as   *)
(* much older than them as they were.                                      *)
Older(rows, ans, S, r, ans2) ==
  /\ Len(ans) \in Nat
  /\ DOMAIN ans = 1..Len(ans)
  /\ \A k \in DOMAIN ans : ans[k] \in DOMAIN rows
  /\ Places(S)
  /\ S \subseteq DOMAIN ans
  /\ Len(ans2) \in Nat
  /\ DOMAIN ans2 = 1..Len(ans2)
  /\ \A k \in 1..Len(ans2) : Nth(S, k) \in S /\ Rank(S, Nth(S, k)) = k /\ ans2[k] = ans[Nth(S, k)]
  /\ \A b \in 0..Len(ans) : Rank(S, b) \in 0..Len(ans2)
  /\ DOMAIN r \subseteq DOMAIN rows
  /\ \A k \in S : ans[k] \in DOMAIN r
  /\ \A j \in DOMAIN r : /\ r[j].node = rows[j].node /\ rows[j].born \in Nat
                         /\ r[j].born = Rank(S, rows[j].born)

(* The order of answers survives when some of them are taken away. *)
LEMMA KeptEnds ==
  ASSUME NEW f \in Flows,
         NEW rows,
         NEW ans,
         NEW r,
         NEW ans2,
         Ends(f, rows, ans),
         NEW S,
         Older(rows, ans, S, r, ans2)
  PROVE  Ends(f, r, ans2)
<1>. USE DEF Older
<1>1. \A j \in DOMAIN r : rows[j].born \in 0..Len(ans)
  BY DEF Ends
<1>2. \A j \in DOMAIN r : r[j].born <= Len(ans2)
  BY <1>1
<1>3. ASSUME NEW k \in DOMAIN ans2 PROVE r[ans2[k]].born < k
  <2>1. PICK l \in S : l = Nth(S, k) /\ Rank(S, l) = k /\ ans2[k] = ans[l]
    OBVIOUS
  <2>2. rows[ans[l]].born < l /\ rows[ans[l]].born \in Nat /\ ans[l] \in DOMAIN r
    BY DEF Ends
  <2>3. Rank(S, rows[ans[l]].born) < Rank(S, l)
    BY <2>2, RankRises
  <2>4. QED
    BY <2>1, <2>2, <2>3
<1>4. ASSUME NEW k \in DOMAIN ans2, NEW j \in DOMAIN r,
             PlaceOf(f, r[ans2[k]].node) < PlaceOf(f, r[j].node)
      PROVE  k <= r[j].born
  <2>1. PICK l \in S : l = Nth(S, k) /\ Rank(S, l) = k /\ ans2[k] = ans[l]
    OBVIOUS
  <2>2. ans[l] \in DOMAIN r /\ l \in Nat
    BY PlacesFinite
  <2>3. l <= rows[j].born /\ rows[j].born \in Nat
    BY <1>4, <2>1, <2>2 DEF Ends
  <2>4. Rank(S, l) <= Rank(S, rows[j].born)
    BY <2>2, <2>3, RankGrows
  <2>5. QED
    BY <2>1, <2>4
<1>5. QED
  BY <1>2, <1>3, <1>4 DEF Ends

(* Rows leave with their sub-tasks. *)
Removed(rows, ans, gone, S, r, ans2) ==
  /\ \A j \in DOMAIN rows : rows[j].parent \in gone => j \in gone
  /\ \A k : k \in S <=> k \in DOMAIN ans /\ ans[k] \notin gone
  /\ Places(S)
  /\ ans2 \in Seq(Id)
  /\ IsInjective(ans2)
  /\ \A k \in 1..Len(ans2) : Nth(S, k) \in S /\ Rank(S, Nth(S, k)) = k /\ ans2[k] = ans[Nth(S, k)]
  /\ \A b \in 0..Len(ans) : Rank(S, b) \in 0..Len(ans2)
  /\ \A j : j \in ToSet(ans2) <=> j \in ToSet(ans) /\ j \notin gone
  /\ \A j : j \in DOMAIN r <=> j \in DOMAIN rows /\ j \notin gone
  /\ \A j \in DOMAIN r :
       /\ r[j] \in Row(rows[j].node)
       /\ r[j].node = rows[j].node /\ r[j].parent = rows[j].parent
       /\ r[j].fallback = rows[j].fallback /\ r[j].claimed = rows[j].claimed
       /\ r[j].assignee = rows[j].assignee /\ r[j].owner = rows[j].owner
       /\ r[j].status = rows[j].status /\ r[j].reason = rows[j].reason
       /\ r[j].born = Rank(S, rows[j].born)
       /\ r[j].closedBy = rows[j].closedBy \/ r[j].closedBy = NoId

(* Rows that go keep the others right. *)
LEMMA RemoveRows ==
  ASSUME NEW f \in Flows,
         NEW rows,
         NEW ans,
         RowInv(f, rows, ans),
         NEW gone,
         NEW r,
         NEW ans2,
         NEW S,
         Removed(rows, ans, gone, S, r, ans2)
  PROVE  RowInv(f, r, ans2)
<1>. USE DEF Removed
<1>1. DOMAIN r \subseteq DOMAIN rows
  OBVIOUS
<1>2. \A j \in DOMAIN r : Opened(r[j]) <=> Opened(rows[j])
  BY DEF Opened
<1>3. \A j \in DOMAIN rows : rows[j].born \in Nat
  BY RowFields DEF RowInv, Typed
<1>4. Typed(f, r, ans2)
  <2>1. \A j \in Id : j \in ToSet(ans) <=> j \in DOMAIN rows /\ rows[j].status = "completed"
    BY DEF RowInv, Typed
  <2>2. DOMAIN r \subseteq Id /\ \A j \in DOMAIN r : r[j] \in Row(r[j].node) /\ r[j].node \in NodesOf(f)
    BY DEF RowInv, Typed
  <2>3. \A j \in Id : j \in ToSet(ans2) <=> j \in DOMAIN r /\ r[j].status = "completed"
    BY <1>1, <2>1
  <2>4. QED
    BY <2>2, <2>3 DEF Typed
<1>5. \A j \in DOMAIN r : r[j].parent # NoId =>
        r[j].parent \in DOMAIN r /\ rows[j].parent \in DOMAIN rows
  BY DEF RowInv, Family
<1>6. Family(f, r)
  <2>1. SUFFICES ASSUME NEW j \in DOMAIN r, r[j].parent # NoId, NEW p, p = r[j].parent
                 PROVE  /\ ~OrSigned(f, r[j].node)
                        /\ p \in DOMAIN r
                        /\ r[p].parent = NoId
                        /\ r[p].node = r[j].node
                        /\ r[p].born <= r[j].born
    BY DEF Family
  <2>2. /\ ~OrSigned(f, rows[j].node) /\ p \in DOMAIN rows /\ rows[p].parent = NoId
        /\ rows[p].node = rows[j].node /\ rows[p].born <= rows[j].born /\ p \in DOMAIN r
    BY <1>5, <2>1 DEF RowInv, Family
  <2>3. Rank(S, rows[p].born) <= Rank(S, rows[j].born)
    BY <1>1, <1>3, <2>2, RankGrows
  <2>4. QED
    BY <2>2, <2>3
<1>7. LoneMain(f, r)
  BY <1>1, <1>2 DEF RowInv, LoneMain
<1>8. Claims(f, r)
  BY <1>1 DEF RowInv, Claims
<1>9. Ends(f, r, ans2)
  <2>1. Ends(f, rows, ans)
    BY DEF RowInv
  <2>2. Len(ans) \in Nat /\ DOMAIN ans = 1..Len(ans) /\ DOMAIN ans2 = 1..Len(ans2) /\ Len(ans2) \in Nat
    BY LenProperties DEF RowInv, Typed
  <2>3. \A k \in DOMAIN ans : ans[k] \in DOMAIN rows
    BY DEF RowInv, Typed, ToSet
  <2>4. S \subseteq DOMAIN ans /\ \A k \in S : ans[k] \in DOMAIN r
    BY <2>3
  <2>5. \A j \in DOMAIN r : r[j].node = rows[j].node /\ rows[j].born \in Nat /\ r[j].born = Rank(S, rows[j].born)
    BY <1>1, <1>3
  <2>6. /\ Places(S) /\ S \subseteq DOMAIN ans /\ Len(ans2) \in Nat
        /\ \A k \in 1..Len(ans2) : Nth(S, k) \in S /\ Rank(S, Nth(S, k)) = k /\ ans2[k] = ans[Nth(S, k)]
        /\ \A b \in 0..Len(ans) : Rank(S, b) \in 0..Len(ans2)
        /\ DOMAIN r \subseteq DOMAIN rows
    BY <1>1, <2>4
  <2>7. Older(rows, ans, S, r, ans2)
    BY <2>2, <2>3, <2>4, <2>5, <2>6 DEF Older
  <2>. HIDE DEF Removed
  <2>8. QED
    BY <2>1, <2>7, KeptEnds
<1>10. Cut(r)
  BY <1>1 DEF RowInv, Cut
<1>11. Recallable(f, r)
  <2>1. SUFFICES ASSUME "Recall" \in f.uses, NEW j \in DOMAIN r
                 PROVE  /\ r[j].closedBy = NoId
                        /\ r[j].parent # NoId => VoteNode(f, r[j].node) /\ r[j].status # "pending" /\ ~r[j].claimed
                        /\ Aggregate(f, r, j) => r[j].assignee = Nobody /\ r[j].owner = Nobody /\ r[j].status # "pending"
                        /\ r[j].status = "terminated" /\ ~OrSigned(f, r[j].node) =>
                             /\ r[j].parent # NoId
                             /\ r[j].reason = "threshold"
                             /\ r[r[j].parent].status = "completed"
    BY DEF Recallable
  <2>2. Aggregate(f, r, j) => Aggregate(f, rows, j)
    BY <1>1 DEF Aggregate
  <2>3. QED
    BY <1>1, <1>5, <2>1, <2>2 DEF RowInv, Recallable
<1>12. OneNode(f, r)
  BY <1>1, <1>2 DEF RowInv, OneNode
<1>13. QED
  BY <1>4, <1>6, <1>7, <1>8, <1>9, <1>10, <1>11, <1>12 DEF RowInv

(* Archive. *)
Aged(w, e, gone) == [w EXCEPT !.born = e, !.closedBy = IF @ \in gone THEN NoId ELSE @]

(* The fields of a row that stays. *)
LEMMA WithoutRow ==
  ASSUME NEW n, NEW w \in Row(n), NEW e \in 0..MaxRows, NEW gone,
         NEW x, x = Aged(w, e, gone)
  PROVE  /\ x \in Row(n) /\ x.node = w.node /\ x.parent = w.parent /\ x.fallback = w.fallback
         /\ x.claimed = w.claimed /\ x.pool = w.pool /\ x.assignee = w.assignee /\ x.owner = w.owner
         /\ x.status = w.status /\ x.reason = w.reason /\ x.born = e
         /\ x.closedBy = w.closedBy \/ x.closedBy = NoId
<1>1. x \in Row(n)
  BY DEF Aged, Row
<1>2. QED
  BY <1>1 DEF Aged, Row

(* Row x is what is left of row w. *)
AgedRow(x, w, S) ==
  /\ x \in Row(w.node)
  /\ x.node = w.node /\ x.parent = w.parent
  /\ x.fallback = w.fallback /\ x.claimed = w.claimed
  /\ x.assignee = w.assignee /\ x.owner = w.owner /\ x.pool = w.pool
  /\ x.status = w.status /\ x.reason = w.reason
  /\ x.born = Rank(S, w.born)
  /\ x.closedBy = w.closedBy \/ x.closedBy = NoId

(* Without leaves the rows that stay as they were, with their ages         *)
(* adjusted.                                                               *)
LEMMA WithoutRows ==
  ASSUME def \in Flows, RowInv(def, task, answered), NEW gone, NEW S, S = Staying(gone),
         NEW r, r = Without(task, gone)
  PROVE  /\ DOMAIN r = Ids \ gone
         /\ \A j \in Ids \ gone : AgedRow(r[j], task[j], S)
<1>1. DOMAIN Without(task, gone) = Ids \ gone
  BY DEF Without, Ids
<1>2. ASSUME NEW j \in Ids \ gone, NEW x, x = Without(task, gone)[j]
      PROVE  AgedRow(x, task[j], S)
  <2>1. task[j] \in Row(task[j].node) /\ task[j].born \in 0..MaxRows /\ task[j].born \in Nat
        /\ task[j].born <= Len(answered)
    BY RowFields DEF RowInv, Typed, Ends, Ids
  <2>2. answered \in Seq(Id) /\ IsInjective(answered) /\ Len(answered) \in Nat
    BY LenProperties DEF RowInv, Typed
  <2>3. PICK C : C = Cardinality(S)
    OBVIOUS
  <2>4. Earlier(task[j].born, gone) = Rank(S, task[j].born) /\ Rank(S, task[j].born) \in 0..C
        /\ Rank(S, task[j].born) <= task[j].born /\ C \in Nat
    BY <2>1, <2>2, <2>3, KeptAnswers
  <2>5. PICK e : e = Earlier(task[j].born, gone)
    OBVIOUS
  <2>6. e \in 0..MaxRows
    BY <2>1, <2>4, <2>5, RowBounds
  <2>7. x = Aged(task[j], e, gone)
    BY <1>2, <2>5 DEF Without, Ids, Aged
  <2>8. QED
    BY <2>1, <2>4, <2>5, <2>6, <2>7, WithoutRow DEF AgedRow
<1>3. QED
  BY <1>1, <1>2

(* Archive removes rows as RemoveRows wants them removed. *)
LEMMA ArchiveRows ==
  ASSUME def \in Flows, RowInv(def, task, answered), NEW gone,
         \A j \in Ids : task[j].parent \in gone => j \in gone
  PROVE  /\ RowInv(def, Without(task, gone), Unanswer(gone))
         /\ DOMAIN Without(task, gone) = Ids \ gone
         /\ \A j \in Ids \ gone : /\ Without(task, gone)[j].status = task[j].status
                                  /\ Without(task, gone)[j].node = task[j].node
<1>. DEFINE S == Staying(gone)
            C == Cardinality(S)
            r == Without(task, gone)
            ans2 == Unanswer(gone)
<1>1. answered \in Seq(Id) /\ IsInjective(answered) /\ Len(answered) \in Nat /\ DOMAIN answered = 1..Len(answered)
  BY LenProperties DEF RowInv, Typed
<1>2. \A k : k \in S <=> k \in DOMAIN answered /\ answered[k] \notin gone
  BY DEF Staying
<1>3. S = Staying(gone) /\ C = Cardinality(S)
  OBVIOUS
<1>. HIDE DEF S, C
<1>4. /\ C \in Nat /\ Places(S)
      /\ ans2 \in Seq(Id) /\ Len(ans2) = C /\ IsInjective(ans2)
      /\ \A k \in 1..C : Nth(S, k) \in S /\ Rank(S, Nth(S, k)) = k /\ ans2[k] = answered[Nth(S, k)]
      /\ \A b \in 0..Len(answered) : Rank(S, b) \in 0..C
      /\ ToSet(ans2) = ToSet(answered) \ gone
  BY <1>1, <1>3, KeptAnswers
<1>0. r = Without(task, gone)
  OBVIOUS
<1>. HIDE DEF r
<1>5. DOMAIN r = Ids \ gone
  BY <1>0, <1>3, WithoutRows
<1>6. \A j \in DOMAIN r : AgedRow(r[j], task[j], S)
  BY <1>0, <1>3, <1>5, WithoutRows
<1>7. \A j : j \in DOMAIN r <=> j \in DOMAIN task /\ j \notin gone
  BY <1>5 DEF Ids
<1>8. \A j \in DOMAIN task : task[j].parent \in gone => j \in gone
  BY DEF Ids
<1>9. \A j : j \in ToSet(ans2) <=> j \in ToSet(answered) /\ j \notin gone
  BY <1>4
<1>. HIDE DEF ans2
<1>10. RowInv(def, r, ans2)
  <2>1. Removed(task, answered, gone, S, r, ans2)
    BY <1>2, <1>4, <1>6, <1>7, <1>8, <1>9 DEF Removed, AgedRow
  <2>2. QED
    BY <2>1, RemoveRows
<1>11. QED
  BY <1>5, <1>6, <1>10 DEF r, ans2, AgedRow

-----------------------------------------------------------------------------
(* The operations on ownership.                                            *)

(* An operation on open tasks after which a task is open. *)
Settled == /\ UNCHANGED <<def, inst, asks, at, resets, recalls, past, last>>
           /\ auto' \in {auto, NoNode}

(* What the operations on ownership do to the rows: hands a, o, status s   *)
(* and pool c are put on row w by an operation that f uses.                *)
Hands(f, w, a, o, s, c) ==
  /\ c # w.pool => "Candidates" \in f.uses
  /\ s # w.status => "SetAssignee" \in f.uses
  /\ s = "active" /\ a = Nobody => w.status = "active" /\ w.assignee = Nobody
  /\ a # w.assignee => f.uses \cap {"SetAssignee", "Reassign", "Delegate", "Transfer"} # {} \/ w.owner # Nobody
  /\ a = Nobody => w.assignee = Nobody \/ "SetAssignee" \in f.uses
  /\ o \in {w.owner, Nobody} \/ f.uses \cap {"SetOwner", "Delegate"} # {}
Passed(f, rows, i, r) ==
  /\ i \in DOMAIN rows /\ DOMAIN r = DOMAIN rows
  /\ \A j \in DOMAIN rows : j # i => r[j] = rows[j]
  /\ Opened(rows[i]) /\ Opened(r[i])
  /\ r[i].node = rows[i].node /\ r[i].parent = rows[i].parent /\ r[i].fallback = rows[i].fallback
  /\ r[i].closedBy = rows[i].closedBy /\ r[i].reason = rows[i].reason /\ r[i].claimed = rows[i].claimed
  /\ Hands(f, rows[i], r[i].assignee, r[i].owner, r[i].status, r[i].pool)
Alike(x, w) ==
  /\ x.node = w.node /\ x.parent = w.parent /\ x.fallback = w.fallback /\ x.pool = w.pool
  /\ x.assignee = w.assignee /\ x.owner = w.owner /\ x.claimed = w.claimed
  /\ x.status = w.status /\ x.reason = w.reason
  /\ x.closedBy = w.closedBy \/ x.closedBy = NoId
Left(rows, gone, r) ==
  /\ DOMAIN r = DOMAIN rows \ gone
  /\ \A j \in DOMAIN r : Alike(r[j], rows[j])
Idle == UNCHANGED <<def, task, asks, at, resets, past>>
TaskPassed == Settled /\ \E i \in Ids : Passed(def, task, i, task')
TaskClaimed ==
  /\ Settled
  /\ "Claim" \in def.uses
  /\ \E i, u, O : Claimed(task, i, u, O, task')
TaskGivenBack ==
  /\ Settled
  /\ "Claim" \in def.uses
  /\ \E i, J : GivesBack(task, i, J, task')

(* An operation on open tasks keeps the invariant when it keeps the rows   *)
(* right.                                                                  *)
LEMMA OpenStep ==
  ASSUME DeskInv, NEW i \in Ids, Opened(task[i]), Settled, RowInv(def, task', answered'),
         NEW k \in DOMAIN task', Opened(task'[k])
  PROVE  DeskInv'
<1>1. ~Driving /\ inst = "active"
  BY DEF DeskInv, Quiet, OneDrive
<1>2. /\ def' = def /\ inst' = inst /\ asks' = asks /\ at' = at /\ resets' = resets
      /\ recalls' = recalls /\ past' = past /\ last' = last /\ auto' \in {auto, NoNode}
  BY DEF Settled
<1>3. Apart(def)' /\ DriveTyped'
  BY <1>2 DEF DeskInv, DriveTyped, Nodes
<1>4. RowInv(def, task, answered)'
  BY <1>2
<1>5. OneDrive' /\ Beyond' /\ Quiet'
  BY <1>1, <1>2, FlowNodes DEF OneDrive, Beyond, Quiet, Driving, Waiting, Ids, DeskInv, DriveTyped, Nodes, NodesOf
<1>6. QED
  BY <1>3, <1>4, <1>5 DEF DeskInv

(* What the operations on ownership leave alone. *)
LEMMA UnmovedSettled ==
  ASSUME Unmoved
  PROVE  Settled /\ answered' = answered
BY DEF Unmoved, Settled, driveVars, histVars

(* A task with other hands on it. *)
Handed(w, a, o, s, c) == [w EXCEPT !.assignee = a, !.owner = o, !.status = s, !.pool = c]

(* The fields of a task in other hands. *)
LEMMA HandedRow ==
  ASSUME NEW n, NEW w \in Row(n), NEW a \in User \cup {Nobody}, NEW o \in User \cup {Nobody},
         NEW s \in {"pending", "active"}, NEW c \in SUBSET (User \cup {Nobody}),
         NEW x, x = Handed(w, a, o, s, c)
  PROVE  /\ x \in Row(n) /\ x.node = w.node /\ x.parent = w.parent /\ x.fallback = w.fallback
         /\ x.born = w.born /\ x.pool = c /\ x.owner = o /\ x.closedBy = w.closedBy /\ x.reason = w.reason
         /\ x.assignee = a /\ x.status = s /\ x.claimed = w.claimed
<1>1. x \in Row(n)
  BY DEF Handed, Row, RowStatus
<1>2. QED
  BY <1>1 DEF Handed, Row

(* Hands that the rows of f allow. *)
Allows(f, rows, i, a, o, s) ==
  /\ a \in User \cup {Nobody} /\ o \in User \cup {Nobody} /\ s \in {"pending", "active"}
  /\ s = "pending" => a = Nobody
  /\ s # rows[i].status => ~OrSigned(f, rows[i].node)
  /\ "Recall" \in f.uses =>
       /\ rows[i].parent # NoId => s # "pending"
       /\ Aggregate(f, rows, i) => a = Nobody /\ o = Nobody /\ s # "pending"

(* Hands that the rows allow keep the invariant. *)
LEMMA HandStep ==
  ASSUME DeskInv, NEW i \in Ids, Opened(task[i]),
         NEW a, NEW o, NEW s, Allows(def, task, i, a, o, s),
         NEW c \in SUBSET (User \cup {Nobody}), Hands(def, task[i], a, o, s, c),
         NEW x, x = Handed(task[i], a, o, s, c),
         Settled, answered' = answered, task' = [task EXCEPT ![i] = x]
  PROVE  DeskInv' /\ TaskPassed
<1>1. def \in Flows /\ RowInv(def, task, answered) /\ i \in DOMAIN task /\ task[i] \in Row(task[i].node)
  BY DEF DeskInv, DriveTyped, RowInv, Typed, Ids
<1>2. /\ x \in Row(task[i].node) /\ x.node = task[i].node /\ x.pool = c /\ x.parent = task[i].parent /\ x.fallback = task[i].fallback
      /\ x.born = task[i].born /\ x.owner = o /\ x.closedBy = task[i].closedBy /\ x.reason = task[i].reason
      /\ x.assignee = a /\ x.status = s /\ x.claimed = task[i].claimed
  <2>1. a \in User \cup {Nobody} /\ o \in User \cup {Nobody} /\ s \in {"pending", "active"}
    BY DEF Allows
  <2>2. PICK w, n : w = task[i] /\ n = task[i].node
    OBVIOUS
  <2>3. w \in Row(n) /\ x = Handed(w, a, o, s, c)
    BY <1>1, <2>2
  <2>4. /\ x \in Row(n) /\ x.node = w.node /\ x.pool = c /\ x.parent = w.parent /\ x.fallback = w.fallback
        /\ x.born = w.born /\ x.owner = o /\ x.closedBy = w.closedBy /\ x.reason = w.reason
        /\ x.assignee = a /\ x.status = s /\ x.claimed = w.claimed
    BY <2>1, <2>3, HandedRow
  <2>5. QED
    BY <2>2, <2>4
<1>3. Opened(x)
  BY <1>2 DEF Opened, Allows
<1>4. Moved(def, task, i, x)
  BY <1>1, <1>2, <1>3 DEF Moved, Allows
<1>5. RowInv(def, task', answered')
  BY <1>1, <1>4, MoveRow
<1>6. i \in DOMAIN task' /\ task'[i] = x
  BY <1>1
<1>7. Passed(def, task, i, task')
  BY <1>1, <1>2, <1>3, <1>6 DEF Passed
<1>8. QED
  BY <1>3, <1>5, <1>6, <1>7, OpenStep DEF TaskPassed

HandedOn(i, x) ==
  \E a, o, s : \E c \in SUBSET (User \cup {Nobody}) :
    Allows(def, task, i, a, o, s) /\ Hands(def, task[i], a, o, s, c) /\ x = Handed(task[i], a, o, s, c)

(* The same, when the hands are not named. *)
LEMMA HandedStep ==
  ASSUME DeskInv, NEW i \in Ids, Opened(task[i]), NEW x, HandedOn(i, x),
         Settled, answered' = answered, task' = [task EXCEPT ![i] = x]
  PROVE  DeskInv' /\ TaskPassed
<1>1. PICK a, o, s : \E c \in SUBSET (User \cup {Nobody}) :
        Allows(def, task, i, a, o, s) /\ Hands(def, task[i], a, o, s, c) /\ x = Handed(task[i], a, o, s, c)
  BY DEF HandedOn
<1>2. PICK c \in SUBSET (User \cup {Nobody}) :
        Allows(def, task, i, a, o, s) /\ Hands(def, task[i], a, o, s, c) /\ x = Handed(task[i], a, o, s, c)
  BY <1>1
<1>3. QED
  BY <1>2, HandStep

(* What hands a task may always change to. *)
LEMMA MayStay ==
  ASSUME DeskInv, NEW i \in Ids, Opened(task[i])
  PROVE  /\ Allows(def, task, i, task[i].assignee, task[i].owner, task[i].status)
         /\ Hands(def, task[i], task[i].assignee, task[i].owner, task[i].status, task[i].pool)
         /\ task[i] \in Row(task[i].node)
         /\ task[i].assignee \in User \cup {Nobody} /\ task[i].owner \in User \cup {Nobody}
         /\ task[i].pool \in SUBSET (User \cup {Nobody})
<1>1. RowInv(def, task, answered) /\ i \in DOMAIN task
  BY DEF DeskInv, Ids
<1>2. task[i] \in Row(task[i].node)
  BY <1>1 DEF RowInv, Typed
<1>3. task[i].assignee \in User \cup {Nobody} /\ task[i].owner \in User \cup {Nobody}
      /\ task[i].pool \in SUBSET (User \cup {Nobody})
  BY <1>2, RowFields
<1>4. QED
  BY <1>1, <1>2, <1>3 DEF Allows, Hands, RowInv, Claims, Recallable, Opened

(* A task with a user on it may go to another user. *)
LEMMA MayPass ==
  ASSUME DeskInv, NEW i \in Ids, task[i].status = "active",
         NEW a \in User, NEW o \in User \cup {Nobody},
         task[i].assignee \in User \/ task[i].owner \in User
  PROVE  Allows(def, task, i, a, o, "active")
<1>1. RowInv(def, task, answered) /\ i \in DOMAIN task
  BY DEF DeskInv, Ids
<1>2. Nobody \notin User
  BY OrganisationAssumption
<1>3. "Recall" \in def.uses => ~Aggregate(def, task, i)
  BY <1>1, <1>2 DEF RowInv, Recallable
<1>4. QED
  BY <1>3 DEF Allows

(* With a recall in reach, the administrator's hand is not on a task that  *)
(* sub-tasks answer.                                                       *)
LEMMA ByHand ==
  ASSUME DeskInv, NEW i \in Ids, NEW op \in {"SetAssignee", "SetOwner", "Reassign"}, op \in def.uses,
         "Recall" \in def.uses
  PROVE  task[i].parent = NoId /\ ~Aggregate(def, task, i)
<1>1. RowInv(def, task, answered) /\ i \in DOMAIN task /\ Apart(def) /\ def \in Flows
  BY DEF DeskInv, DriveTyped, Ids
<1>2. \A n \in NodesOf(def) : ~VoteNode(def, n)
  BY <1>1 DEF Apart, NodesOf, VoteNode
<1>3. \A j \in DOMAIN task : task[j].parent = NoId
  BY <1>1, <1>2 DEF RowInv, Typed, Recallable
<1>4. i # NoId
  BY <1>1, RowBounds DEF RowInv, Typed, NoId, Id
<1>5. QED
  BY <1>1, <1>2, <1>3, <1>4 DEF Aggregate, RowInv, Typed

(* The starter is a user. *)
LEMMA StarterUser ==
  ASSUME DeskInv
  PROVE  def.starter \in User /\ def.starter # Nobody
BY FlowAssumption, OrganisationAssumption DEF DeskInv, DriveTyped

(* The people of a definition are users. *)
LEMMA PeopleUsers ==
  ASSUME DeskInv
  PROVE  /\ \A u \in People : u \in User /\ u # Nobody
         /\ IsFiniteSet(People)
BY FlowAssumption, OrganisationAssumption DEF DeskInv, DriveTyped, People

(* Claim keeps the invariant. *)
LEMMA ClaimStep ==
  ASSUME DeskInv, NEW u \in People, NEW i \in Ids, Claim(u, i)
  PROVE  DeskInv' /\ TaskClaimed
<1>1. def \in Flows /\ RowInv(def, task, answered) /\ i \in DOMAIN task /\ u \in User
  BY PeopleUsers DEF DeskInv, DriveTyped, Ids
<1>2. \A j \in DOMAIN task : task[j] \in Row(task[j].node) /\ j \in Id
  BY <1>1 DEF RowInv, Typed
<1>3. task[i].status = "pending" /\ Settled /\ answered' = answered
  BY UnmovedSettled DEF Claim, Claimable
<1>. DEFINE O == OthersOnly(i)
<1>4. \A j : j \in O <=> j \in DOMAIN task /\ j # i /\ task[j].node = task[i].node
                         /\ task[j].status = "pending"
  BY DEF OthersOnly, AtNode, Ids
<1>5. DOMAIN task' = DOMAIN task
  BY DEF Claim, Ids
<1>6. task'[i] = ClaimedFor(task[i], u)
  BY <1>1 DEF Claim, Ids, ClaimedFor
<1>7. \A j \in O : task'[j] = ClosedFor(task[j], i)
  BY <1>4 DEF Claim, Ids, ClosedFor
<1>8. \A j \in DOMAIN task : j # i /\ j \notin O => task'[j] = Forgetting(task[j], i)
  BY DEF Claim, Ids, Forgetting
<1>. HIDE DEF O
<1>9. \A j \in DOMAIN task :
        /\ task'[j] \in Row(task[j].node)
        /\ task'[j].node = task[j].node /\ task'[j].parent = task[j].parent
        /\ task'[j].fallback = task[j].fallback /\ task'[j].born = task[j].born
        /\ task'[j].owner = task[j].owner /\ task'[j].pool = task[j].pool
  <2>1. ASSUME NEW j \in DOMAIN task, NEW w, w = task[j], NEW n, n = task[j].node, NEW x, x = task'[j]
        PROVE  /\ x \in Row(n) /\ x.node = w.node /\ x.parent = w.parent /\ x.fallback = w.fallback
               /\ x.born = w.born /\ x.owner = w.owner /\ x.pool = w.pool
    <3>1. w \in Row(n) /\ i \in Id
      BY <1>1, <1>2, <2>1
    <3>2. CASE j = i
      BY <1>1, <1>6, <2>1, <3>1, <3>2, ClaimedRow
    <3>3. CASE j \in O
      BY <1>7, <2>1, <3>1, <3>3, ClosedRow
    <3>4. CASE j # i /\ j \notin O
      BY <1>8, <2>1, <3>1, <3>4, ForgottenRow
    <3>5. QED
      BY <3>2, <3>3, <3>4
  <2>2. QED
    BY <2>1
<1>10. /\ task'[i].assignee = u /\ task'[i].status = "active" /\ task'[i].claimed
       /\ task'[i].closedBy = task[i].closedBy /\ task'[i].reason = task[i].reason
  <2>1. PICK w, n, x : w = task[i] /\ n = task[i].node /\ x = task'[i]
    OBVIOUS
  <2>2. w \in Row(n) /\ x = ClaimedFor(w, u)
    BY <1>1, <1>2, <1>6, <2>1
  <2>3. x.assignee = u /\ x.status = "active" /\ x.claimed /\ x.closedBy = w.closedBy /\ x.reason = w.reason
    BY <1>1, <2>2, ClaimedRow
  <2>4. QED
    BY <2>1, <2>3
<1>11. \A j \in O : /\ task'[j].status = "terminated" /\ task'[j].reason = "claimed_by_other"
                    /\ task'[j].closedBy = i
                    /\ task'[j].assignee = task[j].assignee /\ task'[j].claimed = task[j].claimed
  <2>1. ASSUME NEW j \in O, NEW w, w = task[j], NEW n, n = task[j].node, NEW x, x = task'[j]
        PROVE  /\ x.status = "terminated" /\ x.reason = "claimed_by_other" /\ x.closedBy = i
               /\ x.assignee = w.assignee /\ x.claimed = w.claimed
    <3>1. w \in Row(n) /\ i \in Id /\ x = ClosedFor(w, i)
      BY <1>1, <1>2, <1>4, <1>7, <2>1
    <3>2. QED
      BY <3>1, ClosedRow
  <2>2. QED
    BY <2>1
<1>12. \A j \in DOMAIN task : j # i /\ j \notin O =>
         /\ task'[j].status = task[j].status /\ task'[j].reason = task[j].reason
         /\ task'[j].assignee = task[j].assignee /\ task'[j].claimed = task[j].claimed
         /\ task'[j].closedBy = IF task[j].closedBy = i THEN NoId ELSE task[j].closedBy
  <2>1. ASSUME NEW j \in DOMAIN task, j # i, j \notin O,
               NEW w, w = task[j], NEW n, n = task[j].node, NEW x, x = task'[j]
        PROVE  /\ x.status = w.status /\ x.reason = w.reason
               /\ x.assignee = w.assignee /\ x.claimed = w.claimed
               /\ x.closedBy = IF w.closedBy = i THEN NoId ELSE w.closedBy
    <3>1. w \in Row(n) /\ x = Forgetting(w, i)
      BY <1>2, <1>8, <2>1
    <3>2. QED
      BY <3>1, ForgottenRow
  <2>2. QED
    BY <2>1
<1>13. Claimed(task, i, u, O, task')
  BY <1>1, <1>3, <1>4, <1>5, <1>9, <1>10, <1>11, <1>12 DEF Claimed
<1>14. RowInv(def, task', answered') /\ Opened(task'[i])
  BY <1>1, <1>3, <1>13, ClaimRow
<1>15. TaskClaimed
  BY <1>3, <1>13 DEF TaskClaimed, Claim, Uses
<1>16. QED
  BY <1>1, <1>3, <1>5, <1>14, <1>15, OpenStep DEF Opened

(* Unclaim keeps the invariant. *)
LEMMA UnclaimStep ==
  ASSUME DeskInv, NEW u \in People, NEW i \in Ids, Unclaim(u, i)
  PROVE  DeskInv' /\ (TaskGivenBack \/ TaskPassed)
<1>1. def \in Flows /\ RowInv(def, task, answered) /\ i \in DOMAIN task /\ u \in User /\ u # Nobody
  BY PeopleUsers DEF DeskInv, DriveTyped, Ids
<1>2. \A j \in DOMAIN task : task[j] \in Row(task[j].node) /\ j \in Id
  BY <1>1 DEF RowInv, Typed
<1>3. task[i].status = "active" /\ task[i].assignee = u /\ Settled /\ answered' = answered
  BY UnmovedSettled DEF Unclaim, Unclaimable, Active
<1>4. Opened(task[i])
  BY <1>3 DEF Opened
<1>5. CASE Undelegates(i)
  <2>1. task[i].owner \in User
    BY <1>4, <1>5, MayStay DEF Undelegates
  <2>2. PICK x : x = [task[i] EXCEPT !.assignee = task[i].owner, !.owner = Nobody] /\ task' = [task EXCEPT ![i] = x]
    BY <1>5 DEF Unclaim, Change
  <2>3. x = Handed(task[i], task[i].owner, Nobody, "active", task[i].pool)
    BY <1>1, <1>2, <1>3, <2>2 DEF Handed, Row
  <2>4. Allows(def, task, i, task[i].owner, Nobody, "active")
    BY <1>3, <2>1, MayPass
  <2>5. QED
    <3>1. HandedOn(i, x)
      BY <1>3, <1>4, <2>1, <2>3, <2>4, MayStay, OrganisationAssumption DEF HandedOn, Hands
    <3>2. QED
      BY <1>3, <1>4, <2>2, <3>1, HandedStep
<1>6. CASE ~Undelegates(i)
  <2>. DEFINE J == SameClaimRound(i) \ {i}
  <2>1. \A j : j \in J <=> j \in DOMAIN task /\ j # i /\ task[j].node = task[i].node
                           /\ task[j].closedBy = i
    BY DEF SameClaimRound, AtNode, Ids
  <2>2. DOMAIN task' = DOMAIN task /\ task[i].claimed
    BY <1>6 DEF Unclaim, Unclaimable, Ids
  <2>3. task'[i] = Unclaimed(task[i])
    BY <1>1, <1>6 DEF Unclaim, Ids, Unclaimed
  <2>4. \A j \in J : task'[j] = GivenBack(task[j])
    BY <1>6, <2>1 DEF Unclaim, Ids, GivenBack
  <2>5. \A j \in DOMAIN task : j # i /\ j \notin J => task'[j] = task[j]
    BY <1>6 DEF Unclaim, Ids
  <2>. HIDE DEF J
  <2>6. \A j \in DOMAIN task :
        /\ task'[j] \in Row(task[j].node)
        /\ task'[j].node = task[j].node /\ task'[j].parent = task[j].parent
        /\ task'[j].fallback = task[j].fallback /\ task'[j].born = task[j].born
        /\ task'[j].owner = task[j].owner /\ task'[j].pool = task[j].pool
    <3>1. ASSUME NEW j \in DOMAIN task, NEW w, w = task[j], NEW n, n = task[j].node, NEW x, x = task'[j]
          PROVE  /\ x \in Row(n) /\ x.node = w.node /\ x.parent = w.parent /\ x.fallback = w.fallback
                 /\ x.born = w.born /\ x.owner = w.owner /\ x.pool = w.pool
      <4>1. w \in Row(n)
        BY <1>2, <3>1
      <4>2. CASE j = i
        BY <2>3, <3>1, <4>1, <4>2, UnclaimedRow
      <4>3. CASE j \in J
        BY <2>4, <3>1, <4>1, <4>3, GivenBackRow
      <4>4. CASE j # i /\ j \notin J
        BY <2>5, <3>1, <4>1, <4>4
      <4>5. QED
        BY <4>2, <4>3, <4>4
    <3>2. QED
      BY <3>1
  <2>7. /\ task'[i].assignee = Nobody /\ task'[i].status = "pending" /\ ~task'[i].claimed
        /\ task'[i].closedBy = task[i].closedBy /\ task'[i].reason = task[i].reason
    <3>1. PICK w, n, x : w = task[i] /\ n = task[i].node /\ x = task'[i]
      OBVIOUS
    <3>2. w \in Row(n) /\ x = Unclaimed(w)
      BY <1>1, <1>2, <2>3, <3>1
    <3>3. x.assignee = Nobody /\ x.status = "pending" /\ ~x.claimed /\ x.closedBy = w.closedBy
          /\ x.reason = w.reason
      BY <3>2, UnclaimedRow
    <3>4. QED
      BY <3>1, <3>3
  <2>8. \A j \in J : /\ task'[j].status = "pending" /\ task'[j].reason = "none" /\ task'[j].closedBy = NoId
                     /\ task'[j].assignee = task[j].assignee /\ task'[j].claimed = task[j].claimed
    <3>1. ASSUME NEW j \in J, NEW w, w = task[j], NEW n, n = task[j].node, NEW x, x = task'[j]
          PROVE  /\ x.status = "pending" /\ x.reason = "none" /\ x.closedBy = NoId
                 /\ x.assignee = w.assignee /\ x.claimed = w.claimed
      <4>1. w \in Row(n) /\ x = GivenBack(w)
        BY <1>2, <2>1, <2>4, <3>1
      <4>2. QED
        BY <4>1, GivenBackRow
    <3>2. QED
      BY <3>1
  <2>9. GivesBack(task, i, J, task')
    BY <1>1, <1>3, <2>1, <2>2, <2>5, <2>6, <2>7, <2>8 DEF GivesBack
  <2>10. RowInv(def, task', answered') /\ Opened(task'[i])
    BY <1>1, <1>3, <2>9, UnclaimRow
  <2>11. TaskGivenBack
    BY <1>3, <2>9 DEF TaskGivenBack, Unclaim, Uses
  <2>12. QED
    BY <1>1, <1>3, <1>4, <2>2, <2>10, <2>11, OpenStep
<1>7. QED
  BY <1>5, <1>6

(* A task that has somebody may go to somebody else. *)
LEMMA HandOver ==
  ASSUME DeskInv, NEW i \in Ids, task[i].status = "active",
         NEW a \in User, NEW o \in User \cup {Nobody},
         task[i].assignee \in User \/ task[i].owner \in User,
         Hands(def, task[i], a, o, "active", task[i].pool),
         NEW x, x = [task[i] EXCEPT !.assignee = a, !.owner = o],
         Settled, answered' = answered, task' = [task EXCEPT ![i] = x]
  PROVE  DeskInv' /\ TaskPassed
<1>1. Opened(task[i])
  BY DEF Opened
<1>2. x = Handed(task[i], a, o, "active", task[i].pool)
  BY <1>1, MayStay DEF Handed, Row
<1>3. Allows(def, task, i, a, o, "active")
  BY MayPass
<1>4. HandedOn(i, x)
  BY <1>1, <1>2, <1>3, MayStay DEF HandedOn
<1>5. QED
  BY <1>1, <1>2, <1>4, HandedStep

(* SetAssignee keeps the invariant. *)
LEMMA SetAssigneeStep ==
  ASSUME DeskInv, NEW i \in Ids, NEW u \in People \cup {Nobody}, SetAssignee(i, u)
  PROVE  DeskInv' /\ TaskPassed
<1>. DEFINE s == IF u = Nobody THEN "pending" ELSE "active"
<1>1. Opened(task[i]) /\ Settled /\ answered' = answered /\ "SetAssignee" \in def.uses
  BY UnmovedSettled DEF SetAssignee, Open, Opened, Uses
<1>2. PICK x : x = [task[i] EXCEPT !.assignee = u, !.status = s] /\ task' = [task EXCEPT ![i] = x]
  BY DEF SetAssignee, Change
<1>3. s \in {"pending", "active"} /\ (s = "pending" <=> u = Nobody) /\ u \in User \cup {Nobody}
  BY PeopleUsers
<1>. HIDE DEF s
<1>4. x = Handed(task[i], u, task[i].owner, s, task[i].pool)
  BY <1>1, <1>2, MayStay DEF Handed, Row
<1>5. ~OrSigned(def, task[i].node)
  <2>1. task[i].node \in NodesOf(def)
    BY DEF DeskInv, RowInv, Typed, Ids
  <2>2. QED
    BY <1>1, <2>1 DEF DeskInv, Apart, NodesOf, OrSigned
<1>6. Allows(def, task, i, u, task[i].owner, s)
  BY <1>1, <1>3, <1>5, MayStay, ByHand DEF Allows
<1>7. Hands(def, task[i], u, task[i].owner, s, task[i].pool)
  BY <1>1, <1>3 DEF Hands, s
<1>8. HandedOn(i, x)
  BY <1>1, <1>2, <1>4, <1>6, <1>7, MayStay DEF HandedOn
<1>9. QED
  BY <1>1, <1>2, <1>8, HandedStep

(* SetOwner keeps the invariant. *)
LEMMA SetOwnerStep ==
  ASSUME DeskInv, NEW i \in Ids, NEW u \in People, SetOwner(i, u)
  PROVE  DeskInv' /\ TaskPassed
<1>1. Opened(task[i]) /\ Settled /\ answered' = answered /\ "SetOwner" \in def.uses /\ u \in User
  BY UnmovedSettled, PeopleUsers DEF SetOwner, Open, Opened, Uses
<1>2. PICK x : x = [task[i] EXCEPT !.owner = u] /\ task' = [task EXCEPT ![i] = x]
  BY DEF SetOwner, Change
<1>3. x = Handed(task[i], task[i].assignee, u, task[i].status, task[i].pool)
  BY <1>1, <1>2, MayStay DEF Handed, Row
<1>4. Allows(def, task, i, task[i].assignee, u, task[i].status)
  BY <1>1, MayStay, ByHand DEF Allows
<1>5. HandedOn(i, x)
  BY <1>1, <1>2, <1>3, <1>4, MayStay DEF HandedOn, Hands
<1>6. QED
  BY <1>1, <1>2, <1>5, HandedStep

(* AddCandidates and RemoveCandidates keep the invariant. *)
LEMMA CandidatesStep ==
  ASSUME DeskInv, NEW i \in Ids, NEW u \in People, AddCandidates(i, {u}) \/ RemoveCandidates(i, {u})
  PROVE  DeskInv' /\ TaskPassed
<1>1. Opened(task[i]) /\ Settled /\ answered' = answered /\ u \in User /\ "Candidates" \in def.uses
  BY UnmovedSettled, PeopleUsers DEF AddCandidates, RemoveCandidates, Open, Opened, Uses
<1>2. PICK c \in SUBSET (User \cup {Nobody}) : \E x :
        x = [task[i] EXCEPT !.pool = c] /\ task' = [task EXCEPT ![i] = x]
  <2>1. CASE AddCandidates(i, {u})
    <3>1. PICK x : x = [task[i] EXCEPT !.pool = task[i].pool \cup {u}] /\ task' = [task EXCEPT ![i] = x]
      BY <2>1 DEF AddCandidates, Change
    <3>2. task[i].pool \cup {u} \in SUBSET (User \cup {Nobody})
      BY <1>1, MayStay
    <3>3. QED
      BY <3>1, <3>2
  <2>2. CASE RemoveCandidates(i, {u})
    <3>1. PICK x : x = [task[i] EXCEPT !.pool = task[i].pool \ {u}] /\ task' = [task EXCEPT ![i] = x]
      BY <2>2 DEF RemoveCandidates, Change
    <3>2. task[i].pool \ {u} \in SUBSET (User \cup {Nobody})
      BY <1>1, MayStay
    <3>3. QED
      BY <3>1, <3>2
  <2>3. QED
    BY <2>1, <2>2
<1>3. PICK x : x = [task[i] EXCEPT !.pool = c] /\ task' = [task EXCEPT ![i] = x]
  BY <1>2
<1>4. x = Handed(task[i], task[i].assignee, task[i].owner, task[i].status, c)
  BY <1>1, <1>3, MayStay DEF Handed, Row
<1>5. HandedOn(i, x)
  BY <1>1, <1>4, MayStay DEF HandedOn, Hands
<1>6. QED
  BY <1>1, <1>3, <1>5, HandedStep

(* Reassign keeps the invariant. *)
LEMMA ReassignStep ==
  ASSUME DeskInv, NEW i \in Ids, NEW u \in People, Reassign(i, u)
  PROVE  DeskInv' /\ TaskPassed
<1>1. task[i].status = "active" /\ Opened(task[i]) /\ Settled /\ answered' = answered
      /\ "Reassign" \in def.uses /\ u \in User
  BY UnmovedSettled, PeopleUsers DEF Reassign, Active, Opened, Uses
<1>2. PICK x : x = [task[i] EXCEPT !.assignee = u, !.owner = Nobody] /\ task' = [task EXCEPT ![i] = x]
  BY DEF Reassign, Change
<1>3. x = Handed(task[i], u, Nobody, "active", task[i].pool)
  BY <1>1, <1>2, MayStay DEF Handed, Row
<1>4. Allows(def, task, i, u, Nobody, "active")
  BY <1>1, ByHand DEF Allows
<1>5. HandedOn(i, x)
  BY <1>1, <1>2, <1>3, <1>4, MayStay, OrganisationAssumption DEF HandedOn, Hands
<1>6. QED
  BY <1>1, <1>2, <1>5, HandedStep

(* Delegation, its return and transfer keep the invariant. *)
LEMMA PassStep ==
  ASSUME DeskInv, NEW i \in Ids, NEW u \in People, NEW to \in People,
         Resolve(u, i) \/ Delegate(u, i, to) \/ Transfer(u, i, to)
  PROVE  DeskInv' /\ TaskPassed
<1>1. task[i].status = "active" /\ Opened(task[i]) /\ Settled /\ answered' = answered
      /\ u \in User /\ to \in User
  BY UnmovedSettled, PeopleUsers
     DEF Resolve, Delegate, Transfer, MayDelegate, MayTransfer, Active, Opened
<1>2. CASE Resolve(u, i)
  <2>1. PICK x : x = [task[i] EXCEPT !.assignee = task[i].owner, !.owner = Nobody] /\ task' = [task EXCEPT ![i] = x]
    BY <1>2 DEF Resolve, Change
  <2>2. task[i].owner \in User
    BY <1>1, <1>2, MayStay DEF Resolve
  <2>3. Hands(def, task[i], task[i].owner, Nobody, "active", task[i].pool)
    BY <1>1, <2>2, OrganisationAssumption DEF Hands
  <2>4. QED
    BY <1>1, <2>1, <2>2, <2>3, HandOver
<1>3. CASE Delegate(u, i, to)
  <2>. DEFINE o == IF task[i].owner = Nobody THEN task[i].assignee ELSE task[i].owner
  <2>1. task[i].assignee = u
    BY <1>3 DEF Delegate, MayDelegate
  <2>2. PICK x : x = [task[i] EXCEPT !.assignee = to, !.owner = o] /\ task' = [task EXCEPT ![i] = x]
    BY <1>1, <1>3, MayStay DEF Delegate, Change, Delegated, Row
  <2>3. o \in User \cup {Nobody}
    BY <1>1, <2>1, MayStay
  <2>. HIDE DEF o
  <2>4. Hands(def, task[i], to, o, "active", task[i].pool)
    BY <1>1, <1>3, OrganisationAssumption DEF Hands, Delegate, Uses
  <2>5. QED
    BY <1>1, <2>1, <2>2, <2>3, <2>4, HandOver
<1>4. CASE Transfer(u, i, to)
  <2>1. task[i].assignee = u
    BY <1>4 DEF Transfer, MayTransfer
  <2>2. PICK x : x = [task[i] EXCEPT !.assignee = to, !.owner = Nobody] /\ task' = [task EXCEPT ![i] = x]
    BY <1>4 DEF Transfer, Change
  <2>3. Hands(def, task[i], to, Nobody, "active", task[i].pool)
    BY <1>1, <1>4, OrganisationAssumption DEF Hands, Transfer, Uses
  <2>4. QED
    BY <1>1, <2>1, <2>2, <2>3, HandOver
<1>5. QED
  BY <1>2, <1>3, <1>4

(* Every operation on the ownership of a task keeps the invariant. *)
LEMMA OwnershipStep ==
  ASSUME DeskInv, Ownership
  PROVE  DeskInv' /\ (TaskPassed \/ TaskClaimed \/ TaskGivenBack)
<1>1. PICK i \in Ids :
    \/ \E u \in People :
         \/ Claim(u, i)
         \/ Unclaim(u, i)
         \/ SetOwner(i, u)
         \/ Reassign(i, u)
         \/ Resolve(u, i)
         \/ \E to \in People : Delegate(u, i, to) \/ Transfer(u, i, to)
    \/ \E u \in People \cup {Nobody} : SetAssignee(i, u)
    \/ \E u \in People : AddCandidates(i, {u}) \/ RemoveCandidates(i, {u})
  BY DEF Ownership
<1>2. QED
  BY <1>1, ClaimStep, UnclaimStep, SetOwnerStep, ReassignStep, PassStep, SetAssigneeStep, CandidatesStep

-----------------------------------------------------------------------------
(* The answers of people and of the system.                                *)

(* An answered row, and one terminated. *)
AnsweredAs(w, v, b) == [w EXCEPT !.status = "completed", !.reason = v, !.by = b]

(* The fields of an answered task. *)
LEMMA AnsweredRow ==
  ASSUME NEW n, NEW w \in Row(n), NEW v \in Vote, NEW b \in AnswerBy,
         NEW x, x = AnsweredAs(w, v, b)
  PROVE  /\ x \in Row(n) /\ x.node = w.node /\ x.parent = w.parent /\ x.fallback = w.fallback
         /\ x.born = w.born /\ x.pool = w.pool /\ x.owner = w.owner /\ x.closedBy = w.closedBy /\ x.reason = v
         /\ x.assignee = w.assignee /\ x.status = "completed" /\ x.claimed = w.claimed
<1>1. x \in Row(n)
  BY DEF AnsweredAs, Row, RowStatus, Reason, Vote
<1>2. QED
  BY <1>1 DEF AnsweredAs, Row

TerminatedAs(w, why) == [w EXCEPT !.status = "terminated", !.reason = why]

(* The fields of a task that ends with others. *)
LEMMA TerminatedRow ==
  ASSUME NEW n, NEW w \in Row(n), NEW why \in {"threshold", "sibling"},
         NEW x, x = TerminatedAs(w, why)
  PROVE  /\ x \in Row(n) /\ x.node = w.node /\ x.parent = w.parent /\ x.fallback = w.fallback
         /\ x.born = w.born /\ x.pool = w.pool /\ x.owner = w.owner /\ x.closedBy = w.closedBy /\ x.reason = why
         /\ x.assignee = w.assignee /\ x.status = "terminated" /\ x.claimed = w.claimed
<1>1. x \in Row(n)
  BY DEF TerminatedAs, Row, RowStatus, Reason
<1>2. QED
  BY <1>1 DEF TerminatedAs, Row

(* Answer changes one row. *)
LEMMA AnswerIs ==
  ASSUME NEW rows, NEW i \in DOMAIN rows, NEW n, rows[i] \in Row(n), NEW v, NEW b,
         NEW r, r = Answer(rows, i, v, b)
  PROVE  /\ DOMAIN r = DOMAIN rows
         /\ r[i] = AnsweredAs(rows[i], v, b)
         /\ \A j \in DOMAIN rows : j # i => r[j] = rows[j]
<1>1. PICK w : w = rows[i] /\ w \in Row(n)
  OBVIOUS
<1>2. DOMAIN r = DOMAIN rows /\ \A j \in DOMAIN rows : j # i => r[j] = rows[j]
  BY DEF Answer
<1>3. r[i] = [[[w EXCEPT !.status = "completed"] EXCEPT !.reason = v] EXCEPT !.by = b]
  BY <1>1 DEF Answer
<1>4. QED
  BY <1>1, <1>2, <1>3 DEF AnsweredAs, Row

(* Terminate changes the rows it is given. *)
LEMMA TerminateIs ==
  ASSUME NEW rows, NEW those, NEW why, NEW r, r = Terminate(rows, those, why)
  PROVE  /\ DOMAIN r = DOMAIN rows
         /\ \A j \in DOMAIN rows : j \in those => r[j] = TerminatedAs(rows[j], why)
         /\ \A j \in DOMAIN rows : j \notin those => r[j] = rows[j]
BY DEF Terminate, TerminatedAs

(* Row x of the rows after answers on A, with T terminated, for row w. *)
RowAfter(x, w, n, j, A, T, why) ==
  /\ x \in Row(n)
  /\ x.node = w.node /\ x.parent = w.parent /\ x.closedBy = w.closedBy
  /\ x.fallback = w.fallback /\ x.born = w.born /\ x.claimed = w.claimed
  /\ x.assignee = w.assignee /\ x.owner = w.owner /\ x.pool = w.pool
  /\ j \in A => x.status = "completed" /\ x.reason \in Vote
  /\ j \in T => x.status = "terminated" /\ x.reason = why
  /\ j \notin A /\ j \notin T => x.status = w.status /\ x.reason = w.reason

RowsAfter(r, rows, A, T, why) ==
  /\ DOMAIN r = DOMAIN rows
  /\ \A j \in DOMAIN rows : RowAfter(r[j], rows[j], rows[j].node, j, A, T, why)
RowsOf(rows) == \A j \in DOMAIN rows : rows[j] \in Row(rows[j].node)

(* The rows after the answer on i. *)
LEMMA OneAnswer ==
  ASSUME NEW rows, RowsOf(rows), NEW i \in DOMAIN rows,
         NEW v \in Vote, NEW b \in AnswerBy, NEW r, r = Answer(rows, i, v, b)
  PROVE  RowsAfter(r, rows, {i}, {}, "sibling") /\ r[i].reason = v
<1>. USE DEF RowsAfter, RowsOf
<1>1. /\ DOMAIN r = DOMAIN rows
      /\ r[i] = AnsweredAs(rows[i], v, b)
      /\ \A j \in DOMAIN rows : j # i => r[j] = rows[j]
  BY AnswerIs
<1>2. ASSUME NEW j \in DOMAIN rows, NEW w, w = rows[j], NEW n, n = rows[j].node, NEW x, x = r[j]
      PROVE  RowAfter(x, w, n, j, {i}, {}, "sibling") /\ (j = i => x.reason = v)
  <2>1. w \in Row(n)
    BY <1>2
  <2>2. CASE j = i
    <3>1. x = AnsweredAs(w, v, b)
      BY <1>1, <1>2, <2>2
    <3>2. QED
      BY <2>1, <2>2, <3>1, AnsweredRow DEF RowAfter
  <2>3. CASE j # i
    BY <1>1, <1>2, <2>1, <2>3, RowFields DEF RowAfter
  <2>4. QED
    BY <2>2, <2>3
<1>3. QED
  BY <1>1, <1>2

(* Answers of one node and what they terminate. *)
LEMMA MoreAnswers ==
  ASSUME NEW rows, NEW A \in SUBSET DOMAIN rows, NEW r1, RowsAfter(r1, rows, A, {}, "sibling"),
         NEW p \in DOMAIN rows, NEW v \in Vote, NEW b \in AnswerBy, NEW r, r = Answer(r1, p, v, b)
  PROVE  RowsAfter(r, rows, A \cup {p}, {}, "sibling")
<1>. USE DEF RowsAfter
<1>0. \A j \in DOMAIN rows : r1[j] \in Row(rows[j].node)
  BY DEF RowAfter
<1>1. /\ DOMAIN r = DOMAIN rows
      /\ r[p] = AnsweredAs(r1[p], v, b)
      /\ \A j \in DOMAIN rows : j # p => r[j] = r1[j]
  BY <1>0, AnswerIs
<1>2. ASSUME NEW j \in DOMAIN rows, NEW w, w = rows[j], NEW n, n = rows[j].node, NEW x, x = r[j],
             NEW y, y = r1[j]
      PROVE  RowAfter(x, w, n, j, A \cup {p}, {}, "sibling")
  <2>1. RowAfter(y, w, n, j, A, {}, "sibling") /\ y \in Row(n)
    BY <1>0, <1>2
  <2>2. CASE j = p
    <3>1. x = AnsweredAs(y, v, b)
      BY <1>1, <1>2, <2>2
    <3>2. QED
      BY <2>1, <2>2, <3>1, AnsweredRow DEF RowAfter
  <2>3. CASE j # p
    BY <1>1, <1>2, <2>1, <2>3 DEF RowAfter
  <2>4. QED
    BY <2>2, <2>3
<1>3. QED
  BY <1>1, <1>2

(* One answer with the tasks that end with it. *)
LEMMA AndTerminates ==
  ASSUME NEW rows, NEW A \in SUBSET DOMAIN rows, NEW r1, RowsAfter(r1, rows, A, {}, "sibling"),
         NEW T, T \subseteq DOMAIN rows, T \cap A = {},
         NEW why \in {"threshold", "sibling"}, NEW r, r = Terminate(r1, T, why)
  PROVE  RowsAfter(r, rows, A, T, why)
<1>. USE DEF RowsAfter
<1>1. /\ DOMAIN r = DOMAIN rows
      /\ \A j \in DOMAIN rows : j \in T => r[j] = TerminatedAs(r1[j], why)
      /\ \A j \in DOMAIN rows : j \notin T => r[j] = r1[j]
  BY TerminateIs
<1>2. ASSUME NEW j \in DOMAIN rows, NEW w, w = rows[j], NEW n, n = rows[j].node, NEW x, x = r[j],
             NEW y, y = r1[j]
      PROVE  RowAfter(x, w, n, j, A, T, why)
  <2>1. RowAfter(y, w, n, j, A, {}, "sibling")
    BY <1>2
  <2>0. y \in Row(n)
    BY <2>1 DEF RowAfter
  <2>2. CASE j \in T
    <3>1. x = TerminatedAs(y, why) /\ j \notin A
      BY <1>1, <1>2, <2>2
    <3>2. QED
      BY <2>0, <2>1, <2>2, <3>1, TerminatedRow DEF RowAfter
  <2>3. CASE j \notin T
    BY <1>1, <1>2, <2>1, <2>3 DEF RowAfter
  <2>4. QED
    BY <2>2, <2>3
<1>3. QED
  BY <1>1, <1>2

(* Once everybody has voted every rule decides. *)
LEMMA AllVoted ==
  ASSUME NEW r, ValidRule(r), NEW t \in Nat, NEW a \in Nat
  PROVE  Decides(r, t, t, a)
<1>1. r.value \in Nat /\ r.type \in RuleType
  BY DEF ValidRule
<1>2. CASE r.type = "all"
  BY <1>2 DEF Decides
<1>3. CASE r.type = "any"
  BY <1>3 DEF Decides
<1>4. CASE r.type \in {"majority", "percent", "count"}
  <2>1. Required(r, t) \in Int
    <3>1. CASE r.type = "majority"
      BY <3>1 DEF Required
    <3>2. CASE r.type = "percent"
      <4>1. t * r.value \in Nat
        BY <1>1
      <4>2. Ceil(t * r.value) \in Nat
        BY <4>1 DEF Ceil
      <4>3. QED
        BY <3>2, <4>2 DEF Required, AtLeastOne
    <3>3. CASE r.type = "count"
      BY <1>1, <3>3 DEF Required, AtLeastOne
    <3>4. QED
      BY <1>4, <3>1, <3>2, <3>3
  <2>2. r.type # "all" /\ r.type # "any"
    BY <1>4
  <2>3. a >= Required(r, t) \/ a + (t - t) < Required(r, t)
    BY <2>1
  <2>4. QED
    BY <2>2, <2>3 DEF Decides
<1>5. QED
  BY <1>1, <1>2, <1>3, <1>4 DEF RuleType

(* An operation on an open task that asks for a drive and leaves no open   *)
(* task.                                                                   *)
Kept == /\ UNCHANGED <<def, inst, at, resets, recalls, past, last>>
        /\ auto' \in {auto, NoNode}

(* An answer after which no task is open keeps the invariant: a drive is   *)
(* due.                                                                    *)
LEMMA AskStep ==
  ASSUME DeskInv, NEW i \in Ids, Opened(task[i]), NEW n \in Nodes, asks' = asks \cup {n}, Kept,
         RowInv(def, task', answered'),
         \A k \in DOMAIN task' : /\ ~Opened(task'[k])
                                 /\ PlaceOf(def, task'[k].node) <= PlaceOf(def, n)
  PROVE  DeskInv'
<1>1. ~Driving /\ inst = "active"
  BY DEF DeskInv, Quiet, OneDrive
<1>2. /\ def' = def /\ inst' = inst /\ at' = at /\ resets' = resets
      /\ recalls' = recalls /\ past' = past /\ last' = last /\ auto' \in {auto, NoNode}
  BY DEF Kept
<1>3. asks' = {n} /\ at = NoNode /\ resets = <<>>
  BY <1>1 DEF Driving
<1>4. Apart(def)' /\ DriveTyped'
  BY <1>2, <1>3 DEF DeskInv, DriveTyped, Nodes
<1>5. RowInv(def, task, answered)'
  BY <1>2
<1>6. OneDrive' /\ Quiet'
  BY <1>1, <1>2, <1>3 DEF OneDrive, Quiet, Driving, Waiting, Ids
<1>7. Beyond'
  <2>1. def \in Flows /\ at \notin Nodes
    BY <1>3, FlowNodes DEF DeskInv, DriveTyped, Nodes, NodesOf
  <2>2. QED
    BY <1>2, <1>3, <2>1 DEF Beyond, Ids, Nodes
<1>8. QED
  BY <1>4, <1>5, <1>6, <1>7 DEF DeskInv

(* What the answers do to the rows: a main task is answered and the or-     *)
(* signs beside it end, a vote is counted and the parent waits on, or ends *)
(* with those who have not voted, when the verdict is w.                   *)
TaskAnswered ==
  /\ Kept
  /\ \E i \in Ids : \E T :
       /\ task[i].parent = NoId /\ task[i].status = "active" /\ task[i].assignee # Nobody
       /\ asks' = asks \cup {task[i].node}
       /\ RowsAfter(task', task, {i}, T, "sibling")
       /\ \A j \in T : OrSigned(def, task[j].node)
TaskVoted ==
  /\ Settled
  /\ \E i \in Ids :
       /\ task[i].parent # NoId /\ task[i].status = "active"
       /\ RowsAfter(task', task, {i}, {}, "sibling")
       /\ ~Vetoes(task', i)
       /\ Decided(task', task[i].parent) => task[task[i].parent].assignee # Nobody
Ruling(rows, i, w) ==
  LET p == task[i].parent
  IN  \/ Vetoes(rows, i) /\ w = "rejected"
      \/ /\ ~Vetoes(rows, i)
         /\ Decided(rows, p)
         /\ task[p].assignee = Nobody
         /\ w = "approved" <=> Favours(rows, p)
VoteEnds(i, mid, T, w) ==
  LET p == task[i].parent
  IN  /\ asks' = asks \cup {task[i].node}
      /\ RowsAfter(mid, task, {i}, {}, "sibling")
      /\ RowsAfter(task', mid, {p}, T, "threshold")
      /\ \A j : j \in T <=> j \in DOMAIN mid /\ mid[j].parent = p /\ Opened(mid[j])
      /\ task'[p].reason = w
      /\ Ruling(mid, i, w)
TaskDecided ==
  /\ Kept
  /\ \E i \in Ids, w \in Vote : \E mid, T :
       /\ task[i].parent # NoId /\ task[i].status = "active"
       /\ VoteEnds(i, mid, T, w)

(* What the answers of A and the end of T leave. *)
Ending(i, A, T, why) ==
  /\ i \in A
  /\ \A a \in A : /\ a \in DOMAIN task /\ task[a].node = task[i].node
                  /\ task[a].status # "completed"
                  /\ Opened(task[a]) \/ task[a].parent = NoId
  /\ \A j \in T : /\ j \in DOMAIN task /\ j \notin A /\ Opened(task[j])
                  /\ ~OrSigned(def, task[j].node) =>
                       why = "threshold" /\ task[j].parent # NoId /\ task[j].parent \in A
  /\ \A a, b \in A : task[a].parent = NoId /\ task[b].parent = NoId => a = b
  /\ (\E a \in A : task[a].parent = NoId) => \A j \in DOMAIN task : Opened(task[j]) => j \in A \cup T

(* They keep the rows right. *)
LEMMA AnswersLeave ==
  ASSUME DeskInv, NEW i \in Ids, Opened(task[i]), NEW A, NEW T, NEW why \in {"threshold", "sibling"},
         Ending(i, A, T, why), NEW r, RowsAfter(r, task, A, T, why), NEW ans2, Longer(answered, ans2, A)
  PROVE  RowInv(def, r, ans2)
<1>1. Answered(def, task, answered, i, A, T, why, r, ans2)
  BY DEF Answered, RowAfter, RowsAfter, Ending, Ids, Vote
<1>2. QED
  BY <1>1, AnswerRows DEF DeskInv, DriveTyped

(* The open tasks are of one node; an answer is on none of them. *)
LEMMA OpenFacts ==
  ASSUME DeskInv, NEW i \in Ids, Opened(task[i])
  PROVE  /\ def \in Flows /\ RowInv(def, task, answered) /\ i \in DOMAIN task /\ i \in Id
         /\ \A j \in DOMAIN task : task[j] \in Row(task[j].node) /\ j \in Id /\ task[j].node \in Nodes
         /\ i \notin ToSet(answered)
         /\ answered \in Seq(Id) /\ IsInjective(answered)
         /\ \A j \in DOMAIN task : Opened(task[j]) => task[j].node = task[i].node
         /\ \A j \in DOMAIN task : PlaceOf(def, task[j].node) <= PlaceOf(def, task[i].node)
         /\ asks = {} /\ at = NoNode /\ resets = <<>> /\ inst = "active"
<1>1. def \in Flows /\ RowInv(def, task, answered) /\ i \in DOMAIN task
  BY DEF DeskInv, DriveTyped, Ids
<1>2. asks = {} /\ at = NoNode /\ resets = <<>> /\ inst = "active"
  BY DEF DeskInv, Quiet, OneDrive, Driving
<1>3. \A j \in DOMAIN task : task[j] \in Row(task[j].node) /\ j \in Id /\ task[j].node \in Nodes
  BY <1>1 DEF RowInv, Typed, Nodes, NodesOf
<1>4. i \notin ToSet(answered) /\ answered \in Seq(Id) /\ IsInjective(answered)
  BY <1>1, <1>3 DEF RowInv, Typed, Opened
<1>5. \A j \in DOMAIN task : Opened(task[j]) => task[j].node = task[i].node
  BY <1>1 DEF RowInv, OneNode
<1>6. \A j \in DOMAIN task : PlaceOf(def, task[j].node) <= PlaceOf(def, task[i].node)
  BY <1>1 DEF RowInv, OneNode
<1>7. QED
  BY <1>1, <1>2, <1>3, <1>4, <1>5, <1>6

(* The answer to a main task keeps the invariant. *)
LEMMA MainAnswer ==
  ASSUME DeskInv, NEW i \in Ids, task[i].status = "active", task[i].parent = NoId, NoOpenSigner(i), task[i].assignee # Nobody,
         NEW v \in Vote, NEW b \in AnswerBy, CompleteMainTask(i, Answer(task, i, v, b)), Kept
  PROVE  DeskInv' /\ TaskAnswered
<1>. DEFINE A == {i}
            T == {j \in AtNode(task[i].node) \ {i} : Active(j) /\ Mode(i) = "any"}
            n == task[i].node
<1>0. PICK rows : rows = Answer(task, i, v, b)
  OBVIOUS
<1>1. Opened(task[i])
  BY DEF Opened
<1>2. /\ task' = Terminate(rows, T, "sibling")
      /\ answered' = Append(answered, i)
      /\ asks' = asks \cup {n}
  BY <1>0 DEF CompleteMainTask, Ask
<1>3. /\ def \in Flows /\ RowInv(def, task, answered) /\ i \in DOMAIN task /\ i \in Id
      /\ \A j \in DOMAIN task : task[j] \in Row(task[j].node) /\ j \in Id
      /\ i \notin ToSet(answered) /\ answered \in Seq(Id) /\ IsInjective(answered)
      /\ \A j \in DOMAIN task : Opened(task[j]) => task[j].node = n
      /\ \A j \in DOMAIN task : PlaceOf(def, task[j].node) <= PlaceOf(def, n)
      /\ n \in Nodes
  BY <1>1, OpenFacts
<1>4. RowsAfter(rows, task, A, {}, "sibling")
  <2>1. RowsOf(task)
    BY <1>3 DEF RowsOf
  <2>2. QED
    BY <1>0, <1>3, <2>1, OneAnswer
<1>5. \A j : j \in T <=> j \in DOMAIN task /\ j # i /\ task[j].node = n /\ task[j].status = "active"
                         /\ def.mode[n] = "any"
  BY DEF AtNode, Active, Mode, Ids
<1>6. \A a \in A : /\ a \in DOMAIN task /\ task[a].node = n
                   /\ task[a].status # "completed" /\ Opened(task[a])
  BY <1>1, <1>3
<1>. HIDE DEF T
<1>7. RowsAfter(task', task, A, T, "sibling")
  <2>1. A \in SUBSET DOMAIN task /\ T \subseteq DOMAIN task /\ T \cap A = {}
    BY <1>3, <1>5
  <2>2. QED
    BY <1>2, <1>4, <2>1, AndTerminates
<1>8. ASSUME NEW j \in DOMAIN task, Opened(task[j]), j # i, ~OrSigned(def, n)
      PROVE  FALSE
  <2>1. task[j].node = n
    BY <1>3, <1>8
  <2>2. CASE task[j].parent = NoId
    BY <1>3, <1>8, <2>1, <2>2 DEF RowInv, LoneMain
  <2>3. CASE task[j].parent # NoId
    <3>1. /\ task[j].parent \in DOMAIN task /\ task[task[j].parent].parent = NoId
          /\ task[task[j].parent].node = n
      BY <1>3, <2>1, <2>3 DEF RowInv, Family
    <3>2. task[j].parent = i
      BY <1>3, <1>8, <3>1 DEF RowInv, LoneMain
    <3>3. QED
      BY <1>8, <3>2 DEF NoOpenSigner, Main, Subs, Open, Opened, Ids
  <2>4. QED
    BY <2>2, <2>3
<1>9. \A j \in DOMAIN task : Opened(task[j]) => j \in A \cup T
  <2>1. ASSUME NEW j \in DOMAIN task, Opened(task[j]), j # i PROVE j \in T
    <3>1. OrSigned(def, n) /\ task[j].node = n
      BY <1>3, <1>8, <2>1
    <3>2. task[j].status = "active"
      BY <1>1, <1>3, <2>1, <3>1 DEF RowInv, LoneMain
    <3>3. QED
      BY <1>5, <2>1, <3>1, <3>2 DEF OrSigned
  <2>2. QED
    BY <2>1
<1>10. \A j \in T : j \in DOMAIN task /\ j \notin A /\ Opened(task[j]) /\ OrSigned(def, task[j].node)
  BY <1>5, <1>8 DEF Opened
<1>11. PICK ans2 : ans2 = answered'
  OBVIOUS
<1>12. Longer(answered, ans2, A)
  BY <1>2, <1>3, <1>11, AnswerOne
<1>13. Ending(i, A, T, "sibling")
  BY <1>6, <1>9, <1>10 DEF Ending
<1>14. RowInv(def, task', ans2)
  BY <1>1, <1>7, <1>12, <1>13, AnswersLeave
<1>15. \A k \in DOMAIN task' : ~Opened(task'[k]) /\ PlaceOf(def, task'[k].node) <= PlaceOf(def, n)
  BY <1>3, <1>7, <1>9 DEF RowsAfter, RowAfter, Opened
<1>16. TaskAnswered
  BY <1>2, <1>7, <1>10 DEF TaskAnswered
<1>17. QED
  BY <1>1, <1>2, <1>3, <1>11, <1>14, <1>15, <1>16, AskStep

(* Every task is judged by a valid rule. *)
LEMMA RuleValid ==
  ASSUME DeskInv, NEW p \in DOMAIN task
  PROVE  ValidRule(RuleOf(p))
<1>1. def \in Flows /\ task[p].node \in NodesOf(def)
  BY DEF DeskInv, DriveTyped, RowInv, Typed
<1>2. ValidRule(def.rule[task[p].node])
  BY <1>1, FlowNodes
<1>3. CASE task[p].fallback
  <2>1. RuleOf(p) = [type |-> "any", value |-> 0]
    BY <1>3 DEF RuleOf
  <2>2. QED
    BY <2>1 DEF ValidRule, RuleType
<1>4. CASE ~task[p].fallback /\ def.mode[task[p].node] = "vote"
  BY <1>2, <1>4 DEF RuleOf, NodeRule
<1>5. CASE ~task[p].fallback /\ def.mode[task[p].node] # "vote"
  <2>1. RuleOf(p) = [type |-> "all", value |-> 0]
    BY <1>5 DEF RuleOf, NodeRule
  <2>2. QED
    BY <2>1 DEF ValidRule, RuleType
<1>6. QED
  BY <1>3, <1>4, <1>5

(* The votes are decided when there are some and no open one. *)
LEMMA NobodyLeft ==
  ASSUME DeskInv, NEW p \in DOMAIN task, NEW rows, DOMAIN rows \subseteq Id,
         \A j \in DOMAIN rows : rows[j].parent = p => rows[j].status \in {"completed", "terminated"},
         NEW i \in DOMAIN rows, rows[i].parent = p, rows[i].status = "completed"
  PROVE  Decided(rows, p)
<1>1. VotesIn(rows, p) = Electorate(rows, p) /\ i \in Electorate(rows, p)
  BY DEF VotesIn, Electorate
<1>2. IsFiniteSet(Electorate(rows, p)) /\ IsFiniteSet(Approvals(rows, p))
  <2>1. IsFiniteSet(Id)
    BY RowBounds, FS_Interval DEF Id
  <2>2. Electorate(rows, p) \subseteq Id /\ Approvals(rows, p) \subseteq Id
    BY DEF Electorate, Approvals, VotesIn
  <2>3. QED
    BY <2>1, <2>2, FS_Subset
<1>. DEFINE t == Cardinality(Electorate(rows, p))
            a == Cardinality(Approvals(rows, p))
<1>3. t \in Nat /\ a \in Nat /\ t # 0
  BY <1>1, <1>2, FS_CardinalityType, FS_EmptySet
<1>4. Tally(rows, p) = [total |-> t, voted |-> t, yes |-> a]
  BY <1>1 DEF Tally
<1>. HIDE DEF t, a
<1>5. Decides(RuleOf(p), t, t, a)
  BY <1>3, RuleValid, AllVoted
<1>6. QED
  BY <1>3, <1>4, <1>5 DEF Decided, DecidedBy

(* The row of a signer's answer has a parent on the same node, which is not *)
(* answered, and every other open task is the parent or has it too.        *)
LEMMA SignerFacts ==
  ASSUME DeskInv, NEW i \in Ids, Opened(task[i]), task[i].parent # NoId, NEW p, p = task[i].parent
  PROVE  /\ p \in DOMAIN task /\ p # i /\ task[p].parent = NoId /\ task[p].node = task[i].node
         /\ task[p].status # "completed"
         /\ ~OrSigned(def, task[i].node)
         /\ \A j \in DOMAIN task : Opened(task[j]) => j = p \/ task[j].parent = p
<1>1. /\ def \in Flows /\ RowInv(def, task, answered) /\ i \in DOMAIN task
      /\ \A j \in DOMAIN task : Opened(task[j]) => task[j].node = task[i].node
  BY OpenFacts
<1>2. /\ p \in DOMAIN task /\ task[p].parent = NoId /\ task[p].node = task[i].node
      /\ ~OrSigned(def, task[i].node) /\ p # i
  BY <1>1 DEF RowInv, Family
<1>3. task[p].status # "completed"
  BY <1>1, <1>2 DEF RowInv, LoneMain
<1>4. ASSUME NEW j \in DOMAIN task, Opened(task[j]) PROVE j = p \/ task[j].parent = p
  <2>1. task[j].node = task[i].node
    BY <1>1, <1>4
  <2>2. CASE task[j].parent = NoId
    BY <1>1, <1>2, <2>1, <2>2 DEF RowInv, LoneMain
  <2>3. CASE task[j].parent # NoId
    <3>1. /\ task[j].parent \in DOMAIN task /\ task[task[j].parent].parent = NoId
          /\ task[task[j].parent].node = task[i].node
      BY <1>1, <2>1, <2>3 DEF RowInv, Family
    <3>2. QED
      BY <1>1, <1>2, <3>1 DEF RowInv, LoneMain
  <2>4. QED
    BY <2>2, <2>3
<1>5. QED
  BY <1>2, <1>3, <1>4

(* A vote that ends its parent keeps the invariant. *)
LEMMA CloseParentStep ==
  ASSUME DeskInv, NEW i \in Ids, task[i].status = "active", task[i].parent # NoId,
         NEW v \in Vote, NEW b \in AnswerBy, NEW w \in Vote,
         CloseParent(Answer(task, i, v, b), i, w), Ruling(Answer(task, i, v, b), i, w), Kept
  PROVE  DeskInv' /\ TaskDecided
<1>. DEFINE p == task[i].parent
            A == {i, p}
            n == task[i].node
<1>0. PICK rows : rows = Answer(task, i, v, b)
  OBVIOUS
<1>. Opened(task[i])
  BY DEF Opened
<1>. DEFINE T == {j \in DOMAIN rows : rows[j].parent = p /\ OpenIn(rows, j)}
<1>1. PICK rows2 : rows2 = Answer(rows, p, w, "assignee")
  OBVIOUS
<1>2. /\ task' = Terminate(rows2, T, "threshold")
      /\ answered' = answered \o <<i, p>>
      /\ asks' = asks \cup {task[p].node}
  BY <1>0, <1>1 DEF CloseParent, Ask
<1>3. /\ def \in Flows /\ RowInv(def, task, answered) /\ i \in DOMAIN task /\ i \in Id
      /\ \A j \in DOMAIN task : task[j] \in Row(task[j].node) /\ j \in Id
      /\ i \notin ToSet(answered) /\ answered \in Seq(Id) /\ IsInjective(answered)
      /\ \A j \in DOMAIN task : PlaceOf(def, task[j].node) <= PlaceOf(def, n)
      /\ n \in Nodes
  BY OpenFacts
<1>4. /\ p \in DOMAIN task /\ p # i /\ task[p].parent = NoId /\ task[p].node = n
      /\ task[p].status # "completed"
      /\ ~OrSigned(def, n)
      /\ \A j \in DOMAIN task : Opened(task[j]) => j = p \/ task[j].parent = p
  BY SignerFacts
<1>5. p \in Id /\ p \notin ToSet(answered)
  BY <1>3, <1>4 DEF RowInv, Typed
<1>. HIDE DEF p
<1>6. RowsAfter(rows, task, {i}, {}, "sibling")
  <2>1. RowsOf(task)
    BY <1>3 DEF RowsOf
  <2>2. QED
    BY <1>0, <1>3, <2>1, OneAnswer
<1>7. RowsAfter(rows2, task, {i} \cup {p}, {}, "sibling")
  <2>1. {i} \in SUBSET DOMAIN task /\ "assignee" \in AnswerBy
    BY <1>3 DEF AnswerBy
  <2>2. QED
    BY <1>1, <1>4, <1>6, <2>1, MoreAnswers
<1>8. \A j : j \in T <=> j \in DOMAIN task /\ j # i /\ task[j].parent = p /\ Opened(task[j])
  BY <1>6 DEF RowsAfter, RowAfter, OpenIn, Opened
<1>. HIDE DEF T
<1>9. A = {i} \cup {p} /\ A \in SUBSET DOMAIN task /\ T \subseteq DOMAIN task /\ T \cap A = {}
  <2>1. p \notin T
    BY <1>3, <1>4, <1>8 DEF RowInv, Family
  <2>2. QED
    BY <1>3, <1>4, <1>8, <2>1
<1>. HIDE DEF A
<1>10. RowsAfter(task', task, A, T, "threshold")
  BY <1>2, <1>7, <1>9, AndTerminates
<1>11. Ending(i, A, T, "threshold")
  <2>1. \A a : a \in A <=> a = i \/ a = p
    BY DEF A
  <2>2. \A a \in A : /\ a \in DOMAIN task /\ task[a].node = task[i].node
                     /\ task[a].status # "completed"
                     /\ Opened(task[a]) \/ task[a].parent = NoId
    BY <1>3, <1>4, <2>1 DEF Opened
  <2>3. p # NoId
    BY DEF p
  <2>4. \A j \in T : /\ j \in DOMAIN task /\ j \notin A /\ Opened(task[j])
                     /\ task[j].parent # NoId /\ task[j].parent \in A
    BY <1>8, <1>9, <2>1, <2>3
  <2>5. \A j \in DOMAIN task : Opened(task[j]) => j \in A \cup T
    BY <1>4, <1>8, <2>1
  <2>6. QED
    BY <2>1, <2>2, <2>4, <2>5 DEF Ending
<1>12. PICK ans2 : ans2 = answered'
  OBVIOUS
<1>13. Longer(answered, ans2, A)
  BY <1>2, <1>3, <1>4, <1>5, <1>12, AnswerTwo DEF A
<1>14. RowInv(def, task', ans2)
  BY <1>10, <1>11, <1>13, AnswersLeave
<1>15. \A k \in DOMAIN task' : ~Opened(task'[k]) /\ PlaceOf(def, task'[k].node) <= PlaceOf(def, n)
  <2>1. \A k \in DOMAIN task : k \in A \cup T => task'[k].status \in {"completed", "terminated"}
    BY <1>10 DEF RowsAfter, RowAfter
  <2>2. \A k \in DOMAIN task : k \notin A \cup T => task'[k].status = task[k].status
    BY <1>10 DEF RowsAfter, RowAfter
  <2>3. \A k \in DOMAIN task : Opened(task[k]) => k \in A \cup T
    BY <1>4, <1>8 DEF A
  <2>4. DOMAIN task' = DOMAIN task /\ \A k \in DOMAIN task : task'[k].node = task[k].node
    BY <1>10 DEF RowsAfter, RowAfter
  <2>5. QED
    BY <1>3, <2>1, <2>2, <2>3, <2>4 DEF Opened
<1>16. TaskDecided
  <2>1. DOMAIN rows = DOMAIN task /\ RowsOf(rows)
    <3>1. \A j \in DOMAIN task : rows[j] \in Row(task[j].node) /\ rows[j].node = task[j].node
      BY <1>6 DEF RowsAfter, RowAfter
    <3>2. QED
      BY <1>6, <3>1 DEF RowsAfter, RowsOf
  <2>2. RowsAfter(rows2, rows, {p}, {}, "sibling") /\ rows2[p].reason = w /\ p \notin T
    <3>1. p \in DOMAIN rows /\ "assignee" \in AnswerBy
      BY <1>4, <2>1 DEF AnswerBy
    <3>2. RowsAfter(rows2, rows, {p}, {}, "sibling") /\ rows2[p].reason = w
      BY <1>1, <2>1, <3>1, OneAnswer
    <3>3. p \notin T
      BY <1>9 DEF A
    <3>4. QED
      BY <3>2, <3>3
  <2>3. {p} \in SUBSET DOMAIN rows /\ T \subseteq DOMAIN rows /\ T \cap {p} = {}
    BY <1>4, <1>9, <2>1, <2>2
  <2>4. RowsAfter(task', rows, {p}, T, "threshold")
    BY <1>2, <2>2, <2>3, AndTerminates
  <2>5. task'[p] = rows2[p]
    BY <1>2, <1>4, <2>1, <2>2, TerminateIs DEF RowsAfter
  <2>6. \A j : j \in T <=> j \in DOMAIN rows /\ rows[j].parent = p /\ Opened(rows[j])
    BY DEF T, OpenIn, Opened
  <2>7. asks' = asks \cup {n}
    BY <1>2, <1>4
  <2>8. VoteEnds(i, rows, T, w)
    BY <1>0, <1>6, <2>2, <2>4, <2>5, <2>6, <2>7 DEF VoteEnds, p
  <2>9. QED
    BY <2>8 DEF TaskDecided
<1>17. QED
  BY <1>2, <1>3, <1>4, <1>12, <1>14, <1>15, <1>16, AskStep

(* The answer to a sub-task keeps the invariant. *)
LEMMA SubAnswer ==
  ASSUME DeskInv, NEW i \in Ids, task[i].status = "active", task[i].parent # NoId,
         NEW v \in Vote, NEW b \in AnswerBy, CompleteSubTask(i, Answer(task, i, v, b)), Kept
  PROVE  DeskInv' /\ (TaskVoted \/ TaskDecided)
<1>. DEFINE p == task[i].parent
            A == {i}
<1>0. PICK rows : rows = Answer(task, i, v, b)
  OBVIOUS
<1>1. Opened(task[i])
  BY DEF Opened
<1>2. CASE \E w \in Vote : CloseParent(rows, i, w) /\ Ruling(rows, i, w)
  BY <1>0, <1>1, <1>2, CloseParentStep
<1>3. CASE ~\E w \in Vote : CloseParent(rows, i, w) /\ Ruling(rows, i, w)
  <2>1. /\ def \in Flows /\ RowInv(def, task, answered) /\ i \in DOMAIN task /\ i \in Id
        /\ \A j \in DOMAIN task : task[j] \in Row(task[j].node) /\ j \in Id
        /\ i \notin ToSet(answered) /\ answered \in Seq(Id) /\ IsInjective(answered)
    BY <1>1, OpenFacts
  <2>2. /\ p \in DOMAIN task /\ p # i /\ task[p].parent = NoId /\ task[p].node = task[i].node
        /\ task[p].status # "completed"
        /\ ~OrSigned(def, task[i].node)
        /\ \A j \in DOMAIN task : Opened(task[j]) => j = p \/ task[j].parent = p
    BY <1>1, SignerFacts
  <2>3. ~ParentEnded(i)
    BY <2>2 DEF ParentEnded, Completed, Ids
  <2>4. {"approved", "rejected"} = Vote
    BY DEF Vote
  <2>5. /\ task' = rows /\ answered' = Append(answered, i) /\ asks' = asks
        /\ ~(Decided(rows, p) /\ ~WaitsForAssignee(i))
        /\ ~Vetoes(rows, i)
    BY <1>0, <1>3, <2>3, <2>4 DEF CompleteSubTask, Ruling, WaitsForAssignee
  <2>. HIDE DEF p
  <2>6. RowsAfter(rows, task, A, {}, "sibling")
    <3>1. RowsOf(task)
      BY <2>1 DEF RowsOf
    <3>2. QED
      BY <1>0, <2>1, <3>1, OneAnswer
  <2>7. Longer(answered, answered', A)
    BY <2>1, <2>5, AnswerOne
  <2>8. Ending(i, A, {}, "sibling")
    BY <1>1, <2>1 DEF Ending
  <2>9. RowInv(def, task', answered')
    BY <1>1, <2>5, <2>6, <2>7, <2>8, AnswersLeave
  <2>10. \E k \in DOMAIN task' : Opened(task'[k])
    <3>1. \A k \in DOMAIN task : k # i => Opened(rows[k]) <=> Opened(task[k])
      BY <2>6 DEF RowsAfter, RowAfter, Opened
    <3>2. CASE Opened(task[p])
      BY <2>2, <2>5, <2>6, <3>1, <3>2 DEF RowsAfter
    <3>3. CASE ~Opened(task[p])
      <4>1. task[p].status = "terminated"
        BY <2>1, <2>2, <3>3, RowFields DEF Opened, RowStatus
      <4>2. ~WaitsForAssignee(i)
        BY <2>1, <2>2, <4>1 DEF RowInv, Claims, WaitsForAssignee, p
      <4>3. SUFFICES ASSUME \A k \in DOMAIN rows : ~Opened(rows[k]) PROVE FALSE
        BY <2>5
      <4>4. \A k \in DOMAIN rows : rows[k].status \in {"completed", "terminated"}
        <5>1. \A k \in DOMAIN rows : rows[k].status \in RowStatus
          BY <2>1, <2>6, RowFields DEF RowsAfter, RowAfter
        <5>2. QED
          BY <4>3, <5>1 DEF Opened, RowStatus
      <4>5. i \in DOMAIN rows /\ rows[i].parent = p /\ rows[i].status = "completed" /\ DOMAIN rows \subseteq Id
        BY <2>1, <2>6 DEF RowsAfter, RowAfter, p
      <4>6. Decided(rows, p)
        BY <2>2, <4>4, <4>5, NobodyLeft
      <4>7. QED
        BY <2>5, <4>2, <4>6
    <3>4. QED
      BY <3>2, <3>3
  <2>11. Settled
    BY <2>5 DEF Kept, Settled
  <2>12. TaskVoted
    BY <2>5, <2>6, <2>11 DEF TaskVoted, WaitsForAssignee, p
  <2>13. QED
    BY <1>1, <2>9, <2>10, <2>11, <2>12, OpenStep
<1>4. QED
  BY <1>2, <1>3

(* An answer keeps the invariant. *)
LEMMA CompleteStep ==
  ASSUME DeskInv, NEW i \in Ids, task[i].status = "active", NoOpenSigner(i), task[i].assignee # Nobody,
         NEW v \in Vote, NEW b \in AnswerBy, Complete(i, v, b), Kept
  PROVE  DeskInv' /\ (TaskAnswered \/ TaskVoted \/ TaskDecided)
<1>1. CASE task[i].parent = NoId
  BY <1>1, MainAnswer DEF Complete, Main
<1>2. CASE task[i].parent # NoId
  BY <1>2, SubAnswer DEF Complete, Main
<1>3. QED
  BY <1>1, <1>2

(* The answer of a delegate keeps the invariant. *)
LEMMA ResolvedStep ==
  ASSUME DeskInv, NEW i \in Ids, task[i].status = "active", task[i].owner # Nobody,
         ResolveDelegatedApproval(i), Kept
  PROVE  DeskInv' /\ TaskPassed
<1>1. Opened(task[i])
  BY DEF Opened
<1>2. task[i].owner \in User /\ task[i] \in Row(task[i].node) /\ i \in DOMAIN task
  BY <1>1, MayStay DEF Ids
<1>3. PICK w, o : w = task[i] /\ o = task[i].owner
  OBVIOUS
<1>4. PICK x : x = [w EXCEPT !.assignee = o, !.owner = Nobody]
  OBVIOUS
<1>5. task' = [task EXCEPT ![i] = x]
  <2>1. task' = [[task EXCEPT ![i] = [w EXCEPT !.assignee = o]]
                   EXCEPT ![i] = [[w EXCEPT !.assignee = o] EXCEPT !.owner = Nobody]]
    BY <1>2, <1>3 DEF ResolveDelegatedApproval
  <2>2. [[w EXCEPT !.assignee = o] EXCEPT !.owner = Nobody] = x
    BY <1>2, <1>3, <1>4 DEF Row
  <2>3. QED
    BY <1>2, <2>1, <2>2
<1>6. Settled /\ answered' = answered
  BY DEF ResolveDelegatedApproval, Kept, Settled
<1>7. Hands(def, task[i], o, Nobody, "active", task[i].pool)
  BY <1>2, <1>3, OrganisationAssumption DEF Hands
<1>8. QED
  BY <1>2, <1>3, <1>4, <1>5, <1>6, <1>7, HandOver

(* CompleteWithApproval keeps the invariant. *)
LEMMA ApprovalStep ==
  ASSUME DeskInv, NEW u \in People, NEW i \in Ids, NEW vote \in Vote, CompleteWithApproval(u, i, vote)
  PROVE  DeskInv' /\ (TaskPassed \/ TaskAnswered \/ TaskVoted \/ TaskDecided)
<1>1. task[i].status = "active" /\ Kept
  BY DEF CompleteWithApproval, Active, Kept, histVars
<1>2. CASE task[i].owner # Nobody
  BY <1>1, <1>2, ResolvedStep DEF CompleteWithApproval
<1>3. CASE task[i].owner = Nobody
  <2>1. NoOpenSigner(i) /\ Complete(i, vote, "assignee") /\ "assignee" \in AnswerBy /\ task[i].assignee # Nobody
    BY <1>3, PeopleUsers DEF CompleteWithApproval, AnswerBy
  <2>2. QED
    BY <1>1, <2>1, CompleteStep
<1>4. QED
  BY <1>2, <1>3

(* ProxyAudit keeps the invariant. *)
LEMMA ProxyStep ==
  ASSUME DeskInv, NEW i \in Ids, NEW vote \in Vote, ProxyAudit(i, vote)
  PROVE  DeskInv' /\ (TaskAnswered \/ TaskVoted \/ TaskDecided)
<1>1. task[i].status = "active" /\ Kept
  BY DEF ProxyAudit, MayProxy, Active, Kept, histVars
<1>2. NoOpenSigner(i) /\ Complete(i, vote, "proxy") /\ "proxy" \in AnswerBy /\ task[i].assignee # Nobody
  BY DEF ProxyAudit, MayProxy, AnswerBy
<1>3. QED
  BY <1>1, <1>2, CompleteStep

(* AutoApproveTasks keeps the invariant. *)
LEMMA AutoStep ==
  ASSUME DeskInv, AutoApproveTasks
  PROVE  DeskInv' /\ (TaskPassed \/ TaskAnswered \/ TaskVoted \/ TaskDecided \/ Idle)
<1>1. Kept /\ auto # NoNode /\ auto' = NoNode
  BY DEF AutoApproveTasks, Kept, histVars
<1>2. CASE inst = "active" /\ \E i \in ToApprove(auto) : NoOpenSigner(i)
  <2>1. PICK i \in ToApprove(auto) :
          /\ NoOpenSigner(i)
          /\ IF task[i].owner # Nobody THEN ResolveDelegatedApproval(i)
                                       ELSE Complete(i, "approved", "system")
    BY <1>2 DEF AutoApproveTasks, ApprovedForStarter
  <2>2. i \in Ids /\ task[i].status = "active" /\ task[i].assignee # Nobody
    BY StarterUser DEF ToApprove, AtNode, Active
  <2>3. CASE task[i].owner # Nobody
    BY <1>1, <2>1, <2>2, <2>3, ResolvedStep
  <2>4. CASE task[i].owner = Nobody
    <3>1. Complete(i, "approved", "system") /\ "approved" \in Vote /\ "system" \in AnswerBy
      BY <2>1, <2>4 DEF Vote, AnswerBy
    <3>2. QED
      BY <1>1, <2>1, <2>2, <3>1, CompleteStep
  <2>5. QED
    BY <2>3, <2>4
<1>3. CASE ~(inst = "active" /\ \E i \in ToApprove(auto) : NoOpenSigner(i))
  <2>1. /\ def' = def /\ inst' = inst /\ asks' = asks /\ at' = at /\ resets' = resets /\ auto' = NoNode
        /\ recalls' = recalls /\ past' = past /\ last' = last /\ task' = task /\ answered' = answered
    BY <1>1, <1>3 DEF AutoApproveTasks, Kept, rowVars
  <2>2. Apart(def)' /\ RowInv(def, task, answered)' /\ DriveTyped'
    BY <2>1 DEF DeskInv, DriveTyped, Nodes
  <2>3. OneDrive' /\ Quiet' /\ Beyond'
    BY <2>1 DEF DeskInv, OneDrive, Quiet, Beyond, Driving, Waiting, Ids, Nodes
  <2>4. Idle
    BY <2>1 DEF Idle
  <2>5. QED
    BY <2>2, <2>3, <2>4 DEF DeskInv
<1>4. QED
  BY <1>2, <1>3

-----------------------------------------------------------------------------
(* The drive.                                                              *)

(* Types that the steps of a drive use. *)
LEMMA DriveFacts ==
  ASSUME DeskInv
  PROVE  /\ def \in Flows /\ RowInv(def, task, answered)
         /\ \A j \in Ids : task[j] \in Row(task[j].node) /\ task[j].node \in Nodes /\ j \in Id
         /\ answered \in Seq(Id) /\ Nodes = NodesOf(def)
         /\ End \notin Nodes /\ NoNode \notin Nodes /\ End # NoNode
<1>1. def \in Flows /\ RowInv(def, task, answered) /\ Nodes = NodesOf(def)
  BY DEF DeskInv, DriveTyped, Nodes, NodesOf
<1>2. End \notin Nodes /\ NoNode \notin Nodes
  BY <1>1, FlowNodes
<1>3. QED
  BY <1>1, <1>2, NodeAssumption DEF RowInv, Typed, Ids

(* An instance that ends. *)
LEMMA EndStep ==
  ASSUME DeskInv, NEW s \in {"completed", "terminated"}, EndInstance(s),
         def' = def, asks' \subseteq asks, at' \in {at, NoNode}, auto' = auto, resets' = resets,
         s = "completed" => asks' = {} /\ at' = NoNode /\ resets' = <<>>
  PROVE  DeskInv'
<1>1. /\ def \in Flows /\ RowInv(def, task, answered)
      /\ \A j \in Ids : task[j] \in Row(task[j].node) /\ task[j].node \in Nodes /\ j \in Id
  BY DriveFacts
<1>2. /\ inst' = s /\ task' = Without(task, Ids) /\ answered' = Unanswer(Ids) /\ recalls' = recalls
      /\ past' = IF s = "completed"
                 THEN past \cup {<<task[i].node, task[i].assignee>> : i \in {j \in Ids : Human(j)}}
                 ELSE {}
      /\ last' = IF s = "completed" /\ answered # <<>>
                 THEN task[answered[Len(answered)]].node ELSE NoNode
  BY DEF EndInstance, Archive
<1>3. RowInv(def, task', answered') /\ DOMAIN task' = {}
  <2>1. \A j \in Ids : task[j].parent \in Ids => j \in Ids
    OBVIOUS
  <2>2. RowInv(def, Without(task, Ids), Unanswer(Ids)) /\ DOMAIN Without(task, Ids) = Ids \ Ids
    BY <1>1, <2>1, ArchiveRows
  <2>3. QED
    BY <1>2, <2>2
<1>4. past' \subseteq Nodes \X User
  <2>1. \A i \in Ids : Human(i) => task[i].node \in Nodes /\ task[i].assignee \in User
    BY <1>1, RowFields DEF Human
  <2>2. past \subseteq Nodes \X User
    BY DEF DeskInv, DriveTyped
  <2>3. CASE s = "completed"
    <3>1. past' = past \cup {<<task[i].node, task[i].assignee>> : i \in {j \in Ids : Human(j)}}
      BY <1>2, <2>3
    <3>2. {<<task[i].node, task[i].assignee>> : i \in {j \in Ids : Human(j)}} \subseteq Nodes \X User
      BY <2>1
    <3>3. QED
      BY <2>2, <3>1, <3>2
  <2>4. CASE s # "completed"
    BY <1>2, <2>4
  <2>5. QED
    BY <2>3, <2>4
<1>5. last' \in Nodes \cup {NoNode}
  <2>1. CASE s = "completed" /\ answered # <<>>
    <3>1. answered[Len(answered)] \in ToSet(answered)
      <4>1. answered \in Seq(Id) /\ Len(answered) \in Nat /\ DOMAIN answered = 1..Len(answered)
        BY <1>1, LenProperties DEF RowInv, Typed
      <4>2. Len(answered) # 0
        BY <2>1, <4>1, EmptySeq
      <4>3. Len(answered) \in DOMAIN answered
        BY <4>1, <4>2
      <4>4. QED
        BY <4>3 DEF ToSet
    <3>2. answered[Len(answered)] \in Ids
      <4>1. ToSet(answered) \subseteq Id
        BY <1>1, LenProperties, ElementOfSeq DEF RowInv, Typed, ToSet
      <4>2. QED
        BY <1>1, <3>1, <4>1 DEF RowInv, Typed, Ids
    <3>3. QED
      BY <1>1, <1>2, <2>1, <3>2
  <2>2. CASE ~(s = "completed" /\ answered # <<>>)
    BY <1>2, <2>2
  <2>3. QED
    BY <2>1, <2>2
<1>6. Apart(def)' /\ DriveTyped'
  BY <1>2, <1>4, <1>5 DEF DeskInv, DriveTyped, Nodes
<1>7. OneDrive' /\ Quiet' /\ Beyond'
  BY <1>2, <1>3 DEF DeskInv, OneDrive, Quiet, Beyond, Driving, Waiting, Ids
<1>8. QED
  BY <1>3, <1>6, <1>7 DEF DeskInv

(* ExecuteNext keeps the invariant. *)
LEMMA ExecuteNextStep ==
  ASSUME DeskInv, NEW n \in Nodes, ExecuteNext(n)
  PROVE  DeskInv'
<1>1. /\ at = NoNode /\ auto = NoNode /\ resets = <<>> /\ n \in asks /\ asks' = asks \ {n}
      /\ at' = (IF inst = "active" THEN n ELSE NoNode)
      /\ def' = def /\ inst' = inst /\ task' = task /\ answered' = answered /\ auto' = auto
      /\ resets' = resets /\ recalls' = recalls /\ past' = past /\ last' = last
  BY DEF ExecuteNext, GateFree, rowVars, histVars
<1>2. asks' = {}
  BY <1>1 DEF DeskInv, OneDrive
<1>3. Apart(def)' /\ DriveTyped' /\ RowInv(def, task, answered)'
  BY <1>1, <1>2 DEF DeskInv, DriveTyped, Nodes
<1>4. OneDrive' /\ Beyond'
  BY <1>1, <1>2 DEF DeskInv, OneDrive, Beyond, Driving, Ids, Nodes
<1>5. Quiet'
  BY <1>1, <1>2, DriveFacts DEF DeskInv, OneDrive, Quiet, Driving, Waiting, Ids
<1>6. QED
  BY <1>3, <1>4, <1>5 DEF DeskInv

(* The node after another one is no earlier. *)
LEMMA NextPlace ==
  ASSUME DeskInv, NEW n \in Nodes
  PROVE  /\ After(n) \in Nodes \cup {End}
         /\ After(n) \in Nodes => PlaceOf(def, n) <= PlaceOf(def, After(n))
<1>1. def \in Flows /\ Nodes = NodesOf(def) /\ End \notin Nodes
  BY DriveFacts
<1>2. /\ Len(def.nodes) \in Nat /\ DOMAIN def.nodes = 1..Len(def.nodes)
      /\ \A k \in DOMAIN def.nodes : def.nodes[k] \in NodesOf(def) /\ PlaceOf(def, def.nodes[k]) = k
      /\ PlaceOf(def, n) \in DOMAIN def.nodes
  BY <1>1, FlowNodes
<1>3. Place(n) = PlaceOf(def, n)
  BY DEF Place, PlaceOf
<1>4. CASE Place(n) = Len(def.nodes)
  BY <1>1, <1>4 DEF After
<1>5. CASE Place(n) # Len(def.nodes)
  <2>1. Place(n) + 1 \in DOMAIN def.nodes
    BY <1>2, <1>3, <1>5
  <2>2. After(n) = def.nodes[Place(n) + 1]
    BY <1>5 DEF After
  <2>3. PlaceOf(def, After(n)) = Place(n) + 1 /\ After(n) \in Nodes
    BY <1>1, <1>2, <2>1, <2>2
  <2>4. QED
    BY <1>2, <1>3, <2>3
<1>6. QED
  BY <1>4, <1>5

(* TellSuccess keeps the invariant. *)
LEMMA TellSuccessStep ==
  ASSUME DeskInv, NEW n \in Nodes, TellSuccess(n)
  PROVE  DeskInv'
<1>1. /\ at = n /\ at' = After(n) /\ inst = "active"
      /\ def' = def /\ inst' = inst /\ asks' = asks /\ task' = task /\ answered' = answered /\ auto' = auto
      /\ resets' = resets /\ recalls' = recalls /\ past' = past /\ last' = last
  BY DEF TellSuccess, Judged, rowVars, histVars
<1>2. /\ at # NoNode /\ at' # NoNode /\ at' \in Nodes \cup {End} /\ End \notin Nodes
      /\ at' \in Nodes => PlaceOf(def, n) <= PlaceOf(def, at')
  BY <1>1, DriveFacts, NextPlace
<1>3. Apart(def)' /\ DriveTyped' /\ RowInv(def, task, answered)'
  BY <1>1, <1>2 DEF DeskInv, DriveTyped, Nodes
<1>4. OneDrive' /\ Quiet'
  BY <1>1, <1>2 DEF DeskInv, OneDrive, Quiet, Driving, Waiting, Ids
<1>5. Beyond'
  <2>1. asks = {} /\ resets = <<>>
    BY <1>1, <1>2 DEF DeskInv, OneDrive
  <2>2. ASSUME at' \in Nodes, NEW i \in Ids PROVE PlaceOf(def, task[i].node) <= PlaceOf(def, at')
    <3>1. PlaceOf(def, task[i].node) <= PlaceOf(def, n)
      BY <1>1 DEF DeskInv, Beyond
    <3>2. PlaceOf(def, n) <= PlaceOf(def, at')
      BY <1>2, <2>2
    <3>3. PlaceOf(def, task[i].node) \in Nat /\ PlaceOf(def, n) \in Nat /\ PlaceOf(def, at') \in Nat
      BY <2>2, DriveFacts, PlaceType
    <3>4. QED
      BY <3>1, <3>2, <3>3
  <2>3. QED
    BY <1>1, <2>1, <2>2 DEF Beyond, Ids, Nodes
<1>6. QED
  BY <1>3, <1>4, <1>5 DEF DeskInv

(* StopAtEnded keeps the invariant. *)
LEMMA StopAtEndedStep ==
  ASSUME DeskInv, StopAtEnded
  PROVE  DeskInv'
<1>1. /\ at' = NoNode /\ inst # "active"
      /\ def' = def /\ inst' = inst /\ asks' = asks /\ task' = task /\ answered' = answered /\ auto' = auto
      /\ resets' = resets /\ recalls' = recalls /\ past' = past /\ last' = last
  BY DEF StopAtEnded, rowVars, histVars
<1>2. Apart(def)' /\ DriveTyped' /\ RowInv(def, task, answered)'
  BY <1>1 DEF DeskInv, DriveTyped, Nodes
<1>3. OneDrive' /\ Quiet' /\ Beyond'
  BY <1>1, DriveFacts DEF DeskInv, OneDrive, Quiet, Beyond, Driving, Waiting, Ids, Nodes
<1>4. QED
  BY <1>2, <1>3 DEF DeskInv

(* CompleteProcessInstance keeps the invariant. *)
LEMMA CompleteProcessStep ==
  ASSUME DeskInv, CompleteProcessInstance
  PROVE  DeskInv'
<1>1. /\ at = End /\ EndInstance("completed") /\ at' = NoNode
      /\ def' = def /\ asks' = asks /\ auto' = auto /\ resets' = resets
  BY DEF CompleteProcessInstance
<1>2. asks = {} /\ resets = <<>>
  BY <1>1, NodeAssumption DEF DeskInv, OneDrive
<1>3. QED
  BY <1>1, <1>2, EndStep

(* Withdraw keeps the invariant. *)
LEMMA WithdrawStep ==
  ASSUME DeskInv, Withdraw
  PROVE  DeskInv'
<1>1. EndInstance("terminated") /\ def' = def /\ asks' = asks /\ at' = at /\ auto' = auto /\ resets' = resets
  BY DEF Withdraw, driveVars
<1>2. QED
  BY <1>1, EndStep

(* The recall that reopens a completed instance keeps the invariant. *)
LEMMA RecallCompletedStep ==
  ASSUME DeskInv, NEW u \in People, RecallCompleted(u)
  PROVE  DeskInv'
<1>1. /\ inst = "completed" /\ recalls < MaxRecall /\ <<last, u>> \in past /\ inst' = "active"
      /\ recalls' = recalls + 1 /\ asks' = asks \cup {last}
      /\ def' = def /\ at' = at /\ task' = task /\ answered' = answered /\ auto' = auto
      /\ resets' = resets /\ past' = past /\ last' = last
  <2>1. recalls \in 0..MaxRecall /\ MaxRecall \in Nat
    BY RowBounds DEF DeskInv, DriveTyped
  <2>2. QED
    BY <2>1 DEF RecallCompleted, RecallCountExhausted, Ask, rowVars
<1>2. asks = {} /\ at = NoNode /\ resets = <<>> /\ Ids = {}
  BY <1>1 DEF DeskInv, OneDrive, Driving
<1>3. last \in Nodes /\ NoNode \notin Nodes
  BY <1>1, DriveFacts DEF DeskInv, DriveTyped
<1>4. recalls' \in 0..MaxRecall
  <2>1. recalls \in 0..MaxRecall /\ MaxRecall \in Nat
    BY RowBounds DEF DeskInv, DriveTyped
  <2>2. QED
    BY <1>1, <2>1
<1>5. Apart(def)' /\ DriveTyped' /\ RowInv(def, task, answered)'
  BY <1>1, <1>2, <1>3, <1>4 DEF DeskInv, DriveTyped, Nodes
<1>6. OneDrive' /\ Quiet' /\ Beyond'
  BY <1>1, <1>2, <1>3 DEF OneDrive, Quiet, Beyond, Driving, Waiting, Ids, Nodes
<1>7. QED
  BY <1>5, <1>6 DEF DeskInv

(* The jump of a rejection clears the nodes from its target to the         *)
(* rejecting one, and then runs the target.                                *)
Clears(m, n, r) ==
  /\ m \in Nodes /\ PlaceOf(def, m) <= PlaceOf(def, n)
  /\ r \in Seq(Nodes) /\ r # <<>> /\ Len(r) \in Nat /\ Len(r) >= 1 /\ r[Len(r)] = m
  /\ \A x \in Nodes : PlaceOf(def, m) <= PlaceOf(def, x) /\ PlaceOf(def, x) <= PlaceOf(def, n)
       => \E k \in 1..(Len(r) - 1) : r[k] = x

(* A rejection clears every node from its target to the rejecting one. *)
LEMMA JumpRegion ==
  ASSUME DeskInv, NEW n \in Nodes, NEW m, m = JumpTarget(n), m # NoNode,
         NEW r, r = RegionSeq(m, n) \o <<m>>
  PROVE  Clears(m, n, r)
<1>1. def \in Flows /\ Nodes = NodesOf(def)
  BY DriveFacts
<1>2. /\ Len(def.nodes) \in Nat /\ DOMAIN def.nodes = 1..Len(def.nodes) /\ Len(def.nodes) >= 1
      /\ \A k \in DOMAIN def.nodes : def.nodes[k] \in Nodes /\ PlaceOf(def, def.nodes[k]) = k
      /\ \A x \in Nodes : PlaceOf(def, x) \in DOMAIN def.nodes /\ def.nodes[PlaceOf(def, x)] = x
      /\ def.reject[n] \in Strategy
  BY <1>1, FlowNodes
<1>3. \A x : Place(x) = PlaceOf(def, x)
  BY DEF Place, PlaceOf
<1>4. m \in Nodes /\ PlaceOf(def, m) <= PlaceOf(def, n)
  <2>1. CASE def.reject[n] = "terminate"
    BY <2>1 DEF JumpTarget
  <2>2. CASE def.reject[n] = "toStarter"
    <3>1. m = def.nodes[1]
      BY <2>2 DEF JumpTarget
    <3>2. QED
      BY <1>2, <3>1
  <2>3. CASE def.reject[n] = "toPrev"
    <3>1. Place(n) # 1 /\ m = def.nodes[Place(n) - 1]
      BY <2>3 DEF JumpTarget
    <3>2. Place(n) - 1 \in DOMAIN def.nodes
      BY <1>2, <1>3, <3>1
    <3>3. QED
      BY <1>2, <1>3, <3>1, <3>2
  <2>4. QED
    BY <1>2, <2>1, <2>2, <2>3 DEF Strategy
<1>. DEFINE a == PlaceOf(def, m)
            b == PlaceOf(def, n)
            s == SubSeq(def.nodes, a, b)
<1>5. a \in 1..Len(def.nodes) /\ b \in 1..Len(def.nodes) /\ a \in Int /\ b \in Int /\ a <= b
  BY <1>2, <1>4
<1>6. r = s \o <<m>>
  BY <1>3 DEF RegionSeq
<1>. HIDE DEF a, b
<1>7. \A i \in a..b : def.nodes[i] \in Nodes
  BY <1>2, <1>5
<1>8. /\ s \in Seq(Nodes) /\ Len(s) = b - a + 1
      /\ \A i \in 1..(b - a + 1) : s[i] = def.nodes[a + i - 1]
  BY <1>5, <1>7, SubSeqProperties
<1>. HIDE DEF s
<1>9. PICK o : o = <<m>> /\ o \in Seq(Nodes) /\ Len(o) = 1 /\ o[1] = m
  <2>1. <<m>> \in Seq(Nodes) /\ Len(<<m>>) = 1 /\ <<m>>[1] = m
    BY <1>4
  <2>2. QED
    BY <2>1
<1>10. /\ r \in Seq(Nodes) /\ Len(r) = Len(s) + 1
       /\ \A i \in 1..(Len(s) + 1) : r[i] = IF i <= Len(s) THEN s[i] ELSE o[i - Len(s)]
  <2>1. r = s \o o
    BY <1>6, <1>9
  <2>2. /\ s \o o \in Seq(Nodes) /\ Len(s \o o) = Len(s) + Len(o)
        /\ \A i \in 1..(Len(s) + Len(o)) : (s \o o)[i] = IF i <= Len(s) THEN s[i] ELSE o[i - Len(s)]
    BY <1>8, <1>9, ConcatProperties
  <2>3. QED
    BY <1>9, <2>1, <2>2
<1>11. Len(s) \in Nat /\ Len(r) \in Nat /\ Len(r) >= 1
  BY <1>5, <1>8, <1>10
<1>12. r[Len(r)] = m /\ r # <<>>
  <2>1. r[Len(r)] = o[1]
    BY <1>10, <1>11
  <2>2. QED
    BY <1>9, <1>11, <2>1
<1>13. ASSUME NEW x \in Nodes, a <= PlaceOf(def, x), PlaceOf(def, x) <= b
       PROVE  \E k \in 1..(Len(r) - 1) : r[k] = x
  <2>. DEFINE k == PlaceOf(def, x) - a + 1
  <2>0. PlaceOf(def, x) \in Nat /\ a \in Nat /\ b \in Nat /\ Len(r) - 1 = b - a + 1 /\ Len(s) = b - a + 1
    BY <1>2, <1>5, <1>8, <1>10
  <2>1. k \in 1..(b - a + 1) /\ a + k - 1 = PlaceOf(def, x) /\ k <= b - a + 1
    BY <1>13, <2>0
  <2>. HIDE DEF k
  <2>2. r[k] = s[k] /\ s[k] = def.nodes[a + k - 1]
    <3>1. k \in 1..(Len(s) + 1) /\ k <= Len(s)
      BY <2>0, <2>1
    <3>2. QED
      BY <1>8, <1>10, <2>1, <3>1
  <2>3. QED
    BY <1>2, <2>0, <2>1, <2>2
<1>14. QED
  BY <1>4, <1>10, <1>11, <1>12, <1>13 DEF a, b, Clears

(* HandleRejection keeps the invariant. *)
LEMMA HandleRejectionStep ==
  ASSUME DeskInv, NEW n \in Nodes, HandleRejection(n)
  PROVE  DeskInv'
<1>1. at = n /\ at' = NoNode /\ def' = def /\ asks' = asks /\ auto' = auto
  BY DEF HandleRejection, Judged
<1>2. at # NoNode /\ asks = {} /\ resets = <<>>
  BY <1>1, DriveFacts DEF DeskInv, OneDrive
<1>3. CASE EndInstance("terminated") /\ resets' = resets
  BY <1>1, <1>3, EndStep
<1>4. CASE ~(EndInstance("terminated") /\ resets' = resets)
  <2>1. /\ JumpTarget(n) # NoNode
        /\ resets' = RegionSeq(JumpTarget(n), n) \o <<JumpTarget(n)>>
        /\ inst' = inst /\ task' = task /\ answered' = answered /\ recalls' = recalls /\ past' = past
        /\ last' = last
    BY <1>4 DEF HandleRejection, rowVars, histVars
  <2>2. PICK m, r : m = JumpTarget(n) /\ r = resets'
    OBVIOUS
  <2>3. /\ m \in Nodes /\ PlaceOf(def, m) <= PlaceOf(def, n)
        /\ r \in Seq(Nodes) /\ r # <<>> /\ Len(r) \in Nat /\ Len(r) >= 1 /\ r[Len(r)] = m
        /\ \A x \in Nodes : PlaceOf(def, m) <= PlaceOf(def, x) /\ PlaceOf(def, x) <= PlaceOf(def, n)
             => \E k \in 1..(Len(r) - 1) : r[k] = x
    <3>1. r = RegionSeq(m, n) \o <<m>> /\ m # NoNode
      BY <2>1, <2>2
    <3>2. Clears(m, n, r)
      BY <2>2, <3>1, JumpRegion
    <3>3. QED
      BY <3>2 DEF Clears
  <2>4. Apart(def)' /\ DriveTyped' /\ RowInv(def, task, answered)'
    BY <1>1, <2>1, <2>2, <2>3 DEF DeskInv, DriveTyped, Nodes
  <2>5. OneDrive' /\ Quiet'
    BY <1>1, <1>2, <2>1, <2>2, <2>3 DEF DeskInv, OneDrive, Quiet, Driving, Waiting, Ids
  <2>6. ASSUME NEW i \in Ids
        PROVE  \/ PlaceOf(def, task[i].node) < PlaceOf(def, r[Len(r)])
               \/ \E k \in 1..(Len(r) - 1) : task[i].node = r[k]
    <3>1. task[i].node \in Nodes /\ PlaceOf(def, task[i].node) <= PlaceOf(def, n)
      BY <1>1, DriveFacts DEF DeskInv, Beyond
    <3>2. PlaceOf(def, task[i].node) \in Nat /\ PlaceOf(def, m) \in Nat
      BY <2>3, <3>1, DriveFacts, PlaceType
    <3>3. QED
      BY <2>3, <3>1, <3>2
  <2>7. Beyond'
    BY <1>1, <1>2, <2>1, <2>2, <2>6, DriveFacts DEF Beyond, Ids, Nodes
  <2>8. QED
    BY <2>4, <2>5, <2>7 DEF DeskInv
<1>5. QED
  BY <1>3, <1>4

(* SupersedeNodeTasks keeps the invariant. *)
LEMMA SupersedeStep ==
  ASSUME DeskInv, SupersedeNodeTasks
  PROVE  DeskInv'
<1>. DEFINE gone == IF inst = "active" THEN AtNode(Head(resets)) ELSE {}
<1>1. /\ Len(resets) > 1 /\ resets' = Tail(resets)
      /\ def' = def /\ inst' = inst /\ asks' = asks /\ at' = at /\ auto' = auto
      /\ recalls' = recalls /\ past' = past /\ last' = last
  BY DEF SupersedeNodeTasks, histVars
<1>2. resets \in Seq(Nodes) /\ resets # <<>> /\ Len(resets) \in Nat
  BY <1>1, LenProperties, EmptySeq DEF DeskInv, DriveTyped
<1>3. PICK t : t = resets'
  OBVIOUS
<1>4. /\ t \in Seq(Nodes) /\ Len(t) = Len(resets) - 1 /\ Len(t) >= 1 /\ t # <<>>
      /\ \A k \in 1..Len(t) : t[k] = resets[k + 1]
  <2>1. t \in Seq(Nodes) /\ Len(t) = Len(resets) - 1 /\ \A k \in 1..Len(t) : t[k] = resets[k + 1]
    BY <1>1, <1>2, <1>3, HeadTailProperties
  <2>2. Len(t) >= 1
    BY <1>1, <1>2, <2>1
  <2>3. QED
    BY <2>1, <2>2, EmptySeq
<1>5. Head(resets) = resets[1]
  BY <1>2
<1>6. asks = {} /\ at = NoNode /\ auto = NoNode /\ ~(inst = "completed") /\ \A i \in Ids : ~Opened(task[i])
  BY <1>2 DEF DeskInv, OneDrive, Quiet, Driving
<1>7. /\ def \in Flows /\ RowInv(def, task, answered)
      /\ \A j \in Ids : task[j].node \in Nodes
      /\ NoNode \notin Nodes
  BY DriveFacts
<1>8. /\ RowInv(def, task', answered') /\ DOMAIN task' \subseteq Ids
      /\ \A j \in DOMAIN task' : /\ ~Opened(task'[j]) /\ task'[j].node = task[j].node
                                 /\ task[j].node # resets[1]
  <2>1. CASE inst = "active"
    <3>. DEFINE g == AtNode(Head(resets))
    <3>1. task' = Without(task, g) /\ answered' = Unanswer(g)
      BY <2>1 DEF SupersedeNodeTasks, Archive
    <3>2. \A j \in Ids : task[j].parent \in g => j \in g
      <4>1. ASSUME NEW j \in Ids, task[j].parent \in g PROVE j \in g
        <5>1. task[j].parent # NoId
          BY <4>1, RowBounds DEF AtNode, RowInv, Typed, DeskInv, Ids, Id, NoId
        <5>2. task[task[j].parent].node = task[j].node
          BY <1>7, <5>1 DEF RowInv, Family, Ids
        <5>3. QED
          BY <4>1, <5>2 DEF AtNode
      <4>2. QED
        BY <4>1
    <3>3. \A j \in Ids : j \in g <=> task[j].node = resets[1]
      BY <1>5 DEF AtNode
    <3>. HIDE DEF g
    <3>4. /\ RowInv(def, Without(task, g), Unanswer(g))
          /\ DOMAIN Without(task, g) = Ids \ g
          /\ \A j \in Ids \ g : /\ Without(task, g)[j].status = task[j].status
                                /\ Without(task, g)[j].node = task[j].node
      BY <1>7, <3>2, ArchiveRows
    <3>5. QED
      BY <1>6, <3>1, <3>3, <3>4 DEF Opened
  <2>2. CASE inst # "active"
    <3>1. task' = task /\ answered' = answered /\ Ids = {}
      BY <2>2 DEF SupersedeNodeTasks, rowVars, DeskInv, OneDrive
    <3>2. QED
      BY <1>7, <3>1 DEF Ids
  <2>3. QED
    BY <2>1, <2>2
<1>9. Apart(def)' /\ DriveTyped' /\ RowInv(def, task, answered)'
  BY <1>1, <1>3, <1>4, <1>8 DEF DeskInv, DriveTyped, Nodes
<1>10. OneDrive' /\ Quiet'
  BY <1>1, <1>3, <1>4, <1>6, <1>8 DEF DeskInv, OneDrive, Quiet, Driving, Waiting, Ids
<1>11. ASSUME NEW i \in DOMAIN task'
       PROVE  \/ PlaceOf(def, task'[i].node) < PlaceOf(def, t[Len(t)])
              \/ \E k \in 1..(Len(t) - 1) : task'[i].node = t[k]
  <2>1. i \in Ids /\ task'[i].node = task[i].node /\ task[i].node # resets[1]
    BY <1>8
  <2>2. t[Len(t)] = resets[Len(resets)]
    BY <1>2, <1>4
  <2>3. CASE PlaceOf(def, task[i].node) < PlaceOf(def, resets[Len(resets)])
    BY <2>1, <2>2, <2>3
  <2>4. CASE ~(PlaceOf(def, task[i].node) < PlaceOf(def, resets[Len(resets)]))
    <3>1. PICK k \in 1..(Len(resets) - 1) : task[i].node = resets[k]
      BY <1>2, <2>1, <2>4 DEF DeskInv, Beyond
    <3>2. k - 1 \in 1..(Len(t) - 1) /\ k - 1 \in 1..Len(t)
      BY <1>2, <1>4, <2>1, <3>1
    <3>3. t[k - 1] = resets[k]
      BY <1>4, <3>2
    <3>4. QED
      BY <2>1, <3>1, <3>2, <3>3
  <2>5. QED
    BY <2>3, <2>4
<1>12. Beyond'
  BY <1>1, <1>3, <1>6, <1>7, <1>11 DEF Beyond, Ids, Nodes
<1>13. QED
  BY <1>9, <1>10, <1>12 DEF DeskInv

(* The jump to the target keeps the invariant. *)
LEMMA JumpStep ==
  ASSUME DeskInv, Jump
  PROVE  DeskInv'
<1>1. /\ Len(resets) = 1 /\ resets' = <<>> /\ at' = (IF inst = "active" THEN resets[1] ELSE NoNode)
      /\ def' = def /\ inst' = inst /\ asks' = asks /\ auto' = auto /\ task' = task /\ answered' = answered
      /\ recalls' = recalls /\ past' = past /\ last' = last
  BY DEF Jump, rowVars, histVars
<1>2. resets \in Seq(Nodes) /\ resets # <<>> /\ resets[1] \in Nodes
  BY <1>1, LenProperties, EmptySeq, ElementOfSeq DEF DeskInv, DriveTyped
<1>3. asks = {} /\ at = NoNode /\ auto = NoNode /\ inst # "completed" /\ \A i \in Ids : ~Opened(task[i])
  BY <1>2 DEF DeskInv, OneDrive, Quiet, Driving
<1>4. Apart(def)' /\ DriveTyped' /\ RowInv(def, task, answered)'
  BY <1>1, <1>2 DEF DeskInv, DriveTyped, Nodes
<1>5. OneDrive' /\ Quiet'
  BY <1>1, <1>2, <1>3, DriveFacts DEF DeskInv, OneDrive, Quiet, Driving, Waiting, Ids
<1>6. ASSUME NEW i \in Ids, inst = "active" PROVE PlaceOf(def, task[i].node) <= PlaceOf(def, resets[1])
  <2>1. PlaceOf(def, task[i].node) < PlaceOf(def, resets[1])
    BY <1>1, <1>2 DEF DeskInv, Beyond
  <2>2. PlaceOf(def, task[i].node) \in Nat /\ PlaceOf(def, resets[1]) \in Nat
    BY <1>2, DriveFacts, PlaceType
  <2>3. QED
    BY <2>1, <2>2
<1>7. Beyond'
  BY <1>1, <1>3, <1>6, DriveFacts DEF Beyond, Ids, Nodes
<1>8. QED
  BY <1>4, <1>5, <1>7 DEF DeskInv

(* Return keeps the invariant. *)
LEMMA ReturnStep ==
  ASSUME DeskInv, NEW u \in People, NEW i \in Ids, NEW n \in Nodes, Return(u, i, n)
  PROVE  DeskInv'
<1>. DEFINE g == ReturnRegion(n, i)
<1>1. /\ task[i].status = "active" /\ Place(n) < Place(task[i].node)
      /\ task' = Without(task, g) /\ answered' = Unanswer(g) /\ asks' = asks \cup {n} /\ Kept
  BY DEF Return, Active, RequireReturnTarget, Archive, Ask, Kept, histVars
<1>2. Opened(task[i])
  BY <1>1 DEF Opened
<1>3. /\ def \in Flows /\ RowInv(def, task, answered)
      /\ \A j \in DOMAIN task : Opened(task[j]) => task[j].node = task[i].node
      /\ \A j \in DOMAIN task : PlaceOf(def, task[j].node) <= PlaceOf(def, task[i].node)
      /\ \A j \in DOMAIN task : task[j].node \in Nodes
  BY <1>2, OpenFacts
<1>4. \A x : Place(x) = PlaceOf(def, x)
  BY DEF Place, PlaceOf
<1>5. \A x \in Nodes : PlaceOf(def, x) \in Nat
  BY DriveFacts, PlaceType
<1>6. \A j : j \in g <=> j \in Ids /\ PlaceOf(def, n) <= PlaceOf(def, task[j].node)
  BY <1>3, <1>4, <1>5 DEF ReturnRegion, Region, Ids
<1>. HIDE DEF g
<1>7. \A j \in Ids : task[j].parent \in g => j \in g
  <2>1. ASSUME NEW j \in Ids, task[j].parent \in g PROVE j \in g
    <3>1. task[j].parent # NoId
      BY <1>6, <2>1, RowBounds DEF RowInv, Typed, DeskInv, Ids, Id, NoId
    <3>2. task[task[j].parent].node = task[j].node
      BY <1>3, <3>1 DEF RowInv, Family, Ids
    <3>3. QED
      BY <1>6, <2>1, <3>2
  <2>2. QED
    BY <2>1
<1>8. /\ RowInv(def, Without(task, g), Unanswer(g))
      /\ DOMAIN Without(task, g) = Ids \ g
      /\ \A j \in Ids \ g : /\ Without(task, g)[j].status = task[j].status
                            /\ Without(task, g)[j].node = task[j].node
  BY <1>3, <1>7, ArchiveRows
<1>9. \A k \in DOMAIN task' : ~Opened(task'[k]) /\ PlaceOf(def, task'[k].node) <= PlaceOf(def, n)
  <2>1. ASSUME NEW k \in DOMAIN task' PROVE ~Opened(task'[k]) /\ PlaceOf(def, task'[k].node) <= PlaceOf(def, n)
    <3>1. k \in Ids /\ k \notin g /\ task'[k].status = task[k].status /\ task'[k].node = task[k].node
      BY <1>1, <1>8, <2>1
    <3>2. PlaceOf(def, task[k].node) < PlaceOf(def, n)
      BY <1>3, <1>5, <1>6, <3>1 DEF Ids
    <3>3. task[k].node # task[i].node
      BY <1>1, <1>3, <1>4, <1>5, <3>1, <3>2 DEF Ids
    <3>4. QED
      BY <1>3, <1>5, <3>1, <3>2, <3>3 DEF Opened, Ids
  <2>2. QED
    BY <2>1
<1>10. QED
  BY <1>1, <1>2, <1>8, <1>9, AskStep

-----------------------------------------------------------------------------
(* New tasks.                                                              *)

(* Open tasks are created on the last node that has any. *)
Added(f, rows, ans, n, N, r) ==
  /\ n \in NodesOf(f)
  /\ \A k \in N : k \in Id /\ k \notin DOMAIN rows
  /\ \A j : j \in DOMAIN r <=> j \in DOMAIN rows \/ j \in N
  /\ \A j \in DOMAIN rows : /\ r[j] = rows[j] /\ rows[j].parent \notin N
                            /\ PlaceOf(f, rows[j].node) <= PlaceOf(f, n)
                            /\ Opened(rows[j]) => rows[j].node = n
                            /\ rows[j].parent = NoId /\ rows[j].node = n => rows[j].status # "completed"
  /\ \A k \in N : /\ r[k] \in Row(n) /\ Opened(r[k]) /\ r[k].reason = "none" /\ r[k].closedBy = NoId
                  /\ r[k].born = Len(ans)
                  /\ r[k].status = "pending" => r[k].assignee = Nobody
                  /\ r[k].fallback => AskedBy(f, n) = <<>>
                  /\ r[k].parent # NoId =>
                       /\ ~OrSigned(f, n)
                       /\ r[k].parent \in DOMAIN r /\ r[r[k].parent].parent = NoId
                       /\ r[r[k].parent].node = n
  /\ \A k \in N, j \in DOMAIN r :
       r[k].parent = NoId /\ r[j].parent = NoId /\ r[j].node = n => j = k \/ OrSigned(f, n)
  /\ OrSigned(f, n) => \A j, k \in DOMAIN r :
       j # k /\ Opened(r[j]) /\ Opened(r[k]) => r[j].status = "active" /\ ~r[j].claimed
  /\ "Recall" \in f.uses => \A k \in N :
       /\ r[k].parent # NoId =>
            /\ VoteNode(f, n) /\ r[k].status # "pending" /\ ~r[k].claimed
            /\ r[k].parent \in DOMAIN rows =>
                 /\ rows[r[k].parent].assignee = Nobody /\ rows[r[k].parent].owner = Nobody
                 /\ rows[r[k].parent].status # "pending"
       /\ Aggregate(f, r, k) => r[k].assignee = Nobody /\ r[k].owner = Nobody /\ r[k].status # "pending"

(* They keep the rows right. *)
LEMMA AddRows ==
  ASSUME NEW f \in Flows, NEW rows, NEW ans, RowInv(f, rows, ans), NEW n, NEW N, NEW r,
         Added(f, rows, ans, n, N, r)
  PROVE  RowInv(f, r, ans)
<1>. USE DEF Added
<1>1. /\ \A j \in DOMAIN rows : j \in DOMAIN r /\ r[j] = rows[j] /\ j \notin N
      /\ \A j \in N : j \in DOMAIN r /\ r[j].node = n /\ r[j].status \notin {"completed", "terminated"}
      /\ \A j \in DOMAIN r : j \in DOMAIN rows \/ j \in N
  <2>1. \A j \in N : r[j].node = n
    BY RowFields
  <2>2. QED
    BY <2>1 DEF Opened
<1>2. Len(ans) \in Nat /\ DOMAIN ans = 1..Len(ans) /\ \A k \in DOMAIN ans : ans[k] \in DOMAIN rows
  <2>1. ans \in Seq(Id)
    BY DEF RowInv, Typed
  <2>2. Len(ans) \in Nat /\ DOMAIN ans = 1..Len(ans)
    BY <2>1, LenProperties
  <2>3. QED
    BY <2>1, <2>2, ElementOfSeq DEF RowInv, Typed, ToSet
<1>3. Typed(f, r, ans)
  <2>1. \A j \in Id : j \in ToSet(ans) <=> j \in DOMAIN rows /\ rows[j].status = "completed"
    BY DEF RowInv, Typed
  <2>2. DOMAIN r \subseteq Id
    BY <1>1 DEF RowInv, Typed
  <2>3. \A j \in DOMAIN r : r[j] \in Row(r[j].node) /\ r[j].node \in NodesOf(f)
    BY <1>1 DEF RowInv, Typed
  <2>4. \A j \in Id : j \in ToSet(ans) <=> j \in DOMAIN r /\ r[j].status = "completed"
    BY <1>1, <2>1
  <2>5. QED
    BY <2>2, <2>3, <2>4 DEF RowInv, Typed
<1>4. Family(f, r)
  <2>1. SUFFICES ASSUME NEW j \in DOMAIN r, r[j].parent # NoId, NEW p, p = r[j].parent
                 PROVE  /\ ~OrSigned(f, r[j].node)
                        /\ p \in DOMAIN r
                        /\ r[p].parent = NoId
                        /\ r[p].node = r[j].node
                        /\ r[p].born <= r[j].born
    BY DEF Family
  <2>2. CASE j \in DOMAIN rows
    BY <1>1, <2>1, <2>2 DEF RowInv, Family
  <2>3. CASE j \in N
    <3>1. /\ ~OrSigned(f, n) /\ p \in DOMAIN r /\ r[p].parent = NoId /\ r[p].node = n
          /\ r[j].node = n /\ r[j].born = Len(ans)
      BY <1>1, <2>1, <2>3
    <3>2. r[p].born <= Len(ans)
      BY <1>1, <1>2, <3>1 DEF RowInv, Ends
    <3>3. QED
      BY <3>1, <3>2
  <2>4. QED
    BY <1>1, <2>2, <2>3
<1>5. LoneMain(f, r)
  <2>1. ASSUME NEW a \in DOMAIN r, NEW b \in DOMAIN r,
               r[a].parent = NoId, r[b].parent = NoId, r[a].node = r[b].node
        PROVE  a = b \/ OrSigned(f, r[a].node)
    BY <1>1, <2>1 DEF RowInv, LoneMain
  <2>2. ASSUME NEW a \in DOMAIN r, NEW b \in DOMAIN r,
               r[a].parent = NoId, r[a].status = "completed", Opened(r[b]), r[a].node = r[b].node
        PROVE  FALSE
    BY <1>1, <2>2 DEF RowInv, LoneMain
  <2>3. ASSUME NEW a \in DOMAIN r, NEW b \in DOMAIN r,
               r[a].parent = NoId, r[b].parent = NoId, r[a].node = r[b].node,
               r[a].status = "completed", r[b].status = "completed"
        PROVE  a = b
    BY <1>1, <2>3 DEF RowInv, LoneMain
  <2>4. ASSUME NEW a \in DOMAIN r, NEW b \in DOMAIN r, OrSigned(f, r[a].node), r[a].node = r[b].node, a # b,
               Opened(r[a]), Opened(r[b])
        PROVE  r[a].status = "active" /\ ~r[a].claimed
    <3>1. CASE a \in DOMAIN rows /\ b \in DOMAIN rows
      BY <1>1, <2>4, <3>1 DEF RowInv, LoneMain
    <3>2. CASE a \in N \/ b \in N
      BY <1>1, <2>4, <3>2
    <3>3. QED
      BY <1>1, <3>1, <3>2
  <2>5. QED
    BY <2>1, <2>2, <2>3, <2>4 DEF LoneMain
<1>6. Claims(f, r)
  <2>1. SUFFICES ASSUME NEW j \in DOMAIN r
        PROVE  /\ r[j].status = "pending" => r[j].assignee = Nobody
               /\ r[j].closedBy # NoId =>
                    /\ ~OrSigned(f, r[j].node)
                    /\ r[j].assignee = Nobody
                    /\ r[j].status = "terminated" \/ (r[j].parent = NoId /\ r[j].status = "completed")
               /\ r[j].parent = NoId /\ r[j].status = "terminated" /\ ~OrSigned(f, r[j].node)
                    => r[j].assignee = Nobody
               /\ r[j].fallback => AskedBy(f, r[j].node) = <<>>
    BY DEF Claims
  <2>2. CASE j \in DOMAIN rows
    BY <1>1, <2>2 DEF RowInv, Claims
  <2>3. CASE j \in N
    BY <1>1, <2>3
  <2>4. QED
    BY <1>1, <2>2, <2>3
<1>7. Ends(f, r, ans)
  <2>1. \A i \in DOMAIN r : r[i].born <= Len(ans)
    BY <1>1, <1>2 DEF RowInv, Ends
  <2>2. \A k \in DOMAIN ans : r[ans[k]].born < k
    BY <1>1, <1>2 DEF RowInv, Ends
  <2>3. ASSUME NEW k \in DOMAIN ans, NEW j \in DOMAIN r,
               PlaceOf(f, r[ans[k]].node) < PlaceOf(f, r[j].node)
        PROVE  k <= r[j].born
    <3>1. r[ans[k]] = rows[ans[k]]
      BY <1>1, <1>2
    <3>2. CASE j \in DOMAIN rows
      BY <1>1, <2>3, <3>1, <3>2 DEF RowInv, Ends
    <3>3. CASE j \in N
      BY <1>1, <1>2, <3>3
    <3>4. QED
      BY <1>1, <3>2, <3>3
  <2>4. QED
    BY <2>1, <2>2, <2>3 DEF Ends
<1>8. Cut(r)
  BY <1>1 DEF RowInv, Cut
<1>9. Recallable(f, r)
  <2>1. SUFFICES ASSUME "Recall" \in f.uses, NEW j \in DOMAIN r
                 PROVE  /\ r[j].closedBy = NoId
                        /\ r[j].parent # NoId => VoteNode(f, r[j].node) /\ r[j].status # "pending" /\ ~r[j].claimed
                        /\ Aggregate(f, r, j) => r[j].assignee = Nobody /\ r[j].owner = Nobody /\ r[j].status # "pending"
                        /\ r[j].status = "terminated" /\ ~OrSigned(f, r[j].node) =>
                             /\ r[j].parent # NoId
                             /\ r[j].reason = "threshold"
                             /\ r[r[j].parent].status = "completed"
    BY DEF Recallable
  <2>2. CASE j \in N
    BY <1>1, <2>1, <2>2
  <2>3. CASE j \in DOMAIN rows
    <3>1. Aggregate(f, r, j) =>
            \/ Aggregate(f, rows, j)
            \/ rows[j].assignee = Nobody /\ rows[j].owner = Nobody /\ rows[j].status # "pending"
      <4>1. ASSUME NEW c \in DOMAIN r, r[c].parent = j
            PROVE  \/ c \in DOMAIN rows
                   \/ rows[j].assignee = Nobody /\ rows[j].owner = Nobody /\ rows[j].status # "pending"
        <5>1. j # NoId
          BY <2>3, RowBounds DEF RowInv, Typed, Id, NoId
        <5>2. QED
          BY <1>1, <2>1, <2>3, <4>1, <5>1
      <4>2. QED
        BY <1>1, <2>3, <4>1 DEF Aggregate
    <3>2. rows[j].parent # NoId => rows[j].parent \in DOMAIN rows
      BY <2>3 DEF RowInv, Family
    <3>3. QED
      BY <1>1, <2>1, <2>3, <3>1, <3>2 DEF RowInv, Recallable
  <2>4. QED
    BY <1>1, <2>2, <2>3
<1>10. OneNode(f, r)
  <2>1. ASSUME NEW i \in DOMAIN r, NEW j \in DOMAIN r, Opened(r[j])
        PROVE  /\ PlaceOf(f, r[i].node) <= PlaceOf(f, r[j].node)
               /\ Opened(r[i]) => r[i].node = r[j].node
    <3>1. r[j].node = n /\ PlaceOf(f, n) \in Nat
      BY <1>1, <2>1, PlaceType
    <3>2. PlaceOf(f, r[i].node) <= PlaceOf(f, n) /\ (Opened(r[i]) => r[i].node = n)
      BY <1>1, <3>1
    <3>3. QED
      BY <3>1, <3>2
  <2>2. QED
    BY <2>1 DEF OneNode
<1>11. QED
  BY <1>3, <1>4, <1>5, <1>6, <1>7, <1>8, <1>9, <1>10 DEF RowInv

(* Two sequences over S, one after the other. *)
JoinedOver(S, s1, s2, s) ==
  /\ s \in Seq(S) /\ Len(s) = Len(s1) + Len(s2)
  /\ \A i \in 1..(Len(s1) + Len(s2)) : s[i] = IF i <= Len(s1) THEN s1[i] ELSE s2[i - Len(s1)]

(* What the concatenation of two sequences holds, as one fact to cite. *)
LEMMA Joining ==
  ASSUME NEW S, NEW s1 \in Seq(S), NEW s2 \in Seq(S)
  PROVE  JoinedOver(S, s1, s2, s1 \o s2)
BY ConcatProperties DEF JoinedOver

(* There are no more answers than rows. *)
LEMMA AnswerCount ==
  ASSUME DeskInv
  PROVE  Len(answered) \in 0..MaxRows
<1>1. answered \in Seq(Id) /\ IsInjective(answered) /\ Len(answered) \in Nat /\ DOMAIN answered = 1..Len(answered)
  BY LenProperties DEF DeskInv, RowInv, Typed
<1>2. IsFiniteSet(Id) /\ Cardinality(Id) = MaxRows
  BY RowBounds, FS_Interval DEF Id
<1>3. Cardinality(1..Len(answered)) = Len(answered)
  BY <1>1, FS_Interval
<1>4. answered \in Injection(1..Len(answered), Id)
  <2>1. answered \in [1..Len(answered) -> Id]
    BY <1>1, LenProperties
  <2>2. QED
    BY <1>1, <2>1 DEF Injection, IsInjective
<1>5. Cardinality(1..Len(answered)) <= Cardinality(Id)
  BY <1>2, <1>4, FS_Injection
<1>6. QED
  BY <1>1, <1>2, <1>3, <1>5, RowBounds

(* A new row. *)
NewOne(x, n, parent, status, assignee) ==
  /\ x \in Row(n) /\ x.node = n /\ x.parent = parent /\ x.status = status /\ x.assignee = assignee
  /\ x.owner = Nobody /\ ~x.claimed /\ x.closedBy = NoId /\ x.reason = "none"
  /\ x.born = Len(answered)
  /\ status = "active" => x.pool = {}

(* NewRow makes one. *)
LEMMA NewRowIs ==
  ASSUME DeskInv, NEW n, NEW parent \in Id \cup {NoId}, NEW status \in {"pending", "active"},
         NEW assignee \in User \cup {Nobody}, NEW pool \in SUBSET (User \cup {Nobody}),
         status = "active" => pool = {},
         NEW x, x = NewRow(n, parent, status, assignee, pool)
  PROVE  NewOne(x, n, parent, status, assignee) /\ ~x.fallback
<1>1. Len(answered) \in 0..MaxRows
  BY AnswerCount
<1>2. x \in Row(n)
  BY <1>1 DEF NewRow, Row, RowStatus, Reason, AnswerBy
<1>3. QED
  BY <1>2 DEF NewRow, NewOne

(* It is one too when it is marked as a fallback. *)
LEMMA AsFallback ==
  ASSUME NEW n, NEW parent, NEW status, NEW assignee, NEW w, NewOne(w, n, parent, status, assignee),
         NEW b \in BOOLEAN, NEW x, x = [w EXCEPT !.fallback = b]
  PROVE  NewOne(x, n, parent, status, assignee)
<1>1. w \in Row(n)
  BY DEF NewOne
<1>2. x \in Row(n)
  BY <1>1 DEF Row
<1>3. QED
  BY <1>1, <1>2 DEF Row, NewOne

(* What the new rows of a node are like: a task of its own, a parent with  *)
(* its votes, or the tasks of an or-sign.                                  *)
Fits(n, new) ==
  /\ Len(new) \in Nat /\ Len(new) >= 1 /\ DOMAIN new = 1..Len(new)
  /\ \/ /\ Len(new) = 1
        /\ \E s \in {"pending", "active"}, a \in User \cup {Nobody} :
             NewOne(new[1], n, NoId, s, a) /\ (s = "pending" <=> a = Nobody)
        /\ VoteNode(def, n) => AskedBy(def, n) = <<>>
     \/ /\ VoteNode(def, n)
        /\ NewOne(new[1], n, NoId, "active", Nobody)
        /\ \A k \in 2..Len(new) : \E a \in User : NewOne(new[k], n, Fresh(1), "active", a)
        /\ Len(new) >= 2
        /\ \A k \in 2..Len(new) : new[k].fallback = new[1].fallback
        /\ ~new[1].fallback => Len(new) = Len(AskedBy(def, n)) + 1
     \/ /\ OrSigned(def, n)
        /\ \A k \in 1..Len(new) : \E a \in User : NewOne(new[k], n, NoId, "active", a)
  /\ \A k \in 1..Len(new) : new[k].fallback => AskedBy(def, n) = <<>>

(* A parent with its votes fits. *)
LEMMA ForAllFits ==
  ASSUME DeskInv, NEW n \in Nodes, VoteNode(def, n), NEW who \in Seq(User),
         RoomFor(Len(who) + 1),
         NEW new, new = ForAll(n, who)
  PROVE  /\ Len(new) = Len(who) + 1 /\ DOMAIN new = 1..(Len(who) + 1)
         /\ NewOne(new[1], n, NoId, "active", Nobody) /\ ~new[1].fallback
         /\ \A k \in 2..(Len(who) + 1) : /\ \E a \in User : NewOne(new[k], n, Fresh(1), "active", a)
                                         /\ ~new[k].fallback
<1>. DEFINE R == Row(n)
<1>1. Len(who) \in Nat /\ DOMAIN who = 1..Len(who) /\ \A i \in 1..Len(who) : who[i] \in User
  BY LenProperties, ElementOfSeq
<1>2. Fresh(1) \in Id \cup {NoId}
  <2>1. RoomFor(Len(who) + 1) /\ Len(who) + 1 \in Nat /\ 1 \in 1..(Len(who) + 1)
    BY <1>1
  <2>2. Fresh(1) \in Free
    BY <2>1, FreshIds
  <2>3. QED
    BY <2>2, FreeIds
<1>3. PICK first : first = Assigned(n, Nobody)
  OBVIOUS
<1>4. NewOne(first, n, NoId, "active", Nobody) /\ ~first.fallback
  <2>1. first = NewRow(n, NoId, "active", Nobody, {})
    BY <1>3 DEF Assigned
  <2>2. QED
    BY <2>1, NewRowIs
<1>5. PICK rest : rest = [i \in DOMAIN who |-> NewRow(n, Fresh(1), "active", who[i], {})]
  OBVIOUS
<1>6. \A i \in 1..Len(who) : NewOne(rest[i], n, Fresh(1), "active", who[i]) /\ ~rest[i].fallback
  <2>1. ASSUME NEW i \in 1..Len(who), NEW x, x = rest[i]
        PROVE  NewOne(x, n, Fresh(1), "active", who[i]) /\ ~x.fallback
    <3>1. x = NewRow(n, Fresh(1), "active", who[i], {}) /\ who[i] \in User
      BY <1>1, <1>5, <2>1
    <3>2. QED
      BY <1>2, <3>1, NewRowIs
  <2>2. QED
    BY <2>1
<1>7. rest \in Seq(R) /\ Len(rest) = Len(who)
  <2>1. \A i \in 1..Len(who) : rest[i] \in R
    BY <1>6 DEF NewOne
  <2>2. rest \in [1..Len(who) -> R]
    BY <1>1, <1>5, <2>1
  <2>3. rest \in Seq(R)
    BY <1>1, <2>2, SeqDef
  <2>4. QED
    BY <1>1, <2>2, <2>3, LenProperties
<1>8. PICK one : one = <<first>>
  OBVIOUS
<1>9. one \in Seq(R) /\ Len(one) = 1 /\ one[1] = first
  <2>1. first \in R
    BY <1>4 DEF NewOne
  <2>. HIDE DEF R
  <2>2. <<first>> \in Seq(R) /\ Len(<<first>>) = 1 /\ <<first>>[1] = first
    BY <2>1
  <2>3. QED
    BY <1>8, <2>2
<1>10. new = one \o rest
  BY <1>3, <1>5, <1>8 DEF ForAll
<1>. HIDE DEF R
<1>11. /\ new \in Seq(R) /\ Len(new) = 1 + Len(rest)
       /\ \A i \in 1..(1 + Len(rest)) : new[i] = IF i <= 1 THEN one[i] ELSE rest[i - 1]
  <2>1. /\ one \o rest \in Seq(R) /\ Len(one \o rest) = Len(one) + Len(rest)
        /\ \A i \in 1..(Len(one) + Len(rest)) :
             (one \o rest)[i] = IF i <= Len(one) THEN one[i] ELSE rest[i - Len(one)]
    <3>1. JoinedOver(R, one, rest, one \o rest)
      BY <1>7, <1>9, Joining
    <3>2. QED
      BY <3>1 DEF JoinedOver
  <2>2. QED
    BY <1>9, <1>10, <2>1
<1>12. Len(new) = Len(who) + 1 /\ DOMAIN new = 1..(Len(who) + 1)
  BY <1>1, <1>7, <1>11, LenProperties
<1>13. new[1] = first
  BY <1>1, <1>7, <1>9, <1>11
<1>14. \A k \in 2..(Len(who) + 1) : k - 1 \in 1..Len(who) /\ new[k] = rest[k - 1]
  BY <1>1, <1>7, <1>11
<1>15. QED
  BY <1>1, <1>4, <1>6, <1>12, <1>13, <1>14

(* There is one vote for each approver. *)
LEMMA ForAllLength ==
  ASSUME NEW n, NEW who \in Seq(User)
  PROVE  Len(ForAll(n, who)) = Len(who) + 1 /\ Len(who) \in Nat /\ DOMAIN ForAll(n, who) = 1..(Len(who) + 1)
<1>1. Len(who) \in Nat /\ DOMAIN who = 1..Len(who)
  BY LenProperties
<1>2. PICK first : first = Assigned(n, Nobody)
  OBVIOUS
<1>3. PICK rest : rest = [i \in DOMAIN who |-> NewRow(n, Fresh(1), "active", who[i], {})]
  OBVIOUS
<1>4. PICK R : R = {first} \cup {rest[i] : i \in 1..Len(who)}
  OBVIOUS
<1>5. rest \in Seq(R) /\ Len(rest) = Len(who)
  <2>1. rest \in [1..Len(who) -> R]
    BY <1>1, <1>3, <1>4
  <2>2. rest \in Seq(R)
    BY <1>1, <2>1, SeqDef
  <2>3. QED
    BY <1>1, <2>1, <2>2, LenProperties
<1>6. PICK one : one = <<first>>
  OBVIOUS
<1>7. one \in Seq(R) /\ Len(one) = 1
  <2>1. first \in R
    BY <1>4
  <2>2. <<first>> \in Seq(R) /\ Len(<<first>>) = 1
    BY <2>1
  <2>3. QED
    BY <1>6, <2>2
<1>8. /\ one \o rest \in Seq(R) /\ Len(one \o rest) = Len(one) + Len(rest)
      /\ \A i \in 1..(Len(one) + Len(rest)) :
           (one \o rest)[i] = IF i <= Len(one) THEN one[i] ELSE rest[i - Len(one)]
  <2>1. JoinedOver(R, one, rest, one \o rest)
    BY <1>5, <1>7, Joining
  <2>2. QED
    BY <2>1 DEF JoinedOver
<1>9. ForAll(n, who) = one \o rest
  BY <1>2, <1>3, <1>6 DEF ForAll
<1>10. ForAll(n, who) \in Seq(R) /\ Len(ForAll(n, who)) = Len(who) + 1
  BY <1>1, <1>5, <1>7, <1>8, <1>9
<1>11. QED
  BY <1>1, <1>10, LenProperties

(* A single new row. *)
LEMMA OneFits ==
  ASSUME DeskInv, NEW n \in Nodes, NEW s \in {"pending", "active"}, NEW a \in User \cup {Nobody},
         s = "pending" <=> a = Nobody,
         NEW x, NewOne(x, n, NoId, s, a), VoteNode(def, n) => AskedBy(def, n) = <<>>,
         x.fallback => AskedBy(def, n) = <<>>,
         NEW new, new = <<x>>
  PROVE  Fits(n, new)
<1>1. Len(new) = 1 /\ new[1] = x /\ DOMAIN new = 1..1
  <2>1. Len(<<x>>) = 1 /\ <<x>>[1] = x /\ DOMAIN <<x>> = 1..1
    OBVIOUS
  <2>2. QED
    BY <2>1
<1>. HIDE DEF NewOne
<1>2. QED
  BY <1>1 DEF Fits

(* Without an approver there is somebody else, or a pool. *)
LEMMA Fallback ==
  ASSUME DeskInv, NEW n \in Nodes,
         NEW fb, fb = HandleEmptyApprovers(def.empty[n], def.approver[n], def.starter, def.admins)
  PROVE  /\ fb.kind \in {"auto", "assign", "pool"}
         /\ fb.people \in SUBSET (User \cup {Nobody})
         /\ fb.kind # "pool" => fb.people \subseteq User /\ fb.people # {}
<1>. DEFINE others == def.admins \ {def.starter}
<1>1. def \in Flows /\ n \in NodesOf(def)
  BY DEF DeskInv, DriveTyped, Nodes, NodesOf
<1>2. def.starter \in User /\ def.admins \subseteq User
  BY <1>1, FlowAssumption
<1>3. def.empty[n] \in EmptyPolicy /\ def.approver[n] \in Approver
  BY <1>1, FlowNodes
<1>4. Cardinality({}) = 0
  BY FS_EmptySet
<1>5. ParkPool(def.approver[n], def.admins) \subseteq User \cup {Nobody}
  <2>1. def.approver[n].ids \in Seq(User)
    BY <1>3 DEF Approver
  <2>2. ToSet(def.approver[n].ids) \subseteq User
    BY <2>1, LenProperties, ElementOfSeq DEF ToSet
  <2>3. QED
    BY <1>2, <2>2 DEF ParkPool, Placeholder
<1>6. CASE def.empty[n] = "auto_approve"
  BY <1>2, <1>6 DEF HandleEmptyApprovers
<1>7. CASE def.empty[n] = "park"
  BY <1>5, <1>7 DEF HandleEmptyApprovers
<1>8. CASE def.empty[n] = "tenant_admin"
  <2>1. CASE Cardinality(others) = 1
    <3>1. others # {} /\ others \subseteq User
      BY <1>2, <1>4, <2>1
    <3>2. fb = [kind |-> "assign", people |-> others]
      BY <1>4, <1>8, <2>1 DEF HandleEmptyApprovers
    <3>3. QED
      BY <3>1, <3>2
  <2>2. CASE Cardinality(others) > 1
    BY <1>2, <1>4, <1>8, <2>2 DEF HandleEmptyApprovers
  <2>3. CASE def.admins = {def.starter}
    BY <1>2, <1>4, <1>8, <2>3 DEF HandleEmptyApprovers
  <2>4. CASE Cardinality(others) # 1 /\ ~(Cardinality(others) > 1) /\ def.admins # {def.starter}
    BY <1>5, <1>8, <2>4 DEF HandleEmptyApprovers
  <2>5. QED
    BY <2>1, <2>2, <2>3, <2>4
<1>9. QED
  BY <1>3, <1>6, <1>7, <1>8 DEF EmptyPolicy

(* The rows that ask for somebody who approves for the starter. *)
Marked(rows, b) == [k \in DOMAIN rows |-> [rows[k] EXCEPT !.fallback = b]]

(* Marks do not change whether a row is a new one. *)
LEMMA MarkedOne ==
  ASSUME NEW n, NEW parent, NEW s, NEW a, NEW rows, NEW k \in DOMAIN rows,
         NewOne(rows[k], n, parent, s, a), NEW b \in BOOLEAN
  PROVE  NewOne(Marked(rows, b)[k], n, parent, s, a)
<1>1. PICK w, x : w = rows[k] /\ x = [w EXCEPT !.fallback = b]
  OBVIOUS
<1>2. NewOne(w, n, parent, s, a)
  BY <1>1
<1>3. NewOne(x, n, parent, s, a)
  BY <1>1, <1>2, AsFallback
<1>4. Marked(rows, b)[k] = x
  BY <1>1 DEF Marked
<1>5. QED
  BY <1>3, <1>4

(* A task for a pool is a new row. *)
LEMMA PoolRow ==
  ASSUME DeskInv, NEW n \in Nodes, NEW pool \in SUBSET (User \cup {Nobody}),
         NEW x, x = ToClaim(n, pool)
  PROVE  NewOne(x, n, NoId, "pending", Nobody) /\ ~x.fallback
<1>1. x = NewRow(n, NoId, "pending", Nobody, pool)
  BY DEF ToClaim
<1>2. QED
  BY <1>1, NewRowIs

(* A task for somebody is a new row. *)
LEMMA AssignedRow ==
  ASSUME DeskInv, NEW n \in Nodes, NEW u \in User, NEW x, x = Assigned(n, u)
  PROVE  NewOne(x, n, NoId, "active", u) /\ ~x.fallback
<1>1. x = NewRow(n, NoId, "active", u, {})
  BY DEF Assigned
<1>2. QED
  BY <1>1, NewRowIs

(* The tasks of a node without approvers fit. *)
LEMMA FallbackFits ==
  ASSUME DeskInv, NEW n \in Nodes, AskedBy(def, n) = <<>>, RoomFor(Len(FallbackTasks(n)))
  PROVE  Fits(n, FallbackTasks(n))
<1>1. PICK fb : fb = HandleEmptyApprovers(def.empty[n], def.approver[n], def.starter, def.admins)
  OBVIOUS
<1>2. /\ fb.kind \in {"auto", "assign", "pool"}
      /\ fb.people \in SUBSET (User \cup {Nobody})
      /\ fb.kind # "pool" => fb.people \subseteq User /\ fb.people # {}
  BY <1>1, Fallback
<1>3. PICK b \in BOOLEAN : b = (fb.kind = "auto")
  OBVIOUS
<1>4. CASE fb.kind = "pool"
  <2>1. PICK w : w = ToClaim(n, fb.people)
    OBVIOUS
  <2>2. PICK x : x = [w EXCEPT !.fallback = b]
    OBVIOUS
  <2>3. NewOne(w, n, NoId, "pending", Nobody)
    BY <1>2, <2>1, PoolRow
  <2>4. NewOne(x, n, NoId, "pending", Nobody)
    BY <2>2, <2>3, AsFallback
  <2>5. FallbackTasks(n) = [k \in DOMAIN <<w>> |-> [<<w>>[k] EXCEPT !.fallback = fb.kind = "auto"]]
    BY <1>1, <1>4, <2>1 DEF FallbackTasks
  <2>6. FallbackTasks(n) = <<x>>
    BY <1>3, <2>2, <2>5
  <2>7. QED
    BY <2>4, <2>6, OneFits
<1>5. CASE fb.kind # "pool"
  <2>1. PICK u : u = CHOOSE v \in fb.people : TRUE
    OBVIOUS
  <2>2. u \in User
    BY <1>2, <1>5, <2>1
  <2>3. CASE fb.kind = "auto" /\ ByVotes(n)
    <3>1. PICK who : who = <<u>>
      OBVIOUS
    <3>2. who \in Seq(User) /\ Len(who) = 1
      <4>1. <<u>> \in Seq(User) /\ Len(<<u>>) = 1
        BY <2>2
      <4>2. QED
        BY <3>1, <4>1
    <3>3. PICK rows : rows = ForAll(n, who)
      OBVIOUS
    <3>4. FallbackTasks(n) = [k \in DOMAIN rows |-> [rows[k] EXCEPT !.fallback = fb.kind = "auto"]]
      BY <1>1, <1>5, <2>1, <2>3, <3>1, <3>3 DEF FallbackTasks
    <3>5. FallbackTasks(n) = Marked(rows, b)
      BY <1>3, <3>4 DEF Marked
    <3>6. PICK new : new = Marked(rows, b)
      OBVIOUS
    <3>7. Len(rows) = Len(who) + 1 /\ DOMAIN rows = 1..(Len(who) + 1)
      BY <3>2, <3>3, ForAllLength
    <3>8. DOMAIN new = 1..2
      BY <3>2, <3>6, <3>7 DEF Marked
    <3>9. Len(new) = 2
      <4>1. PICK R : R = {new[k] : k \in 1..2}
        OBVIOUS
      <4>2. PICK l \in Nat : l = 2 /\ new \in [1..l -> R]
        BY <3>6, <3>8, <4>1 DEF Marked
      <4>3. new \in Seq(R)
        BY <4>2, SeqDef
      <4>4. QED
        BY <4>2, <4>3, LenProperties
    <3>10. RoomFor(Len(who) + 1)
      BY <3>2, <3>5, <3>6, <3>9
    <3>11. VoteNode(def, n)
      BY <2>3 DEF ByVotes, VoteNode
    <3>12. /\ NewOne(rows[1], n, NoId, "active", Nobody)
           /\ \A k \in 2..(Len(who) + 1) : \E a \in User : NewOne(rows[k], n, Fresh(1), "active", a)
      BY <3>2, <3>3, <3>10, <3>11, ForAllFits
    <3>13. NewOne(new[1], n, NoId, "active", Nobody)
      BY <3>2, <3>6, <3>7, <3>12, MarkedOne
    <3>14. \A k \in 2..2 : \E a \in User : NewOne(new[k], n, Fresh(1), "active", a)
      <4>1. PICK a \in User : NewOne(rows[2], n, Fresh(1), "active", a)
        BY <3>2, <3>12
      <4>2. NewOne(new[2], n, Fresh(1), "active", a)
        BY <3>2, <3>6, <3>7, <4>1, MarkedOne
      <4>3. QED
        BY <4>2
    <3>15. new[1].fallback = TRUE /\ new[2].fallback = TRUE
      <4>0. b = TRUE
        BY <1>3, <2>3
      <4>1. 1 \in DOMAIN rows /\ 2 \in DOMAIN rows
        BY <3>2, <3>7
      <4>2. rows[1] \in Row(n) /\ rows[2] \in Row(n)
        BY <3>2, <3>12 DEF NewOne
      <4>3. PICK w1, w2 : w1 = rows[1] /\ w2 = rows[2]
        OBVIOUS
      <4>4. new[1] = [w1 EXCEPT !.fallback = b] /\ new[2] = [w2 EXCEPT !.fallback = b]
        BY <3>6, <4>1, <4>3 DEF Marked
      <4>5. QED
        BY <4>0, <4>2, <4>3, <4>4 DEF Row
    <3>16. new[2].fallback = new[1].fallback /\ new[1].fallback
      BY <3>15
    <3>17. /\ \A k \in 2..Len(new) : k = 2
           /\ Len(new) \in Nat /\ Len(new) >= 1 /\ DOMAIN new = 1..Len(new)
           /\ Len(new) >= 2
      BY <3>8, <3>9
    <3>19. \A k \in 2..Len(new) : new[k].fallback = new[1].fallback
      BY <3>16, <3>17
    <3>. HIDE DEF NewOne
    <3>18. \A k \in 2..Len(new) : \E a \in User : NewOne(new[k], n, Fresh(1), "active", a)
      BY <3>9, <3>14
    <3>20. Fits(n, new)
      BY <3>11, <3>13, <3>16, <3>17, <3>18, <3>19 DEF Fits
    <3>21. QED
      BY <3>5, <3>6, <3>20
  <2>4. CASE ~(fb.kind = "auto" /\ ByVotes(n))
    <3>1. PICK w : w = Assigned(n, u)
      OBVIOUS
    <3>2. PICK x : x = [w EXCEPT !.fallback = b]
      OBVIOUS
    <3>3. NewOne(w, n, NoId, "active", u)
      BY <2>2, <3>1, AssignedRow
    <3>4. NewOne(x, n, NoId, "active", u)
      BY <3>2, <3>3, AsFallback
    <3>5. FallbackTasks(n) = [k \in DOMAIN <<w>> |-> [<<w>>[k] EXCEPT !.fallback = fb.kind = "auto"]]
      BY <1>1, <1>2, <1>5, <2>1, <2>4, <3>1 DEF FallbackTasks
    <3>6. FallbackTasks(n) = <<x>>
      BY <1>3, <3>2, <3>5
    <3>7. QED
      BY <2>2, <3>4, <3>6, OneFits, OrganisationAssumption
  <2>5. QED
    BY <2>3, <2>4
<1>6. QED
  BY <1>4, <1>5

(* The tasks for the approvers of a node fit. *)
LEMMA ApproverFits ==
  ASSUME DeskInv, NEW n \in Nodes, NEW who \in Seq(User), who # <<>>, who = AskedBy(def, n),
         RoomFor(Len(ApproverTasks(n, who)))
  PROVE  Fits(n, ApproverTasks(n, who))
<1>1. Len(who) \in Nat /\ Len(who) >= 1 /\ DOMAIN who = 1..Len(who)
      /\ \A k \in 1..Len(who) : who[k] \in User
  BY LenProperties, EmptySeq, ElementOfSeq
<1>2. PICK new : new = ApproverTasks(n, who)
  OBVIOUS
<1>3. CASE ByVotes(n)
  <2>1. new = ForAll(n, who)
    BY <1>2, <1>3 DEF ApproverTasks
  <2>2. Len(new) = Len(who) + 1
    BY <2>1, ForAllLength
  <2>3. VoteNode(def, n) /\ RoomFor(Len(who) + 1)
    BY <1>2, <1>3, <2>2 DEF ByVotes, VoteNode
  <2>4. /\ DOMAIN new = 1..(Len(who) + 1)
        /\ NewOne(new[1], n, NoId, "active", Nobody) /\ ~new[1].fallback
        /\ \A k \in 2..(Len(who) + 1) : /\ \E a \in User : NewOne(new[k], n, Fresh(1), "active", a)
                                         /\ ~new[k].fallback
    BY <2>1, <2>3, ForAllFits
  <2>5. \A k \in 1..Len(new) : new[k].fallback = FALSE
    <3>1. ASSUME NEW k \in 1..Len(new) PROVE new[k].fallback = FALSE
      <4>1. k = 1 \/ k \in 2..(Len(who) + 1)
        BY <1>1, <2>2
      <4>2. \E a, p, s : NewOne(new[k], n, p, s, a)
        BY <2>4, <4>1
      <4>3. new[k].fallback \in BOOLEAN
        BY <4>2 DEF NewOne, Row
      <4>4. ~new[k].fallback
        BY <2>4, <4>1
      <4>5. QED
        BY <4>3, <4>4
    <3>2. QED
      BY <3>1
  <2>6. /\ \A k \in 2..Len(new) : new[k].fallback = new[1].fallback
        /\ \A k \in 1..Len(new) : ~new[k].fallback
    <3>1. 1 \in 1..Len(new) /\ \A k \in 2..Len(new) : k \in 1..Len(new)
      BY <1>1, <2>2
    <3>2. QED
      BY <2>5, <3>1
  <2>. HIDE DEF NewOne
  <2>7. Len(new) \in Nat /\ Len(new) >= 1 /\ Len(new) >= 2 /\ DOMAIN new = 1..Len(new)
        /\ Len(new) = Len(AskedBy(def, n)) + 1
    BY <1>1, <2>2, <2>4
  <2>8. \A k \in 2..Len(new) : \E a \in User : NewOne(new[k], n, Fresh(1), "active", a)
    BY <2>2, <2>4
  <2>9. Fits(n, new)
    BY <2>3, <2>4, <2>6, <2>7, <2>8 DEF Fits
  <2>10. QED
    BY <1>2, <2>9
<1>4. CASE ~ByVotes(n) /\ HasPool(def.approver[n])
  <2>1. PICK pool : pool = ToSet(who)
    OBVIOUS
  <2>2. pool \in SUBSET (User \cup {Nobody})
    BY <1>1, <2>1 DEF ToSet
  <2>3. PICK x : x = ToClaim(n, pool)
    OBVIOUS
  <2>4. NewOne(x, n, NoId, "pending", Nobody) /\ ~x.fallback
    BY <2>2, <2>3, PoolRow
  <2>5. new = <<x>> /\ ~VoteNode(def, n)
    BY <1>2, <1>4, <2>1, <2>3 DEF ApproverTasks, ByVotes, VoteNode
  <2>6. QED
    BY <1>2, <2>4, <2>5, OneFits
<1>5. CASE ~ByVotes(n) /\ ~HasPool(def.approver[n]) /\ def.mode[n] = "any"
  <2>1. new = [k \in DOMAIN who |-> Assigned(n, who[k])]
    BY <1>2, <1>5 DEF ApproverTasks
  <2>2. DOMAIN new = 1..Len(who) /\ \A k \in 1..Len(who) : new[k] = Assigned(n, who[k])
    BY <1>1, <2>1
  <2>3. Len(new) = Len(who)
    <3>1. PICK R : R = {new[k] : k \in 1..Len(who)}
      OBVIOUS
    <3>2. new \in [1..Len(who) -> R]
      BY <2>1, <2>2, <3>1
    <3>3. new \in Seq(R)
      BY <1>1, <3>2, SeqDef
    <3>4. QED
      BY <1>1, <3>2, <3>3, LenProperties
  <2>4. \A k \in 1..Len(who) : NewOne(new[k], n, NoId, "active", who[k]) /\ ~new[k].fallback
    BY <1>1, <2>2, AssignedRow
  <2>5. OrSigned(def, n)
    BY <1>5 DEF OrSigned
  <2>6. QED
    BY <1>1, <1>2, <2>2, <2>3, <2>4, <2>5 DEF Fits
<1>6. CASE ~ByVotes(n) /\ ~HasPool(def.approver[n]) /\ def.mode[n] # "any"
  <2>1. PICK x : x = Assigned(n, who[1])
    OBVIOUS
  <2>2. who[1] \in User
    BY <1>1
  <2>3. NewOne(x, n, NoId, "active", who[1]) /\ ~x.fallback
    BY <2>1, <2>2, AssignedRow
  <2>4. new = <<x>> /\ ~VoteNode(def, n)
    BY <1>2, <1>6, <2>1 DEF ApproverTasks, ByVotes, VoteNode
  <2>5. QED
    BY <1>2, <2>2, <2>3, <2>4, OneFits, OrganisationAssumption
<1>7. QED
  BY <1>3, <1>4, <1>5, <1>6

(* The tasks of a node fit. *)
LEMMA NewTasksFit ==
  ASSUME DeskInv, NEW n \in Nodes, RoomFor(Len(NewTasks(n)))
  PROVE  Fits(n, NewTasks(n))
<1>1. Asked(n) = AskedBy(def, n)
  BY DEF Asked, AskedBy
<1>2. AskedBy(def, n) \in Seq(User)
  BY FlowNodes DEF DeskInv, DriveTyped, Nodes, NodesOf
<1>3. CASE Asked(n) = <<>>
  <2>1. NewTasks(n) = FallbackTasks(n)
    BY <1>3 DEF NewTasks
  <2>2. QED
    BY <1>1, <1>3, <2>1, FallbackFits
<1>4. CASE Asked(n) # <<>>
  <2>1. NewTasks(n) = ApproverTasks(n, Asked(n))
    BY <1>4 DEF NewTasks
  <2>2. QED
    BY <1>1, <1>2, <1>4, <2>1, ApproverFits
<1>5. QED
  BY <1>3, <1>4

(* What every new row of node n is like. *)
Made(x, n) ==
  /\ x \in Row(n) /\ x.node = n /\ Opened(x) /\ x.reason = "none" /\ x.closedBy = NoId
  /\ x.born = Len(answered)
  /\ x.status = "pending" => x.assignee = Nobody
  /\ x.fallback => AskedBy(def, n) = <<>>
  /\ ~x.claimed /\ x.owner = Nobody

(* The votes that are asked for with parent p: one for each approver, or   *)
(* the one of who approves for the starter.                                *)
Voters(n, N, p, r) ==
  /\ \E k \in N : k # p
  /\ r[p].pool = {}
  /\ \A k \in N \ {p} : r[k].pool = {} /\ r[k].assignee # Nobody /\ r[k].fallback = r[p].fallback
  /\ ~r[p].fallback => Cardinality(N) = Len(AskedBy(def, n)) + 1

(* The three shapes of the rows of a node, by id. *)
Shaped(n, N, r) ==
  \/ /\ VoteNode(def, n) => AskedBy(def, n) = <<>>
     /\ \A j, k \in N : j = k
     /\ \A k \in N : r[k].parent = NoId /\ (r[k].status = "active" => r[k].assignee # Nobody)
  \/ /\ VoteNode(def, n)
     /\ \E p \in N : /\ r[p].parent = NoId /\ r[p].assignee = Nobody /\ r[p].status = "active"
                     /\ \A k \in N : k = p \/ (r[k].parent = p /\ r[k].status = "active")
                     /\ Voters(n, N, p, r)
  \/ /\ OrSigned(def, n)
     /\ \A k \in N : r[k].parent = NoId /\ r[k].status = "active" /\ r[k].assignee # Nobody

(* The rows r: those there were, and new ones with the ids N for node n. *)
MadeOf(n, N, r) ==
  /\ \A k \in N : k \in Id /\ k \notin Ids /\ k # NoId
  /\ \A j : j \in DOMAIN r <=> j \in Ids \/ j \in N
  /\ \A j \in Ids : r[j] = task[j] /\ task[j].parent \notin N
  /\ \A k \in N : Made(r[k], n)
  /\ Shaped(n, N, r)
  /\ N # {}

(* What the creation of the tasks of a node does to the rows. *)
NodeMade ==
  /\ UNCHANGED <<def, asks, resets, past>>
  /\ at' = NoNode
  /\ \E n \in Nodes : \E N :
       /\ n = at
       /\ MadeOf(n, N, task')
       /\ \A j \in Ids : ~Opened(task[j]) /\ task[j].node # n

(* WithNew makes rows of that shape. *)
LEMMA MadeRows ==
  ASSUME DeskInv, NEW n \in Nodes, NEW new, Fits(n, new), RoomFor(Len(new))
  PROVE  MadeOf(n, {Fresh(k) : k \in 1..Len(new)}, WithNew(task, new))
<1>0. PICK N, r : N = {Fresh(k) : k \in 1..Len(new)} /\ r = WithNew(task, new)
  OBVIOUS
<1>1. Len(new) \in Nat /\ Len(new) >= 1 /\ DOMAIN new = 1..Len(new)
  BY DEF Fits
<1>2. \A k \in 1..Len(new) : Fresh(k) \in Free
  BY <1>1, FreshIds
<1>3. \A k, l \in 1..Len(new) : Fresh(k) = Fresh(l) => k = l
  BY <1>1, FreshIds
<1>4. \A k \in N : k \in Free
  BY <1>0, <1>2
<1>5. \A k \in N : k \in Id /\ k \notin Ids /\ k # NoId
  BY <1>4, FreeIds DEF NoId
<1>6. /\ \A i : i \in DOMAIN r <=> i \in Ids \/ i \in N
      /\ \A i \in Ids : r[i] = task[i]
      /\ \A k \in 1..Len(new) : r[Fresh(k)] = new[k]
  <2>1. DOMAIN task \subseteq Ids /\ Ids = DOMAIN task
    BY DEF Ids
  <2>2. \A i : i \in N <=> \E k \in 1..Len(new) : i = Fresh(k)
    BY <1>0
  <2>3. /\ \A i : i \in DOMAIN r <=>
                    i \in DOMAIN task \/ \E k \in 1..Len(new) : i = Fresh(k)
        /\ \A i \in DOMAIN task : r[i] = task[i]
        /\ \A k \in 1..Len(new) : r[Fresh(k)] = new[k]
    BY <1>0, <1>1, <2>1, NewRows
  <2>4. QED
    BY <2>1, <2>2, <2>3
<1>7. \A j \in Ids : task[j].parent \notin N
  BY <1>4, FreeIds
<1>8. \A k \in 1..Len(new) : Fresh(k) \in N
  BY <1>0
<1>9. \A k \in N : \E l \in 1..Len(new) : k = Fresh(l) /\ r[k] = new[l]
  BY <1>0, <1>6
<1>10. \A k \in 1..Len(new) : Made(new[k], n)
  <2>. DEFINE One(l) == \E p, t, a : /\ NewOne(new[l], n, p, t, a)
                                     /\ t \in {"pending", "active"} /\ (t = "pending" => a = Nobody)
              All == \A l \in 1..Len(new) : One(l)
  <2>. HIDE DEF NewOne
  <2>4. All
    <3>1. CASE /\ Len(new) = 1
               /\ \E s \in {"pending", "active"}, a \in User \cup {Nobody} :
                    NewOne(new[1], n, NoId, s, a) /\ (s = "pending" <=> a = Nobody)
               /\ VoteNode(def, n) => AskedBy(def, n) = <<>>
      <4>1. \A l \in 1..Len(new) : l = 1
        BY <3>1
      <4>2. One(1)
        BY <3>1
      <4>. HIDE DEF One
      <4>3. ASSUME NEW l \in 1..Len(new) PROVE One(l)
        <5>1. l = 1
          BY <4>1
        <5>2. QED
          BY <4>2, <5>1
      <4>4. QED
        BY <4>3
    <3>2. CASE /\ VoteNode(def, n)
               /\ NewOne(new[1], n, NoId, "active", Nobody)
               /\ \A k \in 2..Len(new) : \E a \in User : NewOne(new[k], n, Fresh(1), "active", a)
               /\ Len(new) >= 2
               /\ \A k \in 2..Len(new) : new[k].fallback = new[1].fallback
               /\ ~new[1].fallback => Len(new) = Len(AskedBy(def, n)) + 1
      <4>1. \A l \in 1..Len(new) : l = 1 \/ l \in 2..Len(new)
        BY <1>1
      <4>2. One(1)
        BY <3>2
      <4>3. ASSUME NEW l \in 2..Len(new) PROVE One(l)
        <5>1. PICK a \in User : NewOne(new[l], n, Fresh(1), "active", a)
          BY <3>2
        <5>2. QED
          BY <5>1
      <4>. HIDE DEF One
      <4>4. QED
        BY <4>1, <4>2, <4>3
    <3>3. CASE /\ OrSigned(def, n)
               /\ \A k \in 1..Len(new) : \E a \in User : NewOne(new[k], n, NoId, "active", a)
      <4>1. ASSUME NEW l \in 1..Len(new) PROVE One(l)
        <5>1. PICK a \in User : NewOne(new[l], n, NoId, "active", a)
          BY <3>3
        <5>2. QED
          BY <5>1
      <4>2. QED
        BY <4>1
    <3>. HIDE DEF One, All
    <3>4. QED
      BY <3>1, <3>2, <3>3 DEF Fits
  <2>. HIDE DEF One, All
  <2>6. ASSUME NEW k \in 1..Len(new) PROVE Made(new[k], n)
    <3>1. PICK p, t, a : NewOne(new[k], n, p, t, a) /\ t \in {"pending", "active"} /\ (t = "pending" => a = Nobody)
      BY <2>4 DEF One, All
    <3>2. new[k].fallback => AskedBy(def, n) = <<>>
      BY DEF Fits
    <3>3. QED
      BY <3>1, <3>2 DEF NewOne, Made, Opened
  <2>7. QED
    BY <2>6
<1>11. \A k \in N : Made(r[k], n)
  BY <1>9, <1>10
<1>12. Shaped(n, N, r)
  <2>1. CASE /\ Len(new) = 1
             /\ \E s \in {"pending", "active"}, a \in User \cup {Nobody} :
                  NewOne(new[1], n, NoId, s, a) /\ (s = "pending" <=> a = Nobody)
             /\ VoteNode(def, n) => AskedBy(def, n) = <<>>
    <3>1. new[1].parent = NoId /\ (new[1].status = "active" => new[1].assignee # Nobody)
      BY <2>1 DEF NewOne
    <3>2. \A k \in N : k = Fresh(1) /\ r[k].parent = NoId /\ (r[k].status = "active" => r[k].assignee # Nobody)
      BY <1>9, <2>1, <3>1
    <3>3. QED
      BY <2>1, <3>2 DEF Shaped
  <2>2. CASE /\ VoteNode(def, n)
             /\ NewOne(new[1], n, NoId, "active", Nobody)
             /\ \A k \in 2..Len(new) : \E a \in User : NewOne(new[k], n, Fresh(1), "active", a)
             /\ Len(new) >= 2
             /\ \A k \in 2..Len(new) : new[k].fallback = new[1].fallback
             /\ ~new[1].fallback => Len(new) = Len(AskedBy(def, n)) + 1
    <3>1. PICK p \in N : p = Fresh(1) /\ r[p] = new[1]
      BY <1>1, <1>6, <1>8
    <3>2. r[p].parent = NoId /\ r[p].assignee = Nobody /\ r[p].status = "active"
      BY <2>2, <3>1 DEF NewOne
    <3>3. \A l \in 2..Len(new) : new[l].parent = p /\ new[l].status = "active"
      BY <2>2, <3>1 DEF NewOne
    <3>4. \A k \in N : k = p \/ (r[k].parent = p /\ r[k].status = "active")
      <4>1. ASSUME NEW k \in N, k # p PROVE r[k].parent = p /\ r[k].status = "active"
        <5>1. PICK l \in 1..Len(new) : k = Fresh(l) /\ r[k] = new[l]
          BY <1>9
        <5>2. l \in 2..Len(new)
          BY <1>1, <3>1, <4>1, <5>1
        <5>3. QED
          BY <3>3, <5>1, <5>2
      <4>2. QED
        BY <4>1
    <3>5. \A k \in N \ {p} : r[k].pool = {} /\ r[k].assignee # Nobody /\ r[k].fallback = r[p].fallback
      <4>1. \A l \in 2..Len(new) : new[l].pool = {} /\ new[l].assignee \in User
        BY <2>2 DEF NewOne
      <4>2. ASSUME NEW k \in N, k # p PROVE \E l \in 2..Len(new) : r[k] = new[l]
        <5>1. PICK l \in 1..Len(new) : k = Fresh(l) /\ r[k] = new[l]
          BY <1>9
        <5>2. l \in 2..Len(new)
          BY <1>1, <3>1, <4>2, <5>1
        <5>3. QED
          BY <5>1, <5>2
      <4>3. QED
        BY <2>2, <3>1, <4>1, <4>2, OrganisationAssumption
    <3>6. \E k \in N : k # p
      <4>. Len(new) >= 2
        BY <2>2
      <4>0. 1 \in 1..Len(new) /\ 2 \in 1..Len(new) /\ 2 # 1
        BY <1>1
      <4>1. Fresh(2) # Fresh(1) /\ Fresh(2) \in N
        BY <1>3, <1>8, <4>0
      <4>2. QED
        BY <3>1, <4>1
    <3>7. Cardinality(N) = Len(new)
      <4>1. PICK g : g = [k \in 1..Len(new) |-> Fresh(k)]
        OBVIOUS
      <4>2. g \in [1..Len(new) -> N] /\ \A k \in 1..Len(new) : g[k] = Fresh(k)
        BY <1>8, <4>1
      <4>3. g \in Bijection(1..Len(new), N)
        <5>1. \A k, l \in 1..Len(new) : g[k] = g[l] => k = l
          BY <1>3, <4>2
        <5>2. \A j \in N : \E k \in 1..Len(new) : g[k] = j
          BY <1>0, <4>2
        <5>3. QED
          BY <4>2, <5>1, <5>2 DEF Bijection, Injection, Surjection, IsInjective
      <4>4. IsFiniteSet(1..Len(new)) /\ Cardinality(1..Len(new)) = Len(new)
        BY <1>1, FS_Interval
      <4>5. QED
        <5>1. ExistsBijection(1..Len(new), N)
          BY <4>3 DEF ExistsBijection
        <5>2. QED
          BY <4>4, <5>1, FS_Bijection
    <3>8. Voters(n, N, p, r)
      <4>1. r[p].pool = {}
        BY <2>2, <3>1 DEF NewOne
      <4>2. QED
        BY <2>2, <3>1, <3>5, <3>6, <3>7, <4>1 DEF Voters
    <3>9. QED
      BY <2>2, <3>2, <3>4, <3>8 DEF Shaped
  <2>3. CASE /\ OrSigned(def, n)
             /\ \A k \in 1..Len(new) : \E a \in User : NewOne(new[k], n, NoId, "active", a)
    <3>1. \A k \in 1..Len(new) : new[k].parent = NoId /\ new[k].status = "active" /\ new[k].assignee # Nobody
      BY <2>3, OrganisationAssumption DEF NewOne
    <3>2. \A k \in N : r[k].parent = NoId /\ r[k].status = "active" /\ r[k].assignee # Nobody
      BY <1>9, <3>1
    <3>3. QED
      BY <2>3, <3>2 DEF Shaped
  <2>4. QED
    BY <2>1, <2>2, <2>3 DEF Fits
<1>13. N # {}
  BY <1>1, <1>8
<1>14. QED
  <2>1. MadeOf(n, N, r)
    BY <1>5, <1>6, <1>7, <1>11, <1>12, <1>13 DEF MadeOf
  <2>2. QED
    BY <1>0, <2>1

(* The rows of a node that has none. *)
LEMMA MadeAdded ==
  ASSUME NEW n, n \in NodesOf(def), NEW N, NEW r,
         \A k \in N : k \in Id /\ k \notin DOMAIN task /\ k # NoId,
         \A j : j \in DOMAIN r <=> j \in DOMAIN task \/ j \in N,
         \A j \in DOMAIN task : /\ r[j] = task[j] /\ task[j].parent \notin N
                                /\ PlaceOf(def, task[j].node) <= PlaceOf(def, n)
                                /\ ~Opened(task[j]) /\ task[j].node # n,
         \A k \in N : Made(r[k], n),
         Shaped(n, N, r)
  PROVE  Added(def, task, answered, n, N, r)
<1>1. VoteNode(def, n) => ~OrSigned(def, n)
  BY DEF VoteNode, OrSigned
<1>2. \A k \in N : /\ r[k] \in Row(n) /\ r[k].node = n /\ Opened(r[k]) /\ r[k].reason = "none"
                   /\ r[k].closedBy = NoId /\ r[k].born = Len(answered)
                   /\ r[k].status = "pending" => r[k].assignee = Nobody
                   /\ r[k].fallback => AskedBy(def, n) = <<>>
                   /\ ~r[k].claimed /\ r[k].owner = Nobody
  BY DEF Made
<1>3. \A k \in N : r[k].parent # NoId =>
        /\ VoteNode(def, n)
        /\ r[k].parent \in N
        /\ r[r[k].parent].parent = NoId /\ r[r[k].parent].node = n
        /\ r[k].status # "pending"
  BY <1>2 DEF Shaped
<1>4. \A k \in N, j \in DOMAIN r :
        r[k].parent = NoId /\ r[j].parent = NoId /\ r[j].node = n => j = k \/ OrSigned(def, n)
  <2>1. SUFFICES ASSUME NEW k \in N, NEW j \in DOMAIN r,
                        r[k].parent = NoId, r[j].parent = NoId, r[j].node = n, ~OrSigned(def, n)
                 PROVE  j = k
    OBVIOUS
  <2>2. j \in N
    BY <2>1
  <2>3. QED
    BY <2>1, <2>2 DEF Shaped
<1>5. OrSigned(def, n) => \A j, k \in DOMAIN r :
        j # k /\ Opened(r[j]) /\ Opened(r[k]) => r[j].status = "active" /\ ~r[j].claimed
  <2>1. SUFFICES ASSUME OrSigned(def, n), NEW j \in DOMAIN r, NEW k \in DOMAIN r, j # k,
                        Opened(r[j]), Opened(r[k])
                 PROVE  r[j].status = "active" /\ ~r[j].claimed
    OBVIOUS
  <2>2. j \in N /\ k \in N
    BY <2>1
  <2>3. QED
    BY <1>1, <1>2, <2>1, <2>2 DEF Shaped
<1>6. ASSUME NEW k \in N, Aggregate(def, r, k)
      PROVE  r[k].assignee = Nobody /\ r[k].owner = Nobody /\ r[k].status # "pending"
  <2>1. \A j \in DOMAIN r : r[j].parent = k => j \in N
    OBVIOUS
  <2>2. k # NoId /\ r[k].parent = NoId
    BY <1>6 DEF Aggregate
  <2>3. ~OrSigned(def, n) \/ \A j \in N : r[j].parent = NoId
    BY <1>1 DEF Shaped
  <2>4. CASE /\ VoteNode(def, n) => AskedBy(def, n) = <<>>
             /\ \A i, j \in N : i = j
             /\ \A j \in N : r[j].parent = NoId
    BY <1>2, <1>6, <2>1, <2>2, <2>4 DEF Aggregate
  <2>5. CASE \E p \in N : /\ r[p].parent = NoId /\ r[p].assignee = Nobody /\ r[p].status = "active"
                          /\ \A j \in N : j = p \/ (r[j].parent = p /\ r[j].status = "active")
    BY <1>2, <2>2, <2>5
  <2>6. CASE /\ OrSigned(def, n)
             /\ \A j \in N : r[j].parent = NoId /\ r[j].status = "active"
    BY <1>1, <1>2, <1>6, <2>1, <2>2, <2>6 DEF Aggregate
  <2>7. QED
    BY <2>4, <2>5, <2>6 DEF Shaped
<1>7. \A k \in N : r[k].parent # NoId =>
        /\ ~OrSigned(def, n) /\ r[k].parent \in DOMAIN r /\ r[k].parent \notin DOMAIN task
  BY <1>1, <1>3
<1>8. QED
  BY <1>2, <1>3, <1>4, <1>5, <1>6, <1>7 DEF Added

(* Create keeps the invariant. *)
LEMMA CreateStep ==
  ASSUME DeskInv, NEW n \in Nodes, Create(n)
  PROVE  DeskInv' /\ NodeMade
<1>. DEFINE new == NewTasks(n)
            N == {Fresh(k) : k \in 1..Len(new)}
            r == WithNew(task, new)
<1>1. /\ at = n /\ inst = "active" /\ MainRows(n) = {} /\ RoomFor(Len(new))
      /\ task' = r /\ answered' = answered
      /\ at' = NoNode /\ auto' \in {n, NoNode}
      /\ UNCHANGED <<def, inst, asks, resets, recalls, past, last>>
  BY DEF Create, histVars
<1>2. Fits(n, new)
  BY <1>1, NewTasksFit
<1>3. def \in Flows /\ n \in NodesOf(def) /\ n # NoNode /\ RowInv(def, task, answered) /\ Ids = DOMAIN task
  BY FlowNodes DEF DeskInv, DriveTyped, Nodes, NodesOf, Ids
<1>4. Driving
  BY <1>1, <1>3 DEF Driving
<1>5. \A j \in DOMAIN task : /\ PlaceOf(def, task[j].node) <= PlaceOf(def, n)
                             /\ ~Opened(task[j]) /\ task[j].node # n
  <2>1. ASSUME NEW j \in DOMAIN task, task[j].node = n PROVE FALSE
    <3>1. \A i \in DOMAIN task : task[i].node = n => task[i].parent # NoId
      BY <1>1, <1>3 DEF MainRows, Main
    <3>2. PICK p \in DOMAIN task : task[p].parent = NoId /\ task[p].node = n
      BY <1>3, <2>1, <3>1 DEF RowInv, Family
    <3>3. QED
      BY <3>1, <3>2
  <2>2. QED
    BY <1>1, <1>3, <1>4, <2>1 DEF DeskInv, Quiet, Beyond
<1>6. MadeOf(n, N, r)
  BY <1>1, <1>2, MadeRows
<1>. HIDE DEF new, N, r
<1>7. /\ \A k \in N : k \in Id /\ k \notin Ids /\ k # NoId
      /\ \A j : j \in DOMAIN r <=> j \in Ids \/ j \in N
      /\ \A j \in Ids : r[j] = task[j] /\ task[j].parent \notin N
      /\ \A k \in N : Made(r[k], n)
      /\ Shaped(n, N, r)
      /\ N # {}
  BY <1>6 DEF MadeOf
<1>8. Added(def, task, answered, n, N, r)
  BY <1>3, <1>5, <1>7, MadeAdded
<1>9. RowInv(def, r, answered)
  BY <1>3, <1>8, AddRows
<1>10. PICK k \in DOMAIN r : Opened(r[k])
  BY <1>7 DEF Made
<1>11. asks = {} /\ resets = <<>>
  BY <1>1, <1>3 DEF DeskInv, OneDrive
<1>12. Apart(def)' /\ DriveTyped' /\ RowInv(def, task, answered)'
  BY <1>1, <1>3, <1>9 DEF DeskInv, DriveTyped, Nodes, NodesOf
<1>13. OneDrive' /\ Quiet' /\ Beyond'
  <2>1. OneDrive'
    BY <1>1, <1>11 DEF OneDrive, Driving
  <2>2. Quiet'
    BY <1>1, <1>10, <1>11 DEF Quiet, Driving, Waiting, Ids
  <2>3. Beyond'
    BY <1>1, <1>3, <1>11, FlowNodes DEF Beyond, Nodes, NodesOf
  <2>4. QED
    BY <2>1, <2>2, <2>3
<1>14. NodeMade
  BY <1>1, <1>3, <1>5, <1>6 DEF NodeMade
<1>15. QED
  BY <1>12, <1>13, <1>14 DEF DeskInv

-----------------------------------------------------------------------------
(* Signers.                                                                *)

(* A finite set has a sequence of its members. *)
LEMMA SetSequence ==
  ASSUME NEW S, IsFiniteSet(S)
  PROVE  Cardinality(S) \in Nat /\ SetToSeq(S) \in [1..Cardinality(S) -> S]
<1>1. Cardinality(S) \in Nat /\ ExistsBijection(1..Cardinality(S), S)
  BY FS_CardinalityType
<1>2. PICK f \in Bijection(1..Cardinality(S), S) : TRUE
  BY <1>1 DEF ExistsBijection
<1>3. f \in [1..Cardinality(S) -> S] /\ IsInjective(f)
  BY <1>2 DEF Bijection, Injection, IsInjective
<1>4. QED
  BY <1>1, <1>3 DEF SetToSeq

(* A signer's row. *)
Signer(w, o, u, fb) == [w EXCEPT !.owner = o, !.addedBy = u, !.fallback = fb]
SignerOf(x, n, p) ==
  /\ x \in Row(n) /\ x.node = n /\ x.parent = p /\ x.status = "active" /\ x.reason = "none"
  /\ x.closedBy = NoId /\ x.born = Len(answered) /\ ~x.claimed
  /\ x.pool = {} /\ x.assignee # Nobody

(* The fields of the task of a signer. *)
LEMMA SignerRow ==
  ASSUME DeskInv, NEW n, NEW p \in Id, NEW to \in User, NEW o \in User \cup {Nobody}, NEW u \in User,
         NEW fb \in BOOLEAN, NEW w, w = NewRow(n, p, "active", to, {}),
         NEW x, x = Signer(w, o, u, fb)
  PROVE  SignerOf(x, n, p) /\ x.fallback = fb
<1>1. NewOne(w, n, p, "active", to) /\ ~w.fallback
  BY NewRowIs
<1>2. w \in Row(n) /\ w.parent = p /\ w.status = "active" /\ w.reason = "none" /\ w.closedBy = NoId
      /\ w.born = Len(answered) /\ ~w.claimed /\ w.pool = {} /\ w.assignee = to
  BY <1>1 DEF NewOne
<1>3. x \in Row(n)
  <2>1. x = [w EXCEPT !.owner = o, !.addedBy = u, !.fallback = fb]
    BY DEF Signer
  <2>2. QED
    BY <1>2, <2>1 DEF Row
<1>4. QED
  BY <1>1, <1>2, <1>3, OrganisationAssumption DEF Signer, Row, SignerOf

(* Sub-tasks of an open task, which judge as it does where it is a vote. *)
JudgesAs(x, w) == /\ x.fallback => w.fallback
                  /\ ByVotes(w.node) => x.fallback = w.fallback
Signers(m, N, r) ==
  /\ \A k \in N : k \in Id /\ k \notin DOMAIN task
  /\ \A j : j \in DOMAIN r <=> j \in DOMAIN task \/ j \in N
  /\ \A j \in DOMAIN task : r[j] = task[j] /\ task[j].parent \notin N
  /\ \A k \in N : /\ r[k] \in Row(task[m].node) /\ r[k].node = task[m].node /\ r[k].parent = m
                  /\ r[k].status = "active" /\ r[k].reason = "none"
                  /\ r[k].closedBy = NoId /\ r[k].born = Len(answered) /\ ~r[k].claimed
                  /\ JudgesAs(r[k], task[m])
                  /\ r[k].pool = {} /\ r[k].assignee # Nobody /\ r[k].owner = task[m].owner

TaskSigned ==
  /\ Settled
  /\ "AddSign" \in def.uses
  /\ \E m \in Ids : \E N : task[m].parent = NoId /\ task[m].status = "active" /\ Signers(m, N, task')

(* Signers are added as AddRows wants rows added. *)
LEMMA SignersAdded ==
  ASSUME DeskInv, NEW m \in Ids, Main(m), Active(m), "AddSign" \in def.uses,
         NEW N, NEW r, Signers(m, N, r)
  PROVE  Added(def, task, answered, task[m].node, N, r)
<1>1. PICK n : n = task[m].node
  OBVIOUS
<1>2. /\ def \in Flows /\ RowInv(def, task, answered) /\ Apart(def) /\ Ids = DOMAIN task
      /\ n \in NodesOf(def) /\ task[m].parent = NoId /\ Opened(task[m]) /\ m # NoId
  BY <1>1, RowBounds DEF DeskInv, DriveTyped, Ids, Main, Active, Opened, RowInv, Typed, NoId, Id
<1>3. ~OrSigned(def, n)
  BY <1>2 DEF Apart, NodesOf, OrSigned
<1>4. \A j \in DOMAIN task : /\ PlaceOf(def, task[j].node) <= PlaceOf(def, n)
                             /\ Opened(task[j]) => task[j].node = n
                             /\ task[j].parent = NoId /\ task[j].node = n => task[j].status # "completed"
  BY <1>1, <1>2 DEF RowInv, OneNode, LoneMain
<1>5. "Recall" \in def.uses =>
        /\ VoteNode(def, n)
        /\ task[m].assignee = Nobody /\ task[m].owner = Nobody /\ task[m].status # "pending"
  <2>1. ASSUME "Recall" \in def.uses PROVE VoteNode(def, n) /\ AskedBy(def, n) # <<>>
    BY <1>2, <2>1 DEF Apart, NodesOf, VoteNode, AskedBy
  <2>2. "Recall" \in def.uses => Aggregate(def, task, m)
    BY <1>1, <1>2, <2>1 DEF Aggregate
  <2>3. QED
    BY <1>2, <2>1, <2>2 DEF RowInv, Recallable
<1>6. \A k \in N : r[k].parent = m /\ r[k].node = n
  BY <1>1 DEF Signers
<1>7. r[m] = task[m] /\ m \in DOMAIN r
  BY <1>2 DEF Signers
<1>8. \A k \in N : ~Aggregate(def, r, k)
  BY <1>2, <1>6 DEF Aggregate
<1>9. \A k \in N : r[k].fallback => AskedBy(def, n) = <<>>
  BY <1>1, <1>2 DEF Signers, JudgesAs, RowInv, Claims
<1>10. QED
  BY <1>1, <1>2, <1>3, <1>4, <1>5, <1>6, <1>7, <1>8, <1>9 DEF Added, Signers, Opened

(* AddSign keeps the invariant. *)
LEMMA AddSignStep ==
  ASSUME DeskInv, NEW m \in Ids, NEW u \in People, NEW us \in SUBSET People, NEW twice \in SUBSET us,
         AddSign(u, m, us, twice)
  PROVE  DeskInv' /\ TaskSigned
<1>. DEFINE S == SignersOf(m, us)
            T == SignersOf(m, twice)
            who == SetToSeq(S) \o SetToSeq(T)
            new == [k \in DOMAIN who |-> SignTask(u, m, who[k])]
            r == WithNew(task, new)
            N == {Fresh(k) : k \in 1..Len(who)}
<1>1. /\ "AddSign" \in def.uses /\ inst = "active" /\ Main(m) /\ Active(m) /\ RoomFor(Len(who))
      /\ task' = r /\ Unmoved
  BY DEF AddSign, Uses, MaySign
<1>2. def \in Flows /\ RowInv(def, task, answered) /\ Ids = DOMAIN task /\ m \in Id
      /\ task[m] \in Row(task[m].node)
  BY DEF DeskInv, DriveTyped, Ids, RowInv, Typed
<1>3. People \subseteq User /\ IsFiniteSet(People)
  BY <1>2, FlowAssumption DEF People
<1>4. S \subseteq User /\ IsFiniteSet(S) /\ T \subseteq User /\ IsFiniteSet(T)
  <2>1. S \subseteq us /\ T \subseteq us
    BY DEF SignersOf
  <2>2. QED
    BY <1>3, <2>1, FS_Subset
<1>. HIDE DEF S, T
<1>5. who \in Seq(User) /\ Len(who) \in Nat /\ DOMAIN who = 1..Len(who)
  <2>1. SetToSeq(S) \in Seq(User) /\ SetToSeq(T) \in Seq(User)
    <3>1. /\ Cardinality(S) \in Nat /\ SetToSeq(S) \in [1..Cardinality(S) -> S]
          /\ Cardinality(T) \in Nat /\ SetToSeq(T) \in [1..Cardinality(T) -> T]
      BY <1>4, SetSequence
    <3>2. QED
      BY <1>4, <3>1, SeqDef
  <2>2. who \in Seq(User)
    BY <2>1
  <2>. HIDE DEF who
  <2>3. QED
    BY <2>2
<1>. HIDE DEF who
<1>6. DOMAIN new = 1..Len(who)
  BY <1>5
<1>7. PICK o, fb : o = task[m].owner /\ fb = (task[m].fallback /\ ByVotes(task[m].node))
  OBVIOUS
<1>8. ASSUME NEW k \in 1..Len(who), NEW x, x = new[k]
      PROVE  /\ x \in Row(task[m].node) /\ x.node = task[m].node /\ x.parent = m
             /\ x.status = "active" /\ x.reason = "none"
             /\ x.closedBy = NoId /\ x.born = Len(answered) /\ ~x.claimed /\ JudgesAs(x, task[m])
             /\ x.pool = {} /\ x.assignee # Nobody /\ x.owner = task[m].owner
  <2>1. PICK to, n : to = who[k] /\ n = task[m].node
    OBVIOUS
  <2>2. /\ to \in User /\ u \in User /\ o \in User \cup {Nobody} /\ fb \in BOOLEAN
        /\ task[m].fallback \in BOOLEAN
    <3>1. to \in User
      BY <1>5, <2>1
    <3>2. QED
      BY <1>2, <1>3, <1>7, <3>1, RowFields
  <2>3. PICK w : w = NewRow(n, m, "active", to, {})
    OBVIOUS
  <2>4. x = Signer(w, o, u, fb)
    BY <1>5, <1>7, <1>8, <2>1, <2>3 DEF SignTask, Signer
  <2>5. SignerOf(x, n, m) /\ x.fallback = fb
    BY <1>2, <2>2, <2>3, <2>4, SignerRow
  <2>6. x.owner = o
    <3>1. w \in Row(n)
      BY <1>2, <2>2, <2>3, NewRowIs DEF NewOne
    <3>2. QED
      BY <2>4, <3>1 DEF Signer, Row
  <2>7. JudgesAs(x, task[m])
    BY <1>7, <2>2, <2>5 DEF JudgesAs
  <2>8. QED
    BY <1>7, <2>1, <2>5, <2>6, <2>7 DEF SignerOf
<1>. HIDE DEF new
<1>9. /\ \A i : i \in DOMAIN r <=> i \in DOMAIN task \/ \E k \in 1..Len(who) : i = Fresh(k)
      /\ \A i \in DOMAIN task : r[i] = task[i]
      /\ \A k \in 1..Len(who) : r[Fresh(k)] = new[k]
  BY <1>1, <1>2, <1>5, <1>6, NewRows
<1>10. \A k \in 1..Len(who) : Fresh(k) \in Free
  BY <1>1, <1>5, FreshIds
<1>. HIDE DEF r
<1>11. \A i : i \in N <=> \E k \in 1..Len(who) : i = Fresh(k)
  OBVIOUS
<1>. HIDE DEF N
<1>12. Signers(m, N, r)
  <2>1. \A k \in N : k \in Id /\ k \notin DOMAIN task
    BY <1>2, <1>10, <1>11, FreeIds
  <2>2. \A j \in DOMAIN task : r[j] = task[j] /\ task[j].parent \notin N
    BY <1>2, <1>9, <1>10, <1>11, FreeIds
  <2>3. \A k \in N : \E l \in 1..Len(who) : r[k] = new[l]
    BY <1>9, <1>11
  <2>4. \A k \in N :
          /\ r[k] \in Row(task[m].node) /\ r[k].node = task[m].node /\ r[k].parent = m
          /\ r[k].status = "active" /\ r[k].reason = "none"
          /\ r[k].closedBy = NoId /\ r[k].born = Len(answered) /\ ~r[k].claimed /\ JudgesAs(r[k], task[m])
          /\ r[k].pool = {} /\ r[k].assignee # Nobody /\ r[k].owner = task[m].owner
    <3>1. ASSUME NEW k \in N, NEW x, x = r[k]
          PROVE  /\ x \in Row(task[m].node) /\ x.node = task[m].node /\ x.parent = m
                 /\ x.status = "active" /\ x.reason = "none"
                 /\ x.closedBy = NoId /\ x.born = Len(answered) /\ ~x.claimed /\ JudgesAs(x, task[m])
                 /\ x.pool = {} /\ x.assignee # Nobody /\ x.owner = task[m].owner
      <4>1. PICK l \in 1..Len(who) : x = new[l]
        BY <2>3, <3>1
      <4>2. QED
        BY <1>8, <4>1
    <3>2. QED
      BY <3>1
  <2>5. \A j : j \in DOMAIN r <=> j \in DOMAIN task \/ j \in N
    BY <1>9, <1>11
  <2>6. QED
    BY <2>1, <2>2, <2>4, <2>5 DEF Signers
<1>13. Added(def, task, answered, task[m].node, N, r)
  BY <1>1, <1>12, SignersAdded
<1>14. RowInv(def, r, answered)
  BY <1>2, <1>13, AddRows
<1>15. Settled /\ answered' = answered /\ def' = def
  BY <1>1, UnmovedSettled DEF Unmoved
<1>16. m \in DOMAIN r /\ Opened(r[m]) /\ Opened(task[m])
  BY <1>1, <1>2, <1>9 DEF Active, Opened
<1>17. RowInv(def, task', answered') /\ m \in DOMAIN task' /\ Opened(task'[m])
  BY <1>1, <1>14, <1>15, <1>16
<1>18. TaskSigned
  BY <1>1, <1>12, <1>15 DEF TaskSigned, Main, Active
<1>19. QED
  BY <1>15, <1>16, <1>17, <1>18, OpenStep

(* Rows without an answer leave the order of the answers as it is. *)
LEMMA UnanswerNone ==
  ASSUME answered \in Seq(Id), IsInjective(answered), NEW gone,
         \A j \in gone : j \notin ToSet(answered)
  PROVE  Unanswer(gone) = answered
<1>1. PICK n : n = Len(answered)
  OBVIOUS
<1>2. n \in Nat /\ DOMAIN answered = 1..n
  BY <1>1, LenProperties
<1>3. PICK S : S = Staying(gone)
  OBVIOUS
<1>4. S = 1..n
  BY <1>2, <1>3 DEF Staying, ToSet
<1>5. PICK C : C = Cardinality(S)
  OBVIOUS
<1>6. /\ DOMAIN Unanswer(gone) = 1..C
      /\ \A k \in S : Unanswer(gone)[Rank(S, k)] = answered[k]
      /\ Unanswer(gone) \in Seq(Id)
  BY <1>1, <1>2, <1>3, <1>5, KeptAnswers
<1>7. C = n
  BY <1>2, <1>4, <1>5, FS_Interval
<1>8. \A k \in 1..n : Rank(S, k) = k
  <2>1. ASSUME NEW k \in 1..n PROVE Rank(S, k) = k
    <3>1. {j \in S : j <= k} = 1..k
      BY <1>2, <1>4
    <3>2. k \in Nat /\ Cardinality(1..k) = k
      BY FS_Interval
    <3>3. QED
      BY <3>1, <3>2 DEF Rank
  <2>2. QED
    BY <2>1
<1>9. \A k \in 1..n : Unanswer(gone)[k] = answered[k]
  BY <1>4, <1>6, <1>8
<1>10. PICK a : a = Unanswer(gone)
  OBVIOUS
<1>11. a \in Seq(Id) /\ Len(a) = n
  BY <1>2, <1>6, <1>7, <1>10, LenProperties
<1>12. a = answered
  <2>1. \A k \in 1..Len(a) : a[k] = answered[k]
    BY <1>9, <1>10, <1>11
  <2>2. QED
    BY <1>1, <1>11, <2>1, SeqEqual
<1>13. QED
  BY <1>10, <1>12

(* Where all have to vote, a decision leaves nobody asked. *)
LEMMA AllIn ==
  ASSUME NEW rows, DOMAIN rows \subseteq Id, NEW p, Decided(rows, p), RuleOf(p).type = "all"
  PROVE  \A j \in DOMAIN rows : rows[j].parent = p => rows[j].status \in {"completed", "terminated"}
<1>1. IsFiniteSet(Electorate(rows, p)) /\ VotesIn(rows, p) \in SUBSET Electorate(rows, p)
  <2>1. IsFiniteSet(Id)
    BY RowBounds, FS_Interval DEF Id
  <2>2. Electorate(rows, p) \subseteq Id
    BY DEF Electorate
  <2>3. QED
    BY <2>1, <2>2, FS_Subset DEF VotesIn
<1>2. Cardinality(VotesIn(rows, p)) = Cardinality(Electorate(rows, p))
  BY DEF Decided, DecidedBy, Decides, Tally
<1>3. VotesIn(rows, p) = Electorate(rows, p)
  BY <1>1, <1>2, FS_Subset
<1>4. QED
  BY <1>3 DEF VotesIn, Electorate

(* Unanswered rows that leave with their sub-tasks take no answer with     *)
(* them.                                                                   *)
LEMMA LeaveAlone ==
  ASSUME def \in Flows, RowInv(def, task, answered), NEW gone,
         \A j \in Ids : task[j].parent \in gone => j \in gone,
         \A j \in gone : j \notin ToSet(answered)
  PROVE  /\ RowInv(def, Without(task, gone), answered)
         /\ Unanswer(gone) = answered
         /\ DOMAIN Without(task, gone) = Ids \ gone
         /\ \A j \in Ids \ gone : /\ Without(task, gone)[j].status = task[j].status
                                  /\ Without(task, gone)[j].node = task[j].node
<1>1. answered \in Seq(Id) /\ IsInjective(answered)
  BY DEF RowInv, Typed
<1>2. Unanswer(gone) = answered
  BY <1>1, UnanswerNone
<1>3. /\ RowInv(def, Without(task, gone), Unanswer(gone))
      /\ DOMAIN Without(task, gone) = Ids \ gone
      /\ \A j \in Ids \ gone : /\ Without(task, gone)[j].status = task[j].status
                               /\ Without(task, gone)[j].node = task[j].node
  BY ArchiveRows
<1>4. QED
  BY <1>2, <1>3

(* Open sub-tasks of m. *)
TakenOff(m, gone) == \A j \in gone : j \in Ids /\ task[j].parent = m /\ task[j].status = "active"

(* Without them the task itself stays. *)
LEMMA ReducedFacts ==
  ASSUME DeskInv, NEW m \in Ids, Main(m), Active(m), NEW gone, TakenOff(m, gone)
  PROVE  /\ RowInv(def, Without(task, gone), answered) /\ Unanswer(gone) = answered
         /\ m \in DOMAIN Without(task, gone) /\ Without(task, gone)[m].status = "active" /\ Without(task, gone)[m].node = task[m].node
         /\ Without(task, gone)[m].parent = NoId
         /\ DOMAIN Without(task, gone) \subseteq Ids
         /\ \A j \in DOMAIN Without(task, gone) : Without(task, gone)[j].node = task[j].node /\ Without(task, gone)[j].status = task[j].status
<1>1. /\ def \in Flows /\ RowInv(def, task, answered) /\ Ids = DOMAIN task /\ m \in Id /\ m # NoId
      /\ answered \in Seq(Id) /\ IsInjective(answered)
  BY RowBounds DEF DeskInv, DriveTyped, Ids, RowInv, Typed, NoId, Id
<1>2. \A j \in gone : j \in Ids /\ task[j].parent = m /\ task[j].status = "active"
  BY DEF TakenOff
<1>3. \A j \in Ids : task[j].parent \in gone => j \in gone
  <2>1. SUFFICES ASSUME NEW j \in Ids, task[j].parent \in gone PROVE FALSE
    OBVIOUS
  <2>2. PICK p : p = task[j].parent
    OBVIOUS
  <2>3. p \in Ids /\ task[p].parent = m
    BY <1>2, <2>1, <2>2
  <2>4. p # NoId
    BY <1>1, <2>3, RowBounds DEF RowInv, Typed, NoId, Id
  <2>5. task[p].parent = NoId
    BY <1>1, <2>2, <2>4 DEF RowInv, Family
  <2>6. QED
    BY <1>1, <2>3, <2>5
<1>4. \A j \in gone : j \notin ToSet(answered)
  BY <1>1, <1>2 DEF RowInv, Typed
<1>5. /\ RowInv(def, Without(task, gone), answered)
      /\ Unanswer(gone) = answered
      /\ DOMAIN Without(task, gone) = Ids \ gone
      /\ \A j \in Ids \ gone : /\ Without(task, gone)[j].status = task[j].status
                               /\ Without(task, gone)[j].node = task[j].node
  BY <1>1, <1>3, <1>4, LeaveAlone
<1>6. m \notin gone /\ task[m].parent = NoId /\ task[m].status = "active"
  BY <1>1, <1>2 DEF Main, Active
<1>7. Without(task, gone)[m].parent = NoId
  <2>1. PICK S, r : S = Staying(gone) /\ r = Without(task, gone)
    OBVIOUS
  <2>2. AgedRow(r[m], task[m], S)
    BY <1>1, <1>6, <2>1, WithoutRows
  <2>3. QED
    BY <1>6, <2>1, <2>2 DEF AgedRow
<1>8. QED
  BY <1>5, <1>6, <1>7

(* Rows that leave leave the others as they were. *)
LEMMA WithoutLeft ==
  ASSUME def \in Flows, RowInv(def, task, answered), NEW gone
  PROVE  Left(task, gone, Without(task, gone))
<1>1. PICK S, r : S = Staying(gone) /\ r = Without(task, gone)
  OBVIOUS
<1>2. DOMAIN r = Ids \ gone /\ \A j \in Ids \ gone : AgedRow(r[j], task[j], S)
  BY <1>1, WithoutRows
<1>3. Left(task, gone, r)
  BY <1>2 DEF Left, Alike, AgedRow, Ids
<1>4. QED
  BY <1>1, <1>3

(* What signers that are taken off leave: voters who may go on, or a       *)
(* parent that their votes decide.                                         *)
TaskReduced ==
  /\ Settled
  /\ \E m \in Ids : \E gone :
       /\ task[m].parent = NoId /\ task[m].status = "active"
       /\ TakenOff(m, gone) /\ Left(task, gone, task')
       /\ ByVotes(task[m].node) => Electorate(task', m) # {} /\ ~Decided(task', m)
ReducedDecided ==
  /\ Kept
  /\ \E m \in Ids, w \in Vote : \E gone, mid :
       /\ task[m].parent = NoId /\ task[m].status = "active"
       /\ TakenOff(m, gone) /\ Left(task, gone, mid)
       /\ RowsAfter(task', mid, {m}, {}, "sibling") /\ task'[m].reason = w
       /\ ByVotes(task[m].node) /\ Decided(mid, m)
       /\ w = "approved" <=> Favours(mid, m)
       /\ asks' = asks \cup {task[m].node}
Reduces == "ReduceSign" \in def.uses /\ (TaskReduced \/ ReducedDecided)
Ended == def' = def /\ \E status : EndInstance(status)

(* ReduceSign keeps the invariant. *)
LEMMA ReduceSignStep ==
  ASSUME DeskInv, NEW m \in Ids, NEW u \in People, NEW us \in SUBSET People, ReduceSign(u, m, us)
  PROVE  DeskInv' /\ (Reduces \/ Ended)
<1>1. PICK gone : gone = ReducedBy(m, us)
  OBVIOUS
<1>2. PICK rows : rows = Without(task, gone)
  OBVIOUS
<1>3. /\ "ReduceSign" \in def.uses /\ inst = "active" /\ Main(m) /\ Active(m)
      /\ def' = def /\ at' = at /\ auto' = auto /\ resets' = resets
  BY DEF ReduceSign, MaySign, Uses
<1>0. TakenOff(m, gone)
  BY <1>1 DEF TakenOff, ReducedBy, Subs, Active
<1>4. /\ RowInv(def, rows, answered) /\ Unanswer(gone) = answered
      /\ m \in DOMAIN rows /\ rows[m].status = "active" /\ rows[m].node = task[m].node
      /\ rows[m].parent = NoId
      /\ DOMAIN rows \subseteq Ids
      /\ \A j \in DOMAIN rows : rows[j].node = task[j].node /\ rows[j].status = task[j].status
  BY <1>0, <1>2, <1>3, ReducedFacts
<1>5. Opened(task[m]) /\ Opened(rows[m])
  BY <1>3, <1>4 DEF Active, Opened
<1>12. Left(task, gone, rows) /\ task[m].parent = NoId /\ task[m].status = "active"
  BY <1>2, <1>3, WithoutLeft DEF DeskInv, DriveTyped, Main, Active
<1>6. PICK v \in Vote : v = IF Favours(rows, m) THEN "approved" ELSE "rejected"
  BY DEF Vote
<1>13. v = "approved" <=> Favours(rows, m)
  BY <1>6
<1>7. \/ EndInstance("terminated") /\ asks' = asks
      \/ /\ ByVotes(task[m].node) /\ Decided(rows, m)
         /\ task' = Answer(rows, m, v, "assignee") /\ answered' = Append(answered, m)
         /\ asks' = asks \cup {task[m].node}
         /\ inst' = inst /\ recalls' = recalls /\ past' = past /\ last' = last
      \/ /\ task' = rows /\ answered' = answered
         /\ inst' = inst /\ asks' = asks /\ recalls' = recalls /\ past' = past /\ last' = last
         /\ ByVotes(task[m].node) => Electorate(rows, m) # {} /\ ~Decided(rows, m)
  BY <1>1, <1>2, <1>4, <1>6 DEF ReduceSign, Ask, Archive, histVars
<1>8. CASE EndInstance("terminated") /\ asks' = asks
  BY <1>3, <1>8, EndStep DEF Ended
<1>9. CASE /\ task' = rows /\ answered' = answered
           /\ inst' = inst /\ asks' = asks /\ recalls' = recalls /\ past' = past /\ last' = last
           /\ ByVotes(task[m].node) => Electorate(rows, m) # {} /\ ~Decided(rows, m)
  <2>1. Settled
    BY <1>3, <1>9 DEF Settled
  <2>2. TaskReduced
    <3>1. Left(task, gone, task')
      BY <1>9, <1>12
    <3>2. ByVotes(task[m].node) => Electorate(task', m) # {} /\ ~Decided(task', m)
      BY <1>9
    <3>3. QED
      BY <1>0, <1>12, <2>1, <3>1, <3>2 DEF TaskReduced
  <2>3. QED
    BY <1>3, <1>4, <1>5, <1>9, <2>1, <2>2, OpenStep DEF Reduces
<1>10. CASE /\ ByVotes(task[m].node) /\ Decided(rows, m)
            /\ task' = Answer(rows, m, v, "assignee") /\ answered' = Append(answered, m)
            /\ asks' = asks \cup {task[m].node}
            /\ inst' = inst /\ recalls' = recalls /\ past' = past /\ last' = last
  <2>1. /\ def \in Flows /\ RowInv(def, task, answered) /\ m \in DOMAIN task /\ m \in Id /\ m # NoId
        /\ \A j \in DOMAIN task : task[j].node \in Nodes
        /\ m \notin ToSet(answered) /\ answered \in Seq(Id) /\ IsInjective(answered)
        /\ \A j \in DOMAIN task : Opened(task[j]) => task[j].node = task[m].node
        /\ \A j \in DOMAIN task : PlaceOf(def, task[j].node) <= PlaceOf(def, task[m].node)
    BY <1>5, RowBounds, OpenFacts DEF NoId, Id
  <2>2. PICK n : n = task[m].node
    OBVIOUS
  <2>3. ~OrSigned(def, n) /\ RuleOf(m).type = "all"
    <3>1. VoteNode(def, n) /\ n \in NodesOf(def)
      BY <1>10, <2>1, <2>2 DEF ByVotes, VoteNode, RowInv, Typed
    <3>2. def.mode[n] = "countersign" /\ AskedBy(def, n) # <<>>
      BY <1>3, <3>1 DEF DeskInv, Apart, NodesOf, VoteNode, AskedBy
    <3>3. ~task[m].fallback
      BY <2>1, <2>2, <3>2 DEF RowInv, Claims
    <3>4. RuleOf(m) = [type |-> "all", value |-> 0]
      BY <2>2, <3>2, <3>3 DEF RuleOf, NodeRule
    <3>5. QED
      BY <3>2, <3>4 DEF OrSigned
  <2>4. \A j \in DOMAIN rows : rows[j].parent = m => rows[j].status \in {"completed", "terminated"}
    <3>1. DOMAIN rows \subseteq Id
      BY <1>4 DEF RowInv, Typed
    <3>2. QED
      BY <1>10, <2>3, <3>1, AllIn
  <2>5. ASSUME NEW j \in DOMAIN rows, Opened(rows[j]) PROVE j = m
    <3>1. rows[j].node = n /\ rows[m].node = n
      BY <1>4, <1>5, <2>2, <2>5 DEF RowInv, OneNode
    <3>2. CASE rows[j].parent = NoId
      BY <1>4, <2>3, <3>1, <3>2 DEF RowInv, LoneMain
    <3>3. CASE rows[j].parent # NoId
      <4>1. PICK p : p = rows[j].parent
        OBVIOUS
      <4>2. p \in DOMAIN rows /\ rows[p].parent = NoId /\ rows[p].node = n
        BY <1>4, <3>1, <3>3, <4>1 DEF RowInv, Family
      <4>3. p = m
        BY <1>4, <2>3, <3>1, <4>2 DEF RowInv, LoneMain
      <4>4. QED
        BY <2>4, <2>5, <4>1, <4>3 DEF Opened
    <3>4. QED
      BY <3>2, <3>3
  <2>6. RowsAfter(task', rows, {m}, {}, "sibling") /\ task'[m].reason = v
    <3>1. RowsOf(rows) /\ "assignee" \in AnswerBy
      BY <1>4 DEF RowInv, Typed, RowsOf, AnswerBy
    <3>2. PICK r : r = task'
      OBVIOUS
    <3>3. r = Answer(rows, m, v, "assignee")
      BY <1>10, <3>2
    <3>4. RowsAfter(r, rows, {m}, {}, "sibling") /\ r[m].reason = v
      BY <1>4, <3>1, <3>3, OneAnswer
    <3>5. QED
      BY <3>2, <3>4
  <2>7. PICK ans2 : ans2 = answered'
    OBVIOUS
  <2>8. Longer(answered, ans2, {m})
    BY <1>10, <2>1, <2>7, AnswerOne
  <2>9. Answered(def, rows, answered, m, {m}, {}, "sibling", task', ans2)
    BY <1>4, <1>5, <2>5, <2>6, <2>8 DEF Answered, RowAfter, RowsAfter, Vote
  <2>10. RowInv(def, task', ans2)
    BY <1>4, <2>1, <2>9, AnswerRows
  <2>11. \A k \in DOMAIN task' : ~Opened(task'[k]) /\ PlaceOf(def, task'[k].node) <= PlaceOf(def, n)
    <3>1. DOMAIN task' = DOMAIN rows /\ \A k \in DOMAIN rows : task'[k].node = rows[k].node
      BY <2>6 DEF RowsAfter, RowAfter
    <3>2. \A k \in DOMAIN rows : k # m => task'[k].status = rows[k].status
      BY <2>6 DEF RowsAfter, RowAfter
    <3>3. task'[m].status = "completed"
      BY <1>4, <2>6 DEF RowsAfter, RowAfter
    <3>4. \A k \in DOMAIN rows : ~Opened(task'[k])
      BY <2>5, <3>2, <3>3 DEF Opened
    <3>5. \A k \in DOMAIN rows : rows[k].node = task[k].node /\ k \in DOMAIN task
      BY <1>4 DEF Ids
    <3>6. QED
      BY <2>1, <2>2, <3>1, <3>4, <3>5
  <2>12. n \in Nodes /\ asks' = asks \cup {n} /\ Kept
    BY <1>3, <1>10, <2>1, <2>2 DEF Kept
  <2>13. DeskInv'
    BY <1>5, <2>7, <2>10, <2>11, <2>12, AskStep
  <2>15. ReducedDecided
    BY <1>0, <1>10, <1>12, <1>13, <2>6, <2>12 DEF ReducedDecided
  <2>16. QED
    BY <1>3, <2>13, <2>15 DEF Reduces
<1>11. QED
  BY <1>7, <1>8, <1>9, <1>10

-----------------------------------------------------------------------------
(* Recall.                                                                 *)

(* Rows leave, and those of one node open again: a parent with the         *)
(* sub-tasks that its end had cut off.                                     *)
TakenBack(f, rows, ans, n, gone, back, unsaid, S, r, ans2) ==
  /\ n \in NodesOf(f)
  /\ \A j \in DOMAIN rows : rows[j].parent \in gone => j \in gone
  /\ \A k : k \in S <=> k \in DOMAIN ans /\ ans[k] \notin unsaid
  /\ Places(S)
  /\ ans2 \in Seq(Id)
  /\ IsInjective(ans2)
  /\ \A k \in 1..Len(ans2) : Nth(S, k) \in S /\ Rank(S, Nth(S, k)) = k /\ ans2[k] = ans[Nth(S, k)]
  /\ \A b \in 0..Len(ans) : Rank(S, b) \in 0..Len(ans2)
  /\ \A j : j \in ToSet(ans2) <=> j \in ToSet(ans) /\ j \notin unsaid
  /\ \A j : j \in DOMAIN r <=> j \in DOMAIN rows /\ j \notin gone
  /\ \A j \in unsaid : j \in gone \/ j \in back
  /\ \A j \in gone : j \in DOMAIN rows /\ rows[j].status = "completed" => j \in unsaid
  /\ \A j \in back : /\ j \in DOMAIN r /\ rows[j].node = n /\ rows[j].closedBy = NoId
                     /\ rows[j].status = "completed" => j \in unsaid
  /\ \A j \in DOMAIN r :
       /\ r[j] \in Row(rows[j].node)
       /\ r[j].node = rows[j].node /\ r[j].parent = rows[j].parent
       /\ r[j].fallback = rows[j].fallback /\ r[j].claimed = rows[j].claimed
       /\ r[j].assignee = rows[j].assignee /\ r[j].owner = rows[j].owner
       /\ r[j].born = Rank(S, rows[j].born)
       /\ r[j].closedBy = rows[j].closedBy \/ r[j].closedBy = NoId
       /\ j \in back => r[j].status = "active" /\ r[j].reason = "none"
       /\ j \notin back => r[j].status = rows[j].status /\ r[j].reason = rows[j].reason
       /\ PlaceOf(f, rows[j].node) <= PlaceOf(f, n)
       /\ Opened(r[j]) => rows[j].node = n
       /\ rows[j].node = n /\ rows[j].parent = NoId => r[j].status # "completed"
  /\ back # {} =>
       /\ ~OrSigned(f, n)
       /\ \A j \in DOMAIN r : rows[j].parent \in back /\ rows[j].status = "terminated" => j \in back

(* This keeps the rows right. *)
LEMMA TakeBack ==
  ASSUME NEW f \in Flows,
         NEW rows,
         NEW ans,
         RowInv(f, rows, ans),
         NEW n,
         NEW gone,
         NEW back,
         NEW unsaid,
         NEW r,
         NEW ans2,
         NEW S,
         TakenBack(f, rows, ans, n, gone, back, unsaid, S, r, ans2)
  PROVE  RowInv(f, r, ans2)
<1>. USE DEF TakenBack
<1>1. DOMAIN r \subseteq DOMAIN rows
  OBVIOUS
<1>2. \A j \in DOMAIN r : j \notin back => (Opened(r[j]) <=> Opened(rows[j]))
  BY DEF Opened
<1>3. \A j \in DOMAIN rows : rows[j].born \in Nat
  BY RowFields DEF RowInv, Typed
<1>4. Typed(f, r, ans2)
  <2>1. \A j \in Id : j \in ToSet(ans) <=> j \in DOMAIN rows /\ rows[j].status = "completed"
    BY DEF RowInv, Typed
  <2>2. DOMAIN r \subseteq Id /\ \A j \in DOMAIN r : r[j] \in Row(r[j].node) /\ r[j].node \in NodesOf(f)
    BY DEF RowInv, Typed
  <2>3. ASSUME NEW j \in Id
        PROVE  j \in ToSet(ans2) <=> j \in DOMAIN r /\ r[j].status = "completed"
    <3>1. j \in ToSet(ans2) <=> j \in DOMAIN rows /\ rows[j].status = "completed" /\ j \notin unsaid
      BY <2>1
    <3>2. CASE j \in back
      BY <3>1, <3>2
    <3>3. CASE j \notin back
      BY <3>1, <3>3
    <3>4. QED
      BY <3>2, <3>3
  <2>4. QED
    BY <2>2, <2>3 DEF Typed
<1>5. \A j \in DOMAIN r : r[j].parent # NoId =>
        r[j].parent \in DOMAIN r /\ rows[j].parent \in DOMAIN rows
  BY DEF RowInv, Family
<1>6. Family(f, r)
  <2>1. SUFFICES ASSUME NEW j \in DOMAIN r, r[j].parent # NoId, NEW p, p = r[j].parent
                 PROVE  /\ ~OrSigned(f, r[j].node)
                        /\ p \in DOMAIN r
                        /\ r[p].parent = NoId
                        /\ r[p].node = r[j].node
                        /\ r[p].born <= r[j].born
    BY DEF Family
  <2>2. /\ ~OrSigned(f, rows[j].node) /\ p \in DOMAIN rows /\ rows[p].parent = NoId
        /\ rows[p].node = rows[j].node /\ rows[p].born <= rows[j].born /\ p \in DOMAIN r
    BY <1>5, <2>1 DEF RowInv, Family
  <2>3. Rank(S, rows[p].born) <= Rank(S, rows[j].born)
    BY <1>1, <1>3, <2>2, RankGrows
  <2>4. QED
    BY <2>2, <2>3
<1>7. LoneMain(f, r)
  <2>1. ASSUME NEW a \in DOMAIN r, NEW b \in DOMAIN r,
               r[a].parent = NoId, r[b].parent = NoId, r[a].node = r[b].node
        PROVE  a = b \/ OrSigned(f, r[a].node)
    BY <1>1, <2>1 DEF RowInv, LoneMain
  <2>2. ASSUME NEW a \in DOMAIN r, NEW b \in DOMAIN r,
               r[a].parent = NoId, r[a].status = "completed", Opened(r[b]), r[a].node = r[b].node
        PROVE  FALSE
    BY <2>2
  <2>3. ASSUME NEW a \in DOMAIN r, NEW b \in DOMAIN r,
               r[a].parent = NoId, r[b].parent = NoId, r[a].node = r[b].node,
               r[a].status = "completed", r[b].status = "completed"
        PROVE  a = b
    BY <1>1, <2>3 DEF RowInv, LoneMain
  <2>4. ASSUME NEW a \in DOMAIN r, NEW b \in DOMAIN r, OrSigned(f, r[a].node), r[a].node = r[b].node, a # b,
               Opened(r[a]), Opened(r[b])
        PROVE  r[a].status = "active" /\ ~r[a].claimed
    <3>1. a \notin back /\ b \notin back
      BY <2>4
    <3>2. QED
      BY <1>1, <1>2, <2>4, <3>1 DEF RowInv, LoneMain
  <2>5. QED
    BY <2>1, <2>2, <2>3, <2>4 DEF LoneMain
<1>8. Claims(f, r)
  <2>1. SUFFICES ASSUME NEW j \in DOMAIN r
        PROVE  /\ r[j].status = "pending" => r[j].assignee = Nobody
               /\ r[j].closedBy # NoId =>
                    /\ ~OrSigned(f, r[j].node)
                    /\ r[j].assignee = Nobody
                    /\ r[j].status = "terminated" \/ (r[j].parent = NoId /\ r[j].status = "completed")
               /\ r[j].parent = NoId /\ r[j].status = "terminated" /\ ~OrSigned(f, r[j].node)
                    => r[j].assignee = Nobody
               /\ r[j].fallback => AskedBy(f, r[j].node) = <<>>
    BY DEF Claims
  <2>2. CASE j \in back
    BY <1>1, <2>2 DEF RowInv, Claims
  <2>3. CASE j \notin back
    BY <1>1, <2>3 DEF RowInv, Claims
  <2>4. QED
    BY <2>2, <2>3
<1>9. Ends(f, r, ans2)
  <2>1. Ends(f, rows, ans)
    BY DEF RowInv
  <2>2. Len(ans) \in Nat /\ DOMAIN ans = 1..Len(ans) /\ DOMAIN ans2 = 1..Len(ans2) /\ Len(ans2) \in Nat
    BY LenProperties DEF RowInv, Typed
  <2>3. \A k \in DOMAIN ans : ans[k] \in DOMAIN rows /\ rows[ans[k]].status = "completed"
    <3>1. \A k \in DOMAIN ans : ans[k] \in Id /\ ans[k] \in ToSet(ans)
      BY ElementOfSeq, <2>2 DEF RowInv, Typed, ToSet
    <3>2. QED
      BY <3>1 DEF RowInv, Typed
  <2>4. S \subseteq DOMAIN ans /\ \A k \in S : ans[k] \in DOMAIN r
    BY <2>3
  <2>5. \A j \in DOMAIN r : r[j].node = rows[j].node /\ rows[j].born \in Nat /\ r[j].born = Rank(S, rows[j].born)
    BY <1>1, <1>3
  <2>6. /\ Places(S) /\ S \subseteq DOMAIN ans /\ Len(ans2) \in Nat
        /\ \A k \in 1..Len(ans2) : Nth(S, k) \in S /\ Rank(S, Nth(S, k)) = k /\ ans2[k] = ans[Nth(S, k)]
        /\ \A b \in 0..Len(ans) : Rank(S, b) \in 0..Len(ans2)
        /\ DOMAIN r \subseteq DOMAIN rows
    BY <1>1, <2>2, <2>4
  <2>7. Older(rows, ans, S, r, ans2)
    BY <2>2, <2>3, <2>4, <2>5, <2>6 DEF Older
  <2>. HIDE DEF TakenBack
  <2>8. QED
    BY <2>1, <2>7, KeptEnds
<1>10. Cut(r)
  BY <1>1 DEF RowInv, Cut
<1>11. Recallable(f, r)
  <2>1. SUFFICES ASSUME "Recall" \in f.uses, NEW j \in DOMAIN r
                 PROVE  /\ r[j].closedBy = NoId
                        /\ r[j].parent # NoId => VoteNode(f, r[j].node) /\ r[j].status # "pending" /\ ~r[j].claimed
                        /\ Aggregate(f, r, j) => r[j].assignee = Nobody /\ r[j].owner = Nobody /\ r[j].status # "pending"
                        /\ r[j].status = "terminated" /\ ~OrSigned(f, r[j].node) =>
                             /\ r[j].parent # NoId
                             /\ r[j].reason = "threshold"
                             /\ r[r[j].parent].status = "completed"
    BY DEF Recallable
  <2>2. Aggregate(f, r, j) => Aggregate(f, rows, j)
    BY <1>1 DEF Aggregate
  <2>3. /\ rows[j].closedBy = NoId
        /\ rows[j].parent # NoId => VoteNode(f, rows[j].node) /\ rows[j].status # "pending" /\ ~rows[j].claimed
        /\ Aggregate(f, rows, j) => rows[j].assignee = Nobody /\ rows[j].owner = Nobody /\ rows[j].status # "pending"
        /\ rows[j].status = "terminated" /\ ~OrSigned(f, rows[j].node) =>
             /\ rows[j].parent # NoId
             /\ rows[j].reason = "threshold"
             /\ rows[rows[j].parent].status = "completed"
    BY <1>1, <2>1 DEF RowInv, Recallable
  <2>4. CASE j \in back
    BY <2>2, <2>3, <2>4
  <2>5. CASE j \notin back
    <3>1. r[j].status = "terminated" /\ rows[j].parent # NoId => rows[j].parent \notin back /\ rows[j].parent \in DOMAIN r
      BY <1>5, <2>5
    <3>2. QED
      BY <2>2, <2>3, <2>5, <3>1
  <2>6. QED
    BY <2>4, <2>5
<1>12. OneNode(f, r)
  <2>1. ASSUME NEW i \in DOMAIN r, NEW j \in DOMAIN r, Opened(r[j])
        PROVE  /\ PlaceOf(f, r[i].node) <= PlaceOf(f, r[j].node)
               /\ Opened(r[i]) => r[i].node = r[j].node
    BY <2>1
  <2>2. QED
    BY <2>1 DEF OneNode
<1>13. QED
  BY <1>4, <1>6, <1>7, <1>8, <1>9, <1>10, <1>11, <1>12 DEF RowInv

(* The place of an answer in the order. *)
LEMMA EndPlace ==
  ASSUME DeskInv, NEW i \in Ids, Completed(i)
  PROVE  /\ EndOf(i) \in DOMAIN answered /\ answered[EndOf(i)] = i /\ EndOf(i) \in Nat
         /\ task[i].born < EndOf(i)
<1>1. RowInv(def, task, answered) /\ Ids = DOMAIN task /\ i \in Id
  BY DEF DeskInv, Ids, RowInv, Typed
<1>2. i \in ToSet(answered)
  BY <1>1 DEF RowInv, Typed, Completed
<1>3. \E k \in DOMAIN answered : answered[k] = i
  BY <1>2 DEF ToSet
<1>4. EndOf(i) \in DOMAIN answered /\ answered[EndOf(i)] = i
  BY <1>3 DEF EndOf
<1>5. DOMAIN answered = 1..Len(answered) /\ Len(answered) \in Nat
  BY <1>1, LenProperties DEF RowInv, Typed
<1>6. task[answered[EndOf(i)]].born < EndOf(i)
  BY <1>1, <1>4 DEF RowInv, Ends
<1>7. QED
  BY <1>4, <1>5, <1>6

(* An answer is never older than a row of a later node. *)
LEMMA EndBefore ==
  ASSUME DeskInv, NEW i \in Ids, Completed(i), NEW j \in Ids,
         PlaceOf(def, task[i].node) < PlaceOf(def, task[j].node)
  PROVE  EndOf(i) <= task[j].born
<1>1. RowInv(def, task, answered) /\ Ids = DOMAIN task
  BY DEF DeskInv, Ids
<1>2. EndOf(i) \in DOMAIN answered /\ answered[EndOf(i)] = i
  BY EndPlace
<1>3. QED
  BY <1>1, <1>2 DEF RowInv, Ends

(* A row whose answer can be recalled. *)
CanRecall(t) == /\ t \in Ids /\ Completed(t) /\ task[t].assignee \in User
                /\ "Recall" \in def.uses
                /\ RecallGuard(t)

(* The recalled task has no sub-tasks, and is not one that is answered by  *)
(* its sub-tasks.                                                          *)
LEMMA RecalledAlone ==
  ASSUME DeskInv, NEW t, CanRecall(t)
  PROVE  /\ \A j \in Ids : task[j].parent # t
         /\ ~Aggregate(def, task, t)
<1>1. /\ RowInv(def, task, answered) /\ Ids = DOMAIN task /\ t \in Ids /\ task[t].assignee \in User
      /\ "Recall" \in def.uses
  BY DEF DeskInv, Ids, CanRecall
<1>2. t # NoId
  BY <1>1, RowBounds DEF RowInv, Typed, NoId, Id
<1>3. ~Aggregate(def, task, t)
  BY <1>1, OrganisationAssumption DEF RowInv, Recallable
<1>4. ASSUME NEW j \in Ids, task[j].parent = t PROVE FALSE
  <2>1. task[t].parent = NoId
    BY <1>1, <1>2, <1>4 DEF RowInv, Family
  <2>2. QED
    BY <1>1, <1>3, <1>4, <2>1 DEF Aggregate
<1>5. QED
  BY <1>3, <1>4

(* A vote that is recalled while its node is being worked on. *)
LEMMA RecallHere ==
  ASSUME DeskInv, NEW t, CanRecall(t), NEW o \in Ids, Opened(task[o]), task[o].node = task[t].node
  PROVE  /\ task[t].parent # NoId
         /\ ~Completed(task[t].parent)
         /\ Reopened(t) = {} /\ CutOff(t) = {} /\ Frontier(t) = {}
<1>. DEFINE p == task[t].parent
            n == task[t].node
<1>1. /\ RowInv(def, task, answered) /\ Ids = DOMAIN task /\ t \in Ids /\ Completed(t)
      /\ \A x \in Ids : Open(x) <=> Opened(task[x])
  BY DEF DeskInv, Ids, CanRecall, Open, Opened
<1>2. p # NoId
  BY <1>1 DEF RowInv, LoneMain, Completed
<1>3. /\ p \in Ids /\ task[p].parent = NoId /\ task[p].node = n /\ ~OrSigned(def, n)
      /\ task[p].born <= task[t].born
  BY <1>1, <1>2 DEF RowInv, Family
<1>4. ~Completed(p)
  BY <1>1, <1>3 DEF RowInv, LoneMain, Completed
<1>5. Reopened(t) = {} /\ CutOff(t) = {}
  BY <1>4 DEF Reopened, CutOff
<1>6. p \notin Late(t)
  <2>1. task[t].born < EndOf(t) /\ EndOf(t) \in Nat
    BY <1>1, EndPlace
  <2>2. task[p].born \in Nat /\ task[t].born \in Nat
    BY <1>1, <1>3, RowFields DEF RowInv, Typed
  <2>3. task[p].born < EndOf(t)
    BY <1>3, <2>1, <2>2
  <2>4. QED
    BY <2>1, <2>2, <2>3 DEF Late
<1>7. ASSUME NEW x \in Late(t)
      PROVE  task[x].parent \in Ids \ Late(t) /\ task[task[x].parent].node = n
  <2>1. x \in Ids /\ Opened(task[x]) /\ task[x].node = n
    BY <1>1 DEF Late, RowInv, OneNode
  <2>2. CASE task[x].parent = NoId
    <3>1. x = p
      BY <1>1, <1>3, <2>1, <2>2 DEF RowInv, LoneMain
    <3>2. QED
      BY <1>6, <3>1
  <2>3. CASE task[x].parent # NoId
    <3>1. PICK q : q = task[x].parent
      OBVIOUS
    <3>2. q \in Ids /\ task[q].parent = NoId /\ task[q].node = n
      BY <1>1, <2>1, <2>3, <3>1 DEF RowInv, Family
    <3>3. q = p
      BY <1>1, <1>3, <3>2 DEF RowInv, LoneMain
    <3>4. QED
      BY <1>3, <1>6, <3>1, <3>3
  <2>4. QED
    BY <2>2, <2>3
<1>8. Frontier(t) = {}
  BY <1>7 DEF Frontier
<1>9. QED
  BY <1>2, <1>4, <1>5, <1>8

(* An answer that is recalled while a later node is being worked on. *)
LEMMA RecallLater ==
  ASSUME DeskInv, NEW t, CanRecall(t), NEW o \in Ids, Opened(task[o]), task[o].node # task[t].node
  PROVE  /\ \A x : x \in Frontier(t) <=> x \in Ids /\ Opened(task[x])
         /\ \A x \in Frontier(t) : task[x].node # task[t].node
         /\ \A j \in Ids : ~Opened(task[j]) => PlaceOf(def, task[j].node) <= PlaceOf(def, task[t].node)
         /\ \A j \in Ids : task[j].parent \in Frontier(t) => j \in Frontier(t)
<1>. DEFINE n == task[t].node
            N == task[o].node
<1>1. /\ def \in Flows /\ RowInv(def, task, answered) /\ Ids = DOMAIN task /\ t \in Ids /\ Completed(t)
      /\ "Recall" \in def.uses /\ Apart(def)
      /\ \A x \in Ids : Open(x) <=> Opened(task[x])
  BY DEF DeskInv, DriveTyped, Ids, CanRecall, Open, Opened
<1>2. \A j \in Ids : /\ task[j].node \in NodesOf(def) /\ PlaceOf(def, task[j].node) \in Nat
                     /\ PlaceOf(def, task[j].node) <= PlaceOf(def, N)
                     /\ Opened(task[j]) => task[j].node = N
  BY <1>1, PlaceType DEF RowInv, Typed, OneNode
<1>3. PlaceOf(def, n) < PlaceOf(def, N)
  <2>1. PlaceOf(def, n) <= PlaceOf(def, N) /\ PlaceOf(def, n) \in Nat /\ PlaceOf(def, N) \in Nat
    BY <1>1, <1>2
  <2>2. PlaceOf(def, n) # PlaceOf(def, N)
    BY <1>1, <1>2, PlaceOne
  <2>3. QED
    BY <2>1, <2>2
<1>. HIDE DEF n, N
<1>4. ASSUME NEW x \in Ids, Opened(task[x]) PROVE x \in Frontier(t)
  <2>1. task[x].node = N /\ N # n
    BY <1>2, <1>4 DEF N, n
  <2>2. EndOf(t) <= task[x].born
    BY <1>1, <1>3, <2>1, EndBefore DEF n
  <2>3. task[x].born \in Nat /\ EndOf(t) \in Nat
    BY <1>1, RowFields, EndPlace DEF RowInv, Typed
  <2>4. x \in Late(t)
    BY <1>1, <1>4, <2>2, <2>3 DEF Late
  <2>5. task[x].parent \in Ids => task[task[x].parent].node = N
    <3>1. task[x].parent \in Ids => task[x].parent # NoId
      BY <1>1, RowBounds DEF RowInv, Typed, NoId, Id
    <3>2. QED
      BY <1>1, <2>1, <3>1 DEF RowInv, Family
  <2>6. QED
    BY <2>1, <2>4, <2>5 DEF Frontier, n
<1>5. \A x : x \in Frontier(t) => x \in Ids /\ Opened(task[x])
  BY <1>1 DEF Frontier, Late
<1>6. \A x \in Frontier(t) : task[x].node = N /\ N # n
  BY <1>2, <1>5 DEF N, n
<1>7. ASSUME NEW j \in Ids, ~Opened(task[j]), PlaceOf(def, n) < PlaceOf(def, task[j].node) PROVE FALSE
  <2>1. EndOf(t) <= task[j].born
    BY <1>1, <1>7, EndBefore DEF n
  <2>2. task[j].born \in Nat /\ EndOf(t) \in Nat /\ task[j].status \in RowStatus
    BY <1>1, RowFields, EndPlace DEF RowInv, Typed
  <2>3. task[j].node # n
    BY <1>2, <1>7 DEF n
  <2>4. \A x \in Ids : Completed(x) /\ EndOf(x) > EndOf(t) => task[x].node = n
    <3>1. ASSUME NEW x \in Ids, Completed(x), EndOf(x) > EndOf(t) PROVE task[x].node = n
      <4>1. x # t
        BY <2>2, <3>1
      <4>2. /\ task[t].parent # NoId
            /\ x = task[t].parent \/ task[x].parent = task[t].parent
        BY <3>1, <4>1 DEF CanRecall, RecallGuard, InSameCountersignRound
      <4>3. QED
        BY <1>1, <3>1, <4>2 DEF RowInv, Family, n
    <3>2. QED
      BY <3>1
  <2>5. \A x \in Ids : Completed(x) /\ task[x].node = task[j].node => FALSE
    <3>1. SUFFICES ASSUME NEW x \in Ids, Completed(x), task[x].node = task[j].node PROVE FALSE
      OBVIOUS
    <3>2. EndOf(t) <= task[x].born
      BY <1>1, <1>7, <3>1, EndBefore DEF n
    <3>3. task[x].born < EndOf(x) /\ EndOf(x) \in Nat /\ task[x].born \in Nat
      BY <1>1, <3>1, RowFields, EndPlace DEF RowInv, Typed
    <3>4. EndOf(x) > EndOf(t)
      BY <2>2, <3>2, <3>3
    <3>5. QED
      BY <2>3, <2>4, <3>1, <3>4
  <2>6. task[j].status = "terminated"
    <3>1. ~Completed(j)
      BY <2>5
    <3>2. QED
      BY <1>7, <2>2, <3>1 DEF Opened, Completed, RowStatus
  <2>7. ~OrSigned(def, task[j].node)
    <3>1. SUFFICES ASSUME OrSigned(def, task[j].node) PROVE FALSE
      OBVIOUS
    <3>2. PICK m : m = task[j].node
      OBVIOUS
    <3>3. m \in NodesOf(def) /\ m = def.nodes[1]
      BY <1>1, <1>2, <3>1, <3>2 DEF Apart, NodesOf, OrSigned
    <3>4. PlaceOf(def, m) = 1
      BY <1>1, <3>3, FlowNodes
    <3>5. PlaceOf(def, n) >= 1 /\ PlaceOf(def, n) \in Nat
      BY <1>1, <1>2, PlaceType DEF n
    <3>6. QED
      BY <1>7, <3>2, <3>4, <3>5
  <2>8. task[j].parent # NoId /\ task[task[j].parent].status = "completed"
    BY <1>1, <2>6, <2>7 DEF RowInv, Recallable
  <2>9. task[j].parent \in Ids /\ task[task[j].parent].node = task[j].node
    BY <1>1, <2>8 DEF RowInv, Family
  <2>10. QED
    BY <2>5, <2>8, <2>9 DEF Completed
<1>8. \A j \in Ids : ~Opened(task[j]) => PlaceOf(def, task[j].node) <= PlaceOf(def, n)
  BY <1>1, <1>2, <1>7 DEF n
<1>9. ASSUME NEW j \in Ids, task[j].parent \in Frontier(t) PROVE j \in Frontier(t)
  <2>1. PICK q : q = task[j].parent
    OBVIOUS
  <2>2. q \in Ids /\ task[q].node = N
    BY <1>5, <1>6, <1>9, <2>1
  <2>3. q # NoId
    BY <1>1, <2>2, RowBounds DEF RowInv, Typed, NoId, Id
  <2>4. task[j].node = N
    BY <1>1, <2>1, <2>2, <2>3 DEF RowInv, Family
  <2>5. Opened(task[j])
    BY <1>1, <1>2, <1>3, <1>8, <2>4 DEF n, N
  <2>6. QED
    BY <1>4, <2>5
<1>10. QED
  BY <1>4, <1>5, <1>6, <1>8, <1>9 DEF n

(* The rows that a recall of t takes away, those it opens again, and those *)
(* whose answers it takes back.                                            *)
Recalls(t, n) == CanRecall(t) /\ n = task[t].node
GoneBy(t) == Frontier(t) \cup {t}
BackBy(t) == Reopened(t) \cup CutOff(t)
UnsaidBy(t) == {t} \cup Reopened(t)

(* Row w after a recall, open again if b. *)
TookBack(x, w, b, S) ==
  /\ x \in Row(w.node)
  /\ x.node = w.node /\ x.parent = w.parent
  /\ x.fallback = w.fallback /\ x.claimed = w.claimed
  /\ x.assignee = w.assignee /\ x.owner = w.owner /\ x.pool = w.pool
  /\ x.born = Rank(S, w.born)
  /\ x.closedBy = w.closedBy \/ x.closedBy = NoId
  /\ b => x.status = "active" /\ x.reason = "none"
  /\ ~b => x.status = w.status /\ x.reason = w.reason
RowsTookBack(r, gone, back, S) ==
  /\ \A j : j \in DOMAIN r <=> j \in Ids /\ j \notin gone
  /\ \A j \in DOMAIN r : TookBack(r[j], task[j], j \in back, S)

(* The rows that a recall opens again. *)
LEMMA BackRows ==
  ASSUME DeskInv, NEW t, NEW n, Recalls(t, n)
  PROVE  /\ \A j \in BackBy(t) : /\ j \in Ids /\ j # t /\ ~Opened(task[j])
                                 /\ task[j].node = n /\ task[j].closedBy = NoId
                                 /\ task[j].status = "completed" => j \in Reopened(t)
                                 /\ ~(task[j].status = "completed" /\ task[j].reason = "threshold")
         /\ BackBy(t) # {} =>
              /\ task[t].parent # NoId /\ ~OrSigned(def, n)
              /\ \A j \in Ids : task[j].parent \in BackBy(t) /\ task[j].status = "terminated" => j \in BackBy(t)
         /\ t \notin Reopened(t)
         /\ Reopened(t) \subseteq BackBy(t)
<1>. USE DEF Recalls, GoneBy, BackBy
<1>1. /\ RowInv(def, task, answered) /\ Ids = DOMAIN task /\ t \in Ids /\ Completed(t)
      /\ "Recall" \in def.uses /\ task[t].node = n
      /\ \A j \in Ids : j # NoId
  BY RowBounds DEF DeskInv, Ids, CanRecall, RowInv, Typed, NoId, Id
<1>2. PICK p : p = task[t].parent
  OBVIOUS
<1>3. \A j : j \in Reopened(t) <=> j = p /\ p \in Ids /\ Completed(p)
  BY <1>2 DEF Reopened
<1>4. p # NoId => /\ p \in Ids /\ task[p].parent = NoId /\ task[p].node = n /\ ~OrSigned(def, n) /\ p # t
  BY <1>1, <1>2 DEF RowInv, Family
<1>5. \A x : x \in CutOff(t) <=> /\ x \in Ids /\ p \in Ids /\ Completed(p)
                                 /\ task[x].parent = p /\ task[x].reason = "threshold"
  BY <1>2, <1>3 DEF CutOff
<1>6. \A x \in CutOff(t) : task[x].status = "terminated" /\ task[x].node = n /\ x # t
  BY <1>1, <1>4, <1>5 DEF RowInv, Cut, Family, Completed
<1>7. /\ BackBy(t) # {} => p # NoId /\ p \in Reopened(t)
      /\ \A j : j \in BackBy(t) <=> j \in Reopened(t) \/ j \in CutOff(t)
  BY <1>1, <1>3, <1>5
<1>. HIDE DEF BackBy
<1>8. \A j \in Ids : task[j].closedBy = NoId
  BY <1>1 DEF RowInv, Recallable
<1>9. \A j \in BackBy(t) : /\ j \in Ids /\ j # t /\ ~Opened(task[j]) /\ task[j].node = n
                           /\ task[j].status = "completed" => j \in Reopened(t)
                           /\ ~(task[j].status = "completed" /\ task[j].reason = "threshold")
  <2>1. p \in Reopened(t) => p # NoId
    BY <1>1, <1>3
  <2>2. task[p].status = "completed" /\ p \in Ids => task[p].reason # "threshold"
    BY <1>1 DEF RowInv, Cut
  <2>3. QED
    BY <1>3, <1>4, <1>5, <1>6, <1>7, <2>1, <2>2 DEF Opened, Completed
<1>10. ASSUME BackBy(t) # {}, NEW j \in Ids, task[j].parent \in BackBy(t), task[j].status = "terminated" PROVE j \in BackBy(t)
  <2>1. PICK q : q = task[j].parent
    OBVIOUS
  <2>2. q \in Ids /\ q # NoId
    BY <1>1, <1>9, <1>10, <2>1
  <2>3. task[q].parent = NoId /\ task[j].node = n
    BY <1>1, <1>9, <1>10, <2>1, <2>2 DEF RowInv, Family
  <2>4. q = p
    BY <1>3, <1>5, <1>7, <1>10, <2>1, <2>3
  <2>5. task[j].reason = "threshold"
    BY <1>1, <1>4, <1>7, <1>10, <2>3 DEF RowInv, Recallable
  <2>6. QED
    BY <1>3, <1>5, <1>7, <1>10, <2>1, <2>4, <2>5
<1>11. t \notin Reopened(t)
  BY <1>1, <1>3, <1>4
<1>12. QED
  BY <1>2, <1>4, <1>7, <1>8, <1>9, <1>10, <1>11

(* What a recall leaves of the rows, before the recalled task is there     *)
(* again.                                                                  *)
LEMMA RecallLeaves ==
  ASSUME DeskInv, NEW t, NEW n, Recalls(t, n), NEW j \in Ids, j \notin GoneBy(t)
  PROVE  /\ PlaceOf(def, task[j].node) <= PlaceOf(def, n)
         /\ Opened(task[j]) => task[j].node = n
         /\ task[j].node = n /\ task[j].parent = NoId /\ task[j].status = "completed" => j \in BackBy(t)
         /\ task[t].parent = NoId => ~Opened(task[j])
         /\ task[j].parent \notin GoneBy(t)
<1>. USE DEF Recalls, GoneBy, BackBy
<1>1. /\ RowInv(def, task, answered) /\ Ids = DOMAIN task /\ t \in Ids /\ Completed(t)
      /\ "Recall" \in def.uses /\ task[t].node = n
      /\ \A i \in Ids : i # NoId
  BY RowBounds DEF DeskInv, Ids, CanRecall, RowInv, Typed, NoId, Id
<1>2. PICK o \in Ids : Opened(task[o])
  BY DEF CanRecall, RecallGuard, Open, Opened
<1>3. CASE task[o].node = n
  <2>1. /\ task[t].parent # NoId /\ Frontier(t) = {}
    BY <1>1, <1>2, <1>3, RecallHere
  <2>2. /\ PlaceOf(def, task[j].node) <= PlaceOf(def, n)
        /\ Opened(task[j]) => task[j].node = n
    BY <1>1, <1>2, <1>3 DEF RowInv, OneNode
  <2>3. ~(task[j].node = n /\ task[j].parent = NoId /\ task[j].status = "completed")
    BY <1>1, <1>2, <1>3 DEF RowInv, LoneMain
  <2>4. task[j].parent \notin GoneBy(t)
    BY <2>1, RecalledAlone
  <2>5. QED
    BY <2>1, <2>2, <2>3, <2>4
<1>4. CASE task[o].node # n
  <2>1. /\ \A x : x \in Frontier(t) <=> x \in Ids /\ Opened(task[x])
        /\ \A i \in Ids : ~Opened(task[i]) => PlaceOf(def, task[i].node) <= PlaceOf(def, n)
        /\ \A i \in Ids : task[i].parent \in Frontier(t) => i \in Frontier(t)
    BY <1>1, <1>2, <1>4, RecallLater
  <2>2. ~Opened(task[j]) /\ PlaceOf(def, task[j].node) <= PlaceOf(def, n) /\ j # t
    BY <2>1
  <2>3. task[j].parent \notin GoneBy(t)
    BY <2>1, RecalledAlone
  <2>4. ASSUME task[j].node = n, task[j].parent = NoId, task[j].status = "completed" PROVE j \in BackBy(t)
    <3>1. CASE task[t].parent = NoId
      BY <1>1, <2>2, <2>4, <3>1 DEF RowInv, LoneMain, Completed
    <3>2. CASE task[t].parent # NoId
      <4>1. PICK p : p = task[t].parent
        OBVIOUS
      <4>2. p \in Ids /\ task[p].parent = NoId /\ task[p].node = n /\ ~OrSigned(def, n)
        BY <1>1, <3>2, <4>1 DEF RowInv, Family
      <4>3. j = p
        BY <1>1, <2>4, <4>2 DEF RowInv, LoneMain
      <4>4. QED
        BY <2>4, <4>1, <4>3 DEF Reopened, Completed
    <3>3. QED
      BY <3>1, <3>2
  <2>5. QED
    BY <2>2, <2>3, <2>4
<1>5. QED
  BY <1>3, <1>4

(* The answers that stay when others are taken back. *)
LeftBy(unsaid, S, ans2) ==
  /\ Places(S)
  /\ \A k : k \in S <=> k \in DOMAIN answered /\ answered[k] \notin unsaid
  /\ ans2 \in Seq(Id) /\ IsInjective(ans2)
  /\ \A k \in 1..Len(ans2) : Nth(S, k) \in S /\ Rank(S, Nth(S, k)) = k /\ ans2[k] = answered[Nth(S, k)]
  /\ \A b \in 0..Len(answered) : Earlier(b, unsaid) = Rank(S, b) /\ Rank(S, b) \in 0..Len(ans2) /\ Rank(S, b) <= b
  /\ \A j : j \in ToSet(ans2) <=> j \in ToSet(answered) /\ j \notin unsaid
  /\ Len(ans2) \in Nat /\ Len(ans2) <= Len(answered)

(* A recall leaves such an order of answers. *)
LEMMA AnswersLeft ==
  ASSUME answered \in Seq(Id), IsInjective(answered), NEW unsaid
  PROVE  LeftBy(unsaid, Staying(unsaid), Unanswer(unsaid))
<1>1. PICK S, C, n, ans2 : /\ S = Staying(unsaid) /\ C = Cardinality(S) /\ n = Len(answered)
                           /\ ans2 = Unanswer(unsaid)
  OBVIOUS
<1>2. n \in Nat
  BY <1>1, LenProperties
<1>3. /\ C \in Nat /\ C <= n /\ Places(S)
      /\ ans2 \in Seq(Id) /\ Len(ans2) = C /\ IsInjective(ans2)
      /\ \A k \in 1..C : Nth(S, k) \in S /\ Rank(S, Nth(S, k)) = k
                          /\ ans2[k] = answered[Nth(S, k)]
      /\ \A b \in 0..n : Earlier(b, unsaid) = Rank(S, b) /\ Rank(S, b) \in 0..C /\ Rank(S, b) <= b
      /\ ToSet(ans2) = ToSet(answered) \ unsaid
  BY <1>1, <1>2, KeptAnswers
<1>4. \A k : k \in S <=> k \in DOMAIN answered /\ answered[k] \notin unsaid
  BY <1>1 DEF Staying
<1>5. QED
  BY <1>1, <1>3, <1>4 DEF LeftBy

(* A recall takes rows back as TakeBack wants them taken back. *)
LEMMA RecallTakesBack ==
  ASSUME DeskInv, NEW t, NEW n, Recalls(t, n),
         NEW S, NEW ans2, LeftBy(UnsaidBy(t), S, ans2),
         NEW r, RowsTookBack(r, GoneBy(t), BackBy(t), S)
  PROVE  TakenBack(def, task, answered, n, GoneBy(t), BackBy(t), UnsaidBy(t), S, r, ans2)
<1>1. /\ RowInv(def, task, answered) /\ Ids = DOMAIN task /\ t \in Ids /\ Completed(t)
      /\ answered \in Seq(Id) /\ IsInjective(answered) /\ n \in NodesOf(def)
      /\ \A j : j \in GoneBy(t) <=> j \in Frontier(t) \/ j = t
      /\ \A j : j \in UnsaidBy(t) <=> j \in Reopened(t) \/ j = t
  BY DEF DeskInv, Ids, Recalls, CanRecall, RowInv, Typed, GoneBy, UnsaidBy
<1>2. /\ Places(S)
      /\ \A k : k \in S <=> k \in DOMAIN answered /\ answered[k] \notin UnsaidBy(t)
      /\ ans2 \in Seq(Id) /\ IsInjective(ans2)
      /\ \A k \in 1..Len(ans2) : Nth(S, k) \in S /\ Rank(S, Nth(S, k)) = k /\ ans2[k] = answered[Nth(S, k)]
      /\ \A b \in 0..Len(answered) : Rank(S, b) \in 0..Len(ans2)
      /\ \A j : j \in ToSet(ans2) <=> j \in ToSet(answered) /\ j \notin UnsaidBy(t)
  BY DEF LeftBy
<1>3. /\ \A j \in BackBy(t) : /\ j \in Ids /\ j # t /\ ~Opened(task[j])
                              /\ task[j].node = n /\ task[j].closedBy = NoId
                              /\ task[j].status = "completed" => j \in Reopened(t)
      /\ BackBy(t) # {} =>
           /\ ~OrSigned(def, n)
           /\ \A j \in Ids : task[j].parent \in BackBy(t) /\ task[j].status = "terminated" => j \in BackBy(t)
      /\ t \notin Reopened(t)
      /\ Reopened(t) \subseteq BackBy(t)
  BY BackRows
<1>4. \A x \in Frontier(t) : x \in Ids /\ Opened(task[x])
  BY DEF Frontier, Late, Open, Opened
<1>5. \A j \in Ids : j \notin GoneBy(t) =>
        /\ PlaceOf(def, task[j].node) <= PlaceOf(def, n)
        /\ Opened(task[j]) => task[j].node = n
        /\ task[j].node = n /\ task[j].parent = NoId /\ task[j].status = "completed" => j \in BackBy(t)
        /\ task[j].parent \notin GoneBy(t)
  BY RecallLeaves
<1>6. /\ \A j : j \in DOMAIN r <=> j \in DOMAIN task /\ j \notin GoneBy(t)
      /\ \A j \in DOMAIN r : TookBack(r[j], task[j], j \in BackBy(t), S)
  BY <1>1 DEF RowsTookBack
<1>7. \A j \in UnsaidBy(t) : j \in GoneBy(t) \/ j \in BackBy(t)
  BY <1>1, <1>3
<1>8. \A j \in GoneBy(t) : j \in DOMAIN task /\ task[j].status = "completed" => j \in UnsaidBy(t)
  BY <1>1, <1>4 DEF Opened
<1>9. \A j \in BackBy(t) : j \notin GoneBy(t) /\ (task[j].status = "completed" => j \in UnsaidBy(t))
  BY <1>1, <1>3, <1>4
<1>. DEFINE R(j) == /\ PlaceOf(def, task[j].node) <= PlaceOf(def, n)
                    /\ Opened(r[j]) => task[j].node = n
                    /\ task[j].node = n /\ task[j].parent = NoId => r[j].status # "completed"
<1>10. ASSUME NEW j \in DOMAIN r PROVE R(j)
  <2>1. j \in Ids /\ j \notin GoneBy(t) /\ TookBack(r[j], task[j], j \in BackBy(t), S)
    BY <1>1, <1>6
  <2>2. CASE j \in BackBy(t)
    BY <1>3, <1>5, <2>1, <2>2 DEF TookBack
  <2>3. CASE j \notin BackBy(t)
    <3>1. r[j].status = task[j].status
      BY <2>1, <2>3 DEF TookBack
    <3>2. QED
      BY <1>5, <2>1, <2>3, <3>1 DEF Opened
  <2>4. QED
    BY <2>2, <2>3
<1>11. \A j \in DOMAIN task : task[j].parent \in GoneBy(t) => j \in GoneBy(t)
  BY <1>1, <1>5
<1>12. \A j \in BackBy(t) : j \in DOMAIN r
  BY <1>1, <1>3, <1>6, <1>9
<1>13. \A j \in DOMAIN r :
       /\ r[j] \in Row(task[j].node)
       /\ r[j].node = task[j].node /\ r[j].parent = task[j].parent
       /\ r[j].fallback = task[j].fallback /\ r[j].claimed = task[j].claimed
       /\ r[j].assignee = task[j].assignee /\ r[j].owner = task[j].owner
       /\ r[j].born = Rank(S, task[j].born)
       /\ r[j].closedBy = task[j].closedBy \/ r[j].closedBy = NoId
       /\ j \in BackBy(t) => r[j].status = "active" /\ r[j].reason = "none"
       /\ j \notin BackBy(t) => r[j].status = task[j].status /\ r[j].reason = task[j].reason
  BY <1>6 DEF TookBack
<1>14. BackBy(t) # {} =>
         /\ ~OrSigned(def, n)
         /\ \A j \in DOMAIN r : task[j].parent \in BackBy(t) /\ task[j].status = "terminated" => j \in BackBy(t)
  BY <1>1, <1>3, <1>6
<1>15. QED
  BY <1>1, <1>2, <1>3, <1>6, <1>7, <1>8, <1>9, <1>10, <1>11, <1>12, <1>13, <1>14 DEF TakenBack

(* The recalled task is open again beside them. *)
RecalledRow(x, t, n, ans2) ==
  /\ x \in Row(n) /\ x.node = n /\ x.parent = task[t].parent /\ x.status = "active"
  /\ x.reason = "none" /\ x.closedBy = NoId /\ x.born = Len(ans2)
  /\ x.fallback = task[t].fallback /\ ~x.claimed
  /\ x.pool = {} /\ x.owner = task[t].owner

(* It is added as AddRows wants rows added. *)
LEMMA RecallAdds ==
  ASSUME DeskInv, NEW t, NEW n, Recalls(t, n),
         NEW S, NEW ans2,
         NEW r, RowsTookBack(r, GoneBy(t), BackBy(t), S),
         NEW w, w \in Id, w \notin Ids, \A j \in Ids : task[j].parent # w,
         NEW rr, \A j : j \in DOMAIN rr <=> j \in DOMAIN r \/ j = w,
         \A j \in DOMAIN r : rr[j] = r[j],
         RecalledRow(rr[w], t, n, ans2)
  PROVE  Added(def, r, ans2, n, {w}, rr)
<1>1. /\ RowInv(def, task, answered) /\ Ids = DOMAIN task /\ t \in Ids /\ Completed(t)
      /\ n \in NodesOf(def) /\ def \in Flows /\ CanRecall(t) /\ task[t].node = n
      /\ \A j \in Ids : j # NoId
      /\ w # NoId
      /\ \A j : j \in GoneBy(t) <=> j \in Frontier(t) \/ j = t
  BY RowBounds DEF DeskInv, DriveTyped, Ids, Recalls, CanRecall, RowInv, Typed, NoId, Id, GoneBy
<1>2. PICK p : p = task[t].parent
  OBVIOUS
<1>3. /\ \A j \in BackBy(t) : j \in Ids /\ j # t /\ ~Opened(task[j]) /\ task[j].node = n
      /\ BackBy(t) # {} => p # NoId
  BY <1>2, BackRows
<1>4. \A j \in Ids : j \notin GoneBy(t) =>
        /\ PlaceOf(def, task[j].node) <= PlaceOf(def, n)
        /\ Opened(task[j]) => task[j].node = n
        /\ task[j].node = n /\ task[j].parent = NoId /\ task[j].status = "completed" => j \in BackBy(t)
        /\ p = NoId => ~Opened(task[j])
        /\ task[j].parent \notin GoneBy(t)
  BY <1>2, RecallLeaves
<1>5. /\ \A j : j \in DOMAIN r <=> j \in Ids /\ j \notin GoneBy(t)
      /\ \A j \in DOMAIN r : TookBack(r[j], task[j], j \in BackBy(t), S)
  BY DEF RowsTookBack
<1>6. \A j \in DOMAIN r : /\ j \in Ids /\ j \notin GoneBy(t) /\ j # w /\ r[j].node = task[j].node
                          /\ r[j].parent = task[j].parent
                          /\ j \in BackBy(t) => r[j].status = "active"
                          /\ j \notin BackBy(t) => r[j].status = task[j].status
                          /\ r[j].assignee = task[j].assignee /\ r[j].owner = task[j].owner
  BY <1>5 DEF TookBack
<1>7. \A j \in DOMAIN r : /\ r[j].parent # w
                          /\ PlaceOf(def, r[j].node) <= PlaceOf(def, n)
                          /\ Opened(r[j]) => r[j].node = n
                          /\ r[j].parent = NoId /\ r[j].node = n => r[j].status # "completed"
                          /\ p = NoId => ~Opened(r[j])
  <2>1. ASSUME NEW j \in DOMAIN r
        PROVE  /\ r[j].parent # w
               /\ PlaceOf(def, r[j].node) <= PlaceOf(def, n)
               /\ Opened(r[j]) => r[j].node = n
               /\ r[j].parent = NoId /\ r[j].node = n => r[j].status # "completed"
               /\ p = NoId => ~Opened(r[j])
    <3>1. CASE j \in BackBy(t)
      BY <1>3, <1>4, <1>6, <2>1, <3>1
    <3>2. CASE j \notin BackBy(t)
      BY <1>4, <1>6, <2>1, <3>2 DEF Opened
    <3>3. QED
      BY <3>1, <3>2
  <2>2. QED
    BY <2>1
<1>8. /\ rr[w] \in Row(n) /\ rr[w].node = n /\ rr[w].parent = p /\ rr[w].status = "active" /\ Opened(rr[w])
      /\ rr[w].reason = "none" /\ rr[w].closedBy = NoId /\ rr[w].born = Len(ans2)
      /\ rr[w].fallback = task[t].fallback /\ ~rr[w].claimed
  BY <1>2 DEF RecalledRow, Opened
<1>9. rr[w].fallback => AskedBy(def, n) = <<>>
  BY <1>1, <1>8 DEF RowInv, Claims
<1>10. p # NoId =>
         /\ ~OrSigned(def, n) /\ p \in Ids /\ p \notin GoneBy(t) /\ task[p].parent = NoId /\ task[p].node = n
  <2>1. SUFFICES ASSUME p # NoId
                 PROVE  /\ ~OrSigned(def, n) /\ p \in Ids /\ p \notin GoneBy(t) /\ task[p].parent = NoId
                        /\ task[p].node = n
    OBVIOUS
  <2>2. ~OrSigned(def, n) /\ p \in Ids /\ task[p].parent = NoId /\ task[p].node = n
    BY <1>1, <1>2, <2>1 DEF RowInv, Family
  <2>3. p # t
    BY <1>2, <2>1, <2>2
  <2>4. p \notin Frontier(t)
    <3>1. PICK o \in Ids : Opened(task[o])
      BY <1>1 DEF CanRecall, RecallGuard, Open, Opened
    <3>2. CASE task[o].node = n
      BY <1>1, <1>2, <2>1, <2>2, <3>1, <3>2, RecallHere
    <3>3. CASE task[o].node # n
      <4>1. \A x \in Frontier(t) : task[x].node # n
        BY <1>1, <3>1, <3>3, RecallLater
      <4>2. QED
        BY <2>2, <4>1
    <3>4. QED
      BY <3>2, <3>3
  <2>5. QED
    BY <1>1, <2>2, <2>3, <2>4
<1>11. p # NoId =>
         /\ p \in DOMAIN rr /\ rr[p].parent = NoId /\ rr[p].node = n
  BY <1>5, <1>6, <1>10
<1>12. \A j \in DOMAIN rr : p = NoId /\ rr[j].parent = NoId /\ rr[j].node = n => j = w \/ OrSigned(def, n)
  <2>1. SUFFICES ASSUME NEW j \in DOMAIN r, p = NoId, r[j].parent = NoId, r[j].node = n
                 PROVE  OrSigned(def, n)
    OBVIOUS
  <2>2. j \in Ids /\ j # t /\ task[j].parent = NoId /\ task[j].node = n
    BY <1>1, <1>6, <2>1
  <2>3. QED
    BY <1>1, <1>2, <2>1, <2>2 DEF RowInv, LoneMain
<1>13. OrSigned(def, n) => \A j, k \in DOMAIN rr :
         j # k /\ Opened(rr[j]) /\ Opened(rr[k]) => FALSE
  BY <1>7, <1>10
<1>14. "Recall" \in def.uses => /\ p # NoId => VoteNode(def, n)
                                /\ p # NoId => r[p].assignee = Nobody /\ r[p].owner = Nobody /\ r[p].status # "pending"
  <2>1. SUFFICES ASSUME "Recall" \in def.uses, p # NoId
                 PROVE  VoteNode(def, n) /\ r[p].assignee = Nobody /\ r[p].owner = Nobody /\ r[p].status # "pending"
    OBVIOUS
  <2>2. VoteNode(def, n)
    BY <1>1, <1>2, <2>1 DEF RowInv, Recallable
  <2>3. Aggregate(def, task, p)
    BY <1>1, <1>2, <1>10, <2>1 DEF Aggregate
  <2>4. task[p].assignee = Nobody /\ task[p].owner = Nobody /\ task[p].status # "pending"
    BY <1>1, <1>10, <2>1, <2>3 DEF RowInv, Recallable
  <2>5. p \in DOMAIN r
    BY <1>5, <1>10, <2>1
  <2>6. QED
    BY <1>6, <2>2, <2>4, <2>5
<1>15. ~Aggregate(def, rr, w)
  <2>1. SUFFICES ASSUME Aggregate(def, rr, w) PROVE FALSE
    OBVIOUS
  <2>2. p = NoId
    BY <1>8, <2>1 DEF Aggregate
  <2>3. \A j \in DOMAIN rr : rr[j].parent # w
    BY <1>1, <1>7, <1>8, <2>2
  <2>4. VoteNode(def, n) /\ AskedBy(def, n) # <<>>
    BY <1>8, <2>1, <2>3 DEF Aggregate
  <2>5. Aggregate(def, task, t)
    BY <1>1, <1>2, <2>2, <2>4 DEF Aggregate
  <2>6. QED
    BY <1>1, <2>5, RecalledAlone
<1>16. /\ \A k \in {w} : k \in Id /\ k \notin DOMAIN r
       /\ \A j : j \in DOMAIN rr <=> j \in DOMAIN r \/ j \in {w}
       /\ \A j \in DOMAIN r : r[j].parent \notin {w}
  BY <1>6, <1>7
<1>17. \A k \in {w} :
         /\ rr[k] \in Row(n) /\ Opened(rr[k]) /\ rr[k].reason = "none" /\ rr[k].closedBy = NoId
         /\ rr[k].born = Len(ans2)
         /\ rr[k].status = "pending" => rr[k].assignee = Nobody
         /\ rr[k].fallback => AskedBy(def, n) = <<>>
         /\ rr[k].parent # NoId =>
              /\ ~OrSigned(def, n)
              /\ rr[k].parent \in DOMAIN rr /\ rr[rr[k].parent].parent = NoId
              /\ rr[rr[k].parent].node = n
  BY <1>8, <1>9, <1>10, <1>11
<1>18. \A k \in {w}, j \in DOMAIN rr :
         rr[k].parent = NoId /\ rr[j].parent = NoId /\ rr[j].node = n => j = k \/ OrSigned(def, n)
  BY <1>8, <1>12
<1>19. OrSigned(def, n) => \A j, k \in DOMAIN rr :
         j # k /\ Opened(rr[j]) /\ Opened(rr[k]) => rr[j].status = "active" /\ ~rr[j].claimed
  BY <1>13
<1>20. "Recall" \in def.uses => \A k \in {w} :
         /\ rr[k].parent # NoId =>
              /\ VoteNode(def, n) /\ rr[k].status # "pending" /\ ~rr[k].claimed
              /\ rr[k].parent \in DOMAIN r =>
                   /\ r[rr[k].parent].assignee = Nobody /\ r[rr[k].parent].owner = Nobody
                   /\ r[rr[k].parent].status # "pending"
         /\ Aggregate(def, rr, k) =>
              rr[k].assignee = Nobody /\ rr[k].owner = Nobody /\ rr[k].status # "pending"
  BY <1>8, <1>14, <1>15
<1>21. \A j \in DOMAIN r : /\ rr[j] = r[j] /\ r[j].parent \notin {w}
                           /\ PlaceOf(def, r[j].node) <= PlaceOf(def, n)
                           /\ Opened(r[j]) => r[j].node = n
                           /\ r[j].parent = NoId /\ r[j].node = n => r[j].status # "completed"
  BY <1>7
<1>22. QED
  BY <1>1, <1>16, <1>17, <1>18, <1>19, <1>20, <1>21 DEF Added

(* Row w with another status, reason, closer and age. *)
Changed(w, s, why, c, e) == [w EXCEPT !.status = s, !.reason = why, !.closedBy = c, !.born = e]
(* It is the same row otherwise. *)
LEMMA ChangedRow ==
  ASSUME NEW n, NEW w \in Row(n), NEW s \in RowStatus, NEW why \in Reason, NEW c \in Id \cup {NoId},
         NEW e \in 0..MaxRows,
         NEW x, x = Changed(w, s, why, c, e)
  PROVE  /\ x \in Row(n) /\ x.node = w.node /\ x.parent = w.parent
         /\ x.fallback = w.fallback /\ x.claimed = w.claimed
         /\ x.assignee = w.assignee /\ x.owner = w.owner /\ x.pool = w.pool
         /\ x.born = e /\ x.closedBy = c /\ x.status = s /\ x.reason = why
<1>1. x \in Row(n)
  BY DEF Changed, Row
<1>2. QED
  BY <1>1 DEF Changed, Row

(* A row that a recall leaves. *)
LEMMA ChangedBack ==
  ASSUME NEW S, NEW w, NEW n, w \in Row(n), w.node = n, NEW b \in BOOLEAN, NEW e, e = Rank(S, w.born),
         e \in 0..MaxRows,
         NEW c, c \in {w.closedBy, NoId}, c \in Id \cup {NoId},
         NEW s, s = IF b THEN "active" ELSE w.status,
         NEW why, why = IF b THEN "none" ELSE w.reason,
         NEW x, x = Changed(w, s, why, c, e)
  PROVE  TookBack(x, w, b, S)
<1>1. w.status \in RowStatus /\ w.reason \in Reason
  BY RowFields
<1>2. s \in RowStatus /\ why \in Reason
  BY <1>1 DEF RowStatus, Reason
<1>3. /\ x \in Row(n) /\ x.node = w.node /\ x.parent = w.parent
      /\ x.fallback = w.fallback /\ x.claimed = w.claimed
      /\ x.assignee = w.assignee /\ x.owner = w.owner /\ x.pool = w.pool
      /\ x.born = e /\ x.closedBy = c /\ x.status = s /\ x.reason = why
  BY <1>2, ChangedRow
<1>4. QED
  BY <1>3 DEF TookBack

(* The row of the recalled task. *)
AsRecalled(w, o, fb, b) == [w EXCEPT !.owner = o, !.fallback = fb, !.born = b]

(* The fields of that row. *)
LEMMA RecalledFields ==
  ASSUME NEW n, NEW p, NEW a, NEW w, NewOne(w, n, p, "active", a),
         NEW o \in User \cup {Nobody}, NEW fb \in BOOLEAN, NEW b \in 0..MaxRows,
         NEW x, x = AsRecalled(w, o, fb, b)
  PROVE  /\ x \in Row(n) /\ x.node = n /\ x.parent = p /\ x.status = "active"
         /\ x.reason = "none" /\ x.closedBy = NoId /\ x.born = b
         /\ x.fallback = fb /\ ~x.claimed
         /\ x.assignee = a /\ x.owner = o /\ x.pool = {}
<1>1. w \in Row(n)
  BY DEF NewOne
<1>2. x \in Row(n)
  BY <1>1 DEF AsRecalled, Row
<1>3. QED
  BY <1>1, <1>2 DEF AsRecalled, Row, NewOne

(* RecalledTask is such a row. *)
LEMMA RecalledNew ==
  ASSUME DeskInv, NEW t, NEW n, Recalls(t, n), NEW u \in User,
         NEW S, NEW ans2, LeftBy(UnsaidBy(t), S, ans2), ans2 = Unanswer(UnsaidBy(t)),
         NEW x, x = RecalledTask(u, t)
  PROVE  RecalledRow(x, t, n, ans2) /\ x.assignee = u
<1>1. RowInv(def, task, answered) /\ t \in DOMAIN task /\ n = task[t].node /\ task[t] \in Row(n)
  BY DEF DeskInv, Recalls, CanRecall, RowInv, Typed, Ids
<1>2. PICK p, o, fb, b : p = task[t].parent /\ o = task[t].owner /\ fb = task[t].fallback /\ b = Len(ans2)
  OBVIOUS
<1>3. p \in Id \cup {NoId} /\ o \in User \cup {Nobody} /\ fb \in BOOLEAN
  BY <1>1, <1>2, RowFields
<1>4. b \in 0..MaxRows
  <2>1. Len(answered) \in 0..MaxRows /\ MaxRows \in Nat
    BY AnswerCount, RowBounds
  <2>2. QED
    BY <1>2, <2>1 DEF LeftBy
<1>5. PICK w : w = NewRow(n, p, "active", u, {})
  OBVIOUS
<1>6. NewOne(w, n, p, "active", u)
  BY <1>3, <1>5, NewRowIs
<1>7. x = AsRecalled(w, o, fb, b)
  BY <1>1, <1>2, <1>5 DEF RecalledTask, AsRecalled, UnsaidBy
<1>8. /\ x \in Row(n) /\ x.node = n /\ x.parent = p /\ x.status = "active"
      /\ x.reason = "none" /\ x.closedBy = NoId /\ x.born = b
      /\ x.fallback = fb /\ ~x.claimed
      /\ x.assignee = u /\ x.owner = o /\ x.pool = {}
  BY <1>3, <1>4, <1>6, <1>7, RecalledFields
<1>9. QED
  BY <1>2, <1>8 DEF RecalledRow

(* The rows that stay. *)
KeptBy(t) ==
  [i \in Ids \ GoneBy(t) |->
     [task[i] EXCEPT
        !.status = IF i \in BackBy(t) THEN "active" ELSE @,
        !.reason = IF i \in BackBy(t) THEN "none" ELSE @,
        !.closedBy = IF @ \in GoneBy(t) THEN NoId ELSE @,
        !.born = Earlier(@, UnsaidBy(t))]]

(* They are as the rows that TakeBack leaves. *)
LEMMA KeptRows ==
  ASSUME DeskInv, NEW t, NEW n, Recalls(t, n),
         NEW S, NEW ans2, LeftBy(UnsaidBy(t), S, ans2)
  PROVE  RowsTookBack(KeptBy(t), GoneBy(t), BackBy(t), S)
<1>1. RowInv(def, task, answered) /\ \A i \in Ids : task[i] \in Row(task[i].node)
  BY DEF DeskInv, RowInv, Typed, Ids
<1>2. Len(answered) \in 0..MaxRows /\ MaxRows \in Nat
  BY AnswerCount, RowBounds
<1>3. DOMAIN KeptBy(t) = Ids \ GoneBy(t)
  BY DEF KeptBy
<1>4. ASSUME NEW i \in DOMAIN KeptBy(t) PROVE TookBack(KeptBy(t)[i], task[i], i \in BackBy(t), S)
  <2>1. i \in Ids \ GoneBy(t)
    BY <1>3
  <2>11. \E b \in BOOLEAN : b <=> i \in BackBy(t)
    <3>1. CASE i \in BackBy(t)
      <4>1. TRUE <=> i \in BackBy(t)
        BY <3>1
      <4>2. QED
        BY <4>1
    <3>2. CASE i \notin BackBy(t)
      <4>1. FALSE <=> i \in BackBy(t)
        BY <3>2
      <4>2. QED
        BY <4>1
    <3>3. QED
      BY <3>1, <3>2
  <2>12. PICK b \in BOOLEAN : b <=> i \in BackBy(t)
    BY <2>11
  <2>2. PICK w, m, s, why, c, e, x :
          /\ w = task[i] /\ m = w.node
          /\ s = IF i \in BackBy(t) THEN "active" ELSE w.status
          /\ why = IF i \in BackBy(t) THEN "none" ELSE w.reason
          /\ c = IF w.closedBy \in GoneBy(t) THEN NoId ELSE w.closedBy
          /\ e = Earlier(w.born, UnsaidBy(t))
          /\ x = KeptBy(t)[i]
    OBVIOUS
  <2>3. w \in Row(m) /\ w.node = m /\ w.born \in 0..MaxRows /\ w.closedBy \in Id \cup {NoId}
    BY <1>1, <2>1, <2>2, RowFields
  <2>4. w.born \in 0..Len(answered)
    <3>1. w.born \in Nat /\ w.born <= Len(answered)
      BY <1>1, <1>2, <2>1, <2>2, <2>3 DEF RowInv, Ends, Ids
    <3>2. QED
      BY <1>2, <3>1
  <2>5. e = Rank(S, w.born) /\ e \in 0..MaxRows
    <3>1. e = Rank(S, w.born) /\ Rank(S, w.born) \in 0..Len(ans2) /\ Len(ans2) \in Nat /\ Len(ans2) <= Len(answered)
      BY <2>2, <2>4 DEF LeftBy
    <3>2. QED
      BY <1>2, <3>1
  <2>6. c \in {w.closedBy, NoId} /\ c \in Id \cup {NoId}
    BY <2>2, <2>3
  <2>7. x = Changed(w, s, why, c, e)
    BY <2>1, <2>2 DEF KeptBy, Changed
  <2>8. s = (IF b THEN "active" ELSE w.status) /\ why = (IF b THEN "none" ELSE w.reason)
    BY <2>2, <2>12
  <2>9. TookBack(x, w, b, S)
    BY <2>3, <2>5, <2>6, <2>7, <2>8, ChangedBack
  <2>10. QED
    BY <2>2, <2>9, <2>12 DEF TookBack
<1>5. QED
  BY <1>3, <1>4 DEF RowsTookBack

(* Row x is what a recall leaves of row w, open again if b, and the row of *)
(* the task t that is recalled.                                            *)
KeptAs(x, w, b) ==
  /\ x.node = w.node /\ x.parent = w.parent /\ x.fallback = w.fallback /\ x.claimed = w.claimed
  /\ x.assignee = w.assignee /\ x.owner = w.owner /\ x.pool = w.pool
  /\ x.closedBy = w.closedBy \/ x.closedBy = NoId
  /\ b => x.status = "active" /\ x.reason = "none"
  /\ ~b => x.status = w.status /\ x.reason = w.reason
Renewed(x, t, n) ==
  /\ x.node = n /\ x.parent = task[t].parent /\ x.status = "active" /\ x.reason = "none"
  /\ x.closedBy = NoId /\ x.fallback = task[t].fallback /\ ~x.claimed
  /\ x.pool = {} /\ x.owner = task[t].owner /\ x.assignee = task[t].assignee /\ x.assignee # Nobody

(* What a recall does to the rows. *)
Recalled(t, n) ==
  /\ Recalls(t, n)
  /\ RowInv(def, task', answered')
  /\ \A j : j \in DOMAIN task' <=> (j \in Ids /\ j \notin GoneBy(t)) \/ j = Fresh(1)
  /\ Fresh(1) \notin Ids /\ Opened(task'[Fresh(1)]) /\ task'[Fresh(1)].node = n
  /\ \A j \in Ids : j \notin GoneBy(t) /\ j \notin BackBy(t) => task'[j].reason = task[j].reason
  /\ \A j \in Ids : j \notin GoneBy(t) => KeptAs(task'[j], task[j], j \in BackBy(t))
  /\ Renewed(task'[Fresh(1)], t, n)
  /\ \A j \in DOMAIN task' : PlaceOf(def, task'[j].node) <= PlaceOf(def, n)

(* Recall does that. *)
LEMMA RecallRows ==
  ASSUME DeskInv, NEW t \in Ids, NEW u \in People, Recall(u, t)
  PROVE  Recalled(t, task[t].node)
<1>1. PICK n, S, ans2, r, x, new :
        /\ n = task[t].node /\ S = Staying(UnsaidBy(t)) /\ ans2 = Unanswer(UnsaidBy(t))
        /\ r = KeptBy(t) /\ x = RecalledTask(u, t) /\ new = <<x>>
  OBVIOUS
<1>2. /\ "Recall" \in def.uses /\ IsRecallable(u, t) /\ RecallGuard(t) /\ RoomFor(1)
      /\ task' = WithNew(KeptBy(t), new) /\ answered' = ans2
  BY <1>1 DEF Recall, Uses, KeptBy, GoneBy, BackBy, UnsaidBy
<1>3. /\ RowInv(def, task, answered) /\ def \in Flows /\ Ids = DOMAIN task /\ u \in User
      /\ answered \in Seq(Id) /\ IsInjective(answered)
  BY FlowAssumption DEF DeskInv, DriveTyped, Ids, People, RowInv, Typed
<1>4. Recalls(t, n)
  BY <1>1, <1>2, <1>3 DEF Recalls, CanRecall, IsRecallable, AnswersOf
<1>5. LeftBy(UnsaidBy(t), S, ans2)
  BY <1>1, <1>3, AnswersLeft
<1>6. RowsTookBack(r, GoneBy(t), BackBy(t), S)
  BY <1>1, <1>4, <1>5, KeptRows
<1>7. TakenBack(def, task, answered, n, GoneBy(t), BackBy(t), UnsaidBy(t), S, r, ans2)
  BY <1>4, <1>5, <1>6, RecallTakesBack
<1>8. RowInv(def, r, ans2)
  BY <1>3, <1>7, TakeBack
<1>9. RecalledRow(x, t, n, ans2) /\ x.assignee = u
  BY <1>1, <1>3, <1>4, <1>5, RecalledNew
<1>10. PICK w, rr : w = Fresh(1) /\ rr = task'
  OBVIOUS
<1>11. w \in Id /\ w \notin Ids /\ \A j \in Ids : task[j].parent # w
  <2>1. Fresh(1) \in Free
    <3>1. PICK L \in Nat : L = 1
      OBVIOUS
    <3>2. RoomFor(L) /\ 1 \in 1..L
      BY <1>2, <3>1
    <3>3. QED
      BY <3>2, FreshIds
  <2>2. QED
    BY <1>10, <2>1, FreeIds
<1>12. /\ \A j : j \in DOMAIN rr <=> j \in DOMAIN r \/ j = w
       /\ \A j \in DOMAIN r : rr[j] = r[j]
       /\ rr[w] = x
  <2>1. PICK L \in Nat : L = 1
    OBVIOUS
  <2>2. DOMAIN new = 1..L /\ new[1] = x
    BY <1>1, <2>1
  <2>3. DOMAIN r \subseteq Ids
    BY <1>6 DEF RowsTookBack
  <2>4. RoomFor(L)
    BY <1>2, <2>1
  <2>5. /\ \A i : i \in DOMAIN WithNew(r, new) <=>
                    i \in DOMAIN r \/ \E k \in 1..L : i = Fresh(k)
        /\ \A i \in DOMAIN r : WithNew(r, new)[i] = r[i]
        /\ \A k \in 1..L : WithNew(r, new)[Fresh(k)] = new[k]
    BY <2>2, <2>3, <2>4, NewRows
  <2>6. rr = WithNew(r, new)
    BY <1>1, <1>2, <1>10
  <2>7. \A k : k \in 1..L <=> k = 1
    BY <2>1
  <2>8. QED
    BY <1>10, <2>2, <2>5, <2>6, <2>7
<1>13. Added(def, r, ans2, n, {w}, rr)
  <2>1. RecalledRow(rr[w], t, n, ans2)
    BY <1>9, <1>12
  <2>2. QED
    BY <1>4, <1>6, <1>11, <1>12, <2>1, RecallAdds
<1>14. RowInv(def, rr, ans2)
  BY <1>3, <1>8, <1>13, AddRows
<1>15. \A j : j \in DOMAIN r <=> j \in Ids /\ j \notin GoneBy(t)
  BY <1>6 DEF RowsTookBack
<1>16. Opened(rr[w]) /\ rr[w].node = n
  BY <1>9, <1>12 DEF RecalledRow, Opened
<1>17. \A j \in Ids : j \notin GoneBy(t) /\ j \notin BackBy(t) => rr[j].reason = task[j].reason
  BY <1>6, <1>12, <1>15 DEF RowsTookBack, TookBack
<1>22. \A j \in Ids : j \notin GoneBy(t) => KeptAs(rr[j], task[j], j \in BackBy(t))
  BY <1>6, <1>12, <1>15 DEF RowsTookBack, TookBack, KeptAs
<1>23. Renewed(rr[w], t, n)
  <2>1. task[t].assignee = u
    BY <1>2 DEF IsRecallable, AnswersOf
  <2>2. u # Nobody
    BY <1>3, OrganisationAssumption
  <2>3. QED
    BY <1>9, <1>12, <2>1, <2>2 DEF RecalledRow, Renewed
<1>18. \A j \in DOMAIN rr : PlaceOf(def, rr[j].node) <= PlaceOf(def, n)
  <2>1. w \in DOMAIN rr
    BY <1>12
  <2>2. QED
    BY <1>14, <1>16, <2>1 DEF RowInv, OneNode
<1>19. Recalls(t, task[t].node)
  BY <1>1, <1>4
<1>20. RowInv(def, task', answered')
  BY <1>2, <1>10, <1>14
<1>21. QED
  BY <1>1, <1>10, <1>11, <1>12, <1>15, <1>16, <1>17, <1>18, <1>19, <1>20, <1>22, <1>23 DEF Recalled

TaskRecalled ==
  /\ UNCHANGED <<def, asks, at, resets>>
  /\ \E t \in Ids : /\ Recalled(t, task[t].node)
                    /\ past' = past \cup {<<task[t].node, task[t].assignee>>}

(* Recall keeps the invariant. *)
LEMMA RecallStep ==
  ASSUME DeskInv, NEW t \in Ids, NEW u \in People, Recall(u, t)
  PROVE  DeskInv' /\ TaskRecalled
<1>1. PICK n : n = task[t].node
  OBVIOUS
<1>2. Recalled(t, n)
  BY <1>1, RecallRows
<1>3. /\ inst = "active" /\ ~RecallCountExhausted /\ RecallGuard(t) /\ task[t].assignee = u
      /\ recalls' = recalls + 1 /\ past' = past \cup {<<task[t].node, u>>}
      /\ def' = def /\ inst' = inst /\ asks' = asks /\ at' = at /\ auto' = auto /\ resets' = resets
      /\ last' = last
  BY DEF Recall, IsRecallable, AnswersOf, driveVars
<1>4. PICK o \in Ids : Opened(task[o])
  BY <1>3 DEF RecallGuard, Open, Opened
<1>5. asks = {} /\ at = NoNode /\ resets = <<>>
  BY <1>4, OpenFacts
<1>6. recalls' \in 0..MaxRecall
  <2>1. recalls \in 0..MaxRecall /\ MaxRecall \in Nat
    BY RowBounds DEF DeskInv, DriveTyped
  <2>2. QED
    BY <1>3, <2>1 DEF RecallCountExhausted
<1>7. past' \subseteq Nodes \X User
  <2>1. n \in Nodes /\ u \in User
    BY <1>1, FlowAssumption DEF DeskInv, DriveTyped, RowInv, Typed, Nodes, NodesOf, Ids, People
  <2>2. past \subseteq Nodes \X User
    BY DEF DeskInv, DriveTyped
  <2>3. QED
    BY <1>1, <1>3, <2>1, <2>2
<1>8. DriveTyped' /\ Apart(def)'
  BY <1>3, <1>6, <1>7 DEF DeskInv, DriveTyped, Nodes
<1>9. RowInv(def, task, answered)'
  BY <1>2, <1>3 DEF Recalled
<1>10. Fresh(1) \in DOMAIN task' /\ Opened(task'[Fresh(1)])
  BY <1>2 DEF Recalled
<1>11. OneDrive' /\ Beyond' /\ Quiet'
  BY <1>3, <1>5, <1>10, FlowNodes DEF OneDrive, Beyond, Quiet, Driving, Waiting, Ids, DeskInv, DriveTyped, Nodes, NodesOf
<1>12. TaskRecalled
  BY <1>1, <1>2, <1>3 DEF TaskRecalled
<1>13. QED
  BY <1>8, <1>9, <1>11, <1>12 DEF DeskInv

(* What a recall leaves alone. *)
LEMMA RecallSpares ==
  ASSUME DeskInv, NEW t \in Ids, NEW u \in People, Recall(u, t)
  PROVE  /\ t \notin DOMAIN task' /\ Completed(t)
         /\ \A i \in Ids \ (DOMAIN task' \cup {t}) : Open(i) /\ task[i].node # task[t].node
         /\ \A i \in Ids \cap DOMAIN task' :
              Completed(i) /\ i # task[t].parent => task'[i].reason = task[i].reason
<1>1. PICK n : n = task[t].node
  OBVIOUS
<1>2. Recalled(t, n)
  BY <1>1, RecallRows
<1>3. Recalls(t, n) /\ CanRecall(t) /\ Completed(t)
  BY <1>2 DEF Recalled, Recalls, CanRecall
<1>4. \A j : j \in GoneBy(t) <=> j \in Frontier(t) \/ j = t
  BY DEF GoneBy
<1>5. \A j \in Ids : j \in DOMAIN task' <=> j \notin GoneBy(t)
  BY <1>2 DEF Recalled
<1>6. PICK o \in Ids : Opened(task[o])
  BY <1>3 DEF CanRecall, RecallGuard, Open, Opened
<1>7. \A i \in Frontier(t) : i \in Ids /\ Open(i) /\ task[i].node # task[t].node
  <2>1. CASE task[o].node = task[t].node
    BY <1>3, <1>6, <2>1, RecallHere
  <2>2. CASE task[o].node # task[t].node
    <3>1. \A x \in Frontier(t) : task[x].node # task[t].node
      BY <1>3, <1>6, <2>2, RecallLater
    <3>2. QED
      BY <3>1 DEF Frontier, Late
  <2>3. QED
    BY <2>1, <2>2
<1>8. \A i \in BackBy(t) : Completed(i) => i = task[t].parent
  <2>1. \A i \in BackBy(t) : task[i].status = "completed" => i \in Reopened(t)
    BY <1>3, BackRows
  <2>2. QED
    BY <2>1 DEF Completed, Reopened
<1>9. \A i \in Ids : i \notin GoneBy(t) /\ i \notin BackBy(t) => task'[i].reason = task[i].reason
  BY <1>2 DEF Recalled
<1>10. \A i \in Ids \ (DOMAIN task' \cup {t}) : Open(i) /\ task[i].node # task[t].node
  BY <1>4, <1>5, <1>7
<1>11. \A i \in Ids \cap DOMAIN task' :
         Completed(i) /\ i # task[t].parent => task'[i].reason = task[i].reason
  BY <1>5, <1>8, <1>9
<1>12. QED
  BY <1>3, <1>4, <1>5, <1>10, <1>11

-----------------------------------------------------------------------------
(* The theorems.                                                           *)

(* A new instance has no rows, and its drive is at the first node. *)
LEMMA InitInv ==
  ASSUME Init, Apart(def)
  PROVE  DeskInv
<1>1. /\ def \in Flows /\ inst = "active" /\ task = <<>> /\ answered = <<>> /\ asks = {}
      /\ at = def.nodes[1] /\ auto = NoNode /\ resets = <<>> /\ recalls = 0 /\ past = {} /\ last = NoNode
  BY DEF Init, RowsInit
<1>2. DOMAIN task = {} /\ Ids = {}
  <2>1. DOMAIN task = 1..0
    BY <1>1, LenProperties, EmptySeq
  <2>2. QED
    BY <2>1 DEF Ids
<1>3. def.nodes[1] \in Nodes /\ NoNode \notin Nodes
  <2>1. 1 \in DOMAIN def.nodes /\ Nodes = NodesOf(def)
    BY <1>1, FlowNodes DEF Nodes, NodesOf
  <2>2. def.nodes[1] \in NodesOf(def)
    BY <1>1, <2>1, FlowNodes
  <2>3. NoNode \notin NodesOf(def)
    BY <1>1, FlowNodes
  <2>4. QED
    BY <2>1, <2>2, <2>3
<1>4. DriveTyped
  <2>1. resets \in Seq(Nodes)
    BY <1>1, EmptySeq
  <2>2. recalls \in 0..MaxRecall
    BY <1>1, RowBounds
  <2>3. QED
    BY <1>1, <1>3, <2>1, <2>2 DEF DriveTyped
<1>5. answered \in Seq(Id) /\ DOMAIN answered = {} /\ Len(answered) = 0
  BY <1>1, EmptySeq, LenProperties
<1>6. RowInv(def, task, answered)
  <2>1. ToSet(answered) = {} /\ IsInjective(answered)
    BY <1>5 DEF ToSet, IsInjective
  <2>2. Typed(def, task, answered)
    BY <1>2, <1>5, <2>1 DEF Typed
  <2>3. Ends(def, task, answered)
    BY <1>2, <1>5 DEF Ends
  <2>4. /\ Family(def, task) /\ LoneMain(def, task) /\ Claims(def, task) /\ Cut(task)
        /\ Recallable(def, task) /\ OneNode(def, task)
    BY <1>2 DEF Family, LoneMain, Claims, Cut, Recallable, OneNode
  <2>5. QED
    BY <2>2, <2>3, <2>4 DEF RowInv
<1>7. Driving /\ ~Waiting
  BY <1>1, <1>3 DEF Driving, Waiting
<1>8. OneDrive /\ Quiet /\ Beyond
  BY <1>1, <1>2, <1>7 DEF OneDrive, Quiet, Beyond
<1>9. QED
  BY <1>4, <1>6, <1>8 DEF DeskInv

(* What the drives and the ways back leave: the rows of other nodes. *)
ByNode(gone) == \A i, j \in Ids : i \in gone /\ task[j].node = task[i].node => j \in gone
NodesGone ==
  /\ def' = def
  /\ past \subseteq past' \/ DOMAIN task' = {}
  /\ \E gone : ByNode(gone) /\ Left(task, gone, task')

(* Rows that do not change are such. *)
LEMMA NoneGone ==
  ASSUME def' = def, past' = past, task' = task
  PROVE  NodesGone
<1>1. ByNode({}) /\ Left(task, {}, task')
  BY DEF ByNode, Left, Alike
<1>2. QED
  BY <1>1 DEF NodesGone

(* So are those that Archive leaves of some nodes, and of an instance that *)
(* ends.                                                                   *)
LEMMA ArchiveGone ==
  ASSUME DeskInv, NEW gone, ByNode(gone), Archive(gone), def' = def, past' = past \/ gone = Ids
  PROVE  NodesGone
<1>1. def \in Flows /\ RowInv(def, task, answered) /\ task' = Without(task, gone)
  BY DEF DeskInv, DriveTyped, Archive
<1>2. Left(task, gone, Without(task, gone))
  BY <1>1, WithoutLeft
<1>3. gone = Ids => DOMAIN task' = {}
  BY <1>1, <1>2 DEF Left, Ids
<1>4. QED
  BY <1>1, <1>2, <1>3 DEF NodesGone

(* So are those of an instance that ends: none. *)
LEMMA EndedGone ==
  ASSUME DeskInv, Ended
  PROVE  NodesGone
<1>1. def' = def /\ Archive(Ids)
  BY DEF Ended, EndInstance
<1>2. ByNode(Ids)
  BY DEF ByNode
<1>3. QED
  BY <1>1, <1>2, ArchiveGone

(* A step of a drive leaves such rows, or makes those of a node. *)
LEMMA DriveLeaves ==
  ASSUME DeskInv, Drive
  PROVE  NodesGone \/ NodeMade
<1>1. CASE \E n \in Nodes : ExecuteNext(n)
  BY <1>1, NoneGone DEF ExecuteNext, rowVars, histVars
<1>2. CASE \E n \in Nodes : Create(n)
  BY <1>2, CreateStep
<1>3. CASE \E n \in Nodes : TellSuccess(n)
  BY <1>3, NoneGone DEF TellSuccess, rowVars, histVars
<1>4. CASE \E n \in Nodes : HandleRejection(n)
  <2>1. def' = def /\ (EndInstance("terminated") \/ UNCHANGED <<inst, rowVars, histVars>>)
    BY <1>4 DEF HandleRejection
  <2>2. QED
    BY <2>1, NoneGone, EndedGone DEF Ended, rowVars, histVars
<1>5. CASE CompleteProcessInstance
  BY <1>5, EndedGone DEF CompleteProcessInstance, Ended
<1>6. CASE SupersedeNodeTasks
  <2>1. /\ def' = def /\ past' = past
        /\ Archive(AtNode(Head(resets))) \/ task' = task
    BY <1>6 DEF SupersedeNodeTasks, rowVars, histVars
  <2>2. ByNode(AtNode(Head(resets)))
    BY DEF ByNode, AtNode
  <2>3. QED
    BY <2>1, <2>2, NoneGone, ArchiveGone
<1>7. CASE Jump
  BY <1>7, NoneGone DEF Jump, rowVars, histVars
<1>8. CASE StopAtEnded
  BY <1>8, NoneGone DEF StopAtEnded, rowVars, histVars
<1>9. QED
  BY <1>1, <1>2, <1>3, <1>4, <1>5, <1>6, <1>7, <1>8 DEF Drive

(* So does a way back, but a recall. *)
LEMMA ReturningLeaves ==
  ASSUME DeskInv, Returning
  PROVE  NodesGone \/ TaskRecalled
<1>1. CASE Withdraw
  BY <1>1, EndedGone DEF Withdraw, Ended
<1>2. CASE \E u \in People : RecallCompleted(u)
  BY <1>2, NoneGone DEF RecallCompleted, rowVars
<1>3. CASE \E i \in Ids, u \in People : Recall(u, i)
  BY <1>3, RecallStep
<1>4. CASE \E i \in Ids, u \in People, n \in Nodes : Return(u, i, n)
  <2>1. PICK i \in Ids, u \in People, n \in Nodes : Return(u, i, n)
    BY <1>4
  <2>2. def' = def /\ past' = past /\ Archive(ReturnRegion(n, i))
    BY <2>1 DEF Return, histVars
  <2>3. ByNode(ReturnRegion(n, i))
    BY DEF ByNode, ReturnRegion
  <2>4. QED
    BY <2>2, <2>3, ArchiveGone
<1>5. QED
  BY <1>1, <1>2, <1>3, <1>4 DEF Returning

(* A step of a drive keeps the invariant. *)
LEMMA DriveStep ==
  ASSUME DeskInv, Drive
  PROVE  DeskInv'
<1>1. CASE \E n \in Nodes : ExecuteNext(n)
  BY <1>1, ExecuteNextStep
<1>2. CASE \E n \in Nodes : Create(n)
  BY <1>2, CreateStep
<1>3. CASE \E n \in Nodes : TellSuccess(n)
  BY <1>3, TellSuccessStep
<1>4. CASE \E n \in Nodes : HandleRejection(n)
  BY <1>4, HandleRejectionStep
<1>5. CASE CompleteProcessInstance
  BY <1>5, CompleteProcessStep
<1>6. CASE SupersedeNodeTasks
  BY <1>6, SupersedeStep
<1>7. CASE Jump
  BY <1>7, JumpStep
<1>8. CASE StopAtEnded
  BY <1>8, StopAtEndedStep
<1>9. QED
  BY <1>1, <1>2, <1>3, <1>4, <1>5, <1>6, <1>7, <1>8 DEF Drive

(* An answer, and a change of signers, keeps the invariant. *)
Answers == TaskPassed \/ TaskAnswered \/ TaskVoted \/ TaskDecided
LEMMA SigningStep ==
  ASSUME DeskInv, Signing
  PROVE  DeskInv' /\ (Idle \/ Ended \/ Answers \/ TaskSigned \/ Reduces)
<1>1. CASE AutoApproveTasks
  BY <1>1, AutoStep DEF Answers
<1>2. CASE \E i \in Ids : \E u \in People, vote \in Vote : CompleteWithApproval(u, i, vote)
  BY <1>2, ApprovalStep DEF Answers
<1>3. CASE \E i \in Ids : \E vote \in Vote : ProxyAudit(i, vote)
  BY <1>3, ProxyStep DEF Answers
<1>4. CASE \E i \in Ids : \E u \in People, us \in SUBSET People \ {{}} :
             \E twice \in SUBSET us : AddSign(u, i, us, twice)
  BY <1>4, AddSignStep
<1>5. CASE \E i \in Ids : \E u \in People, us \in SUBSET People \ {{}} : ReduceSign(u, i, us)
  BY <1>5, ReduceSignStep
<1>6. QED
  BY <1>1, <1>2, <1>3, <1>4, <1>5 DEF Signing

(* A way back keeps the invariant. *)
LEMMA ReturningStep ==
  ASSUME DeskInv, Returning
  PROVE  DeskInv'
<1>1. CASE Withdraw
  BY <1>1, WithdrawStep
<1>2. CASE \E u \in People : RecallCompleted(u)
  BY <1>2, RecallCompletedStep
<1>3. CASE \E i \in Ids, u \in People : Recall(u, i)
  BY <1>3, RecallStep
<1>4. CASE \E i \in Ids, u \in People, n \in Nodes : Return(u, i, n)
  BY <1>4, ReturnStep
<1>5. QED
  BY <1>1, <1>2, <1>3, <1>4 DEF Returning

(* Every step keeps the invariant. *)
LEMMA NextInv ==
  ASSUME DeskInv, [Next]_vars
  PROVE  DeskInv'
<1>1. CASE UNCHANGED vars
  BY <1>1 DEF vars, rowVars, driveVars, histVars, DeskInv, DriveTyped, OneDrive, Quiet, Beyond,
              Driving, Waiting, Ids, Nodes
<1>2. QED
  BY <1>1, DriveStep, OwnershipStep, SigningStep, ReturningStep DEF Next

(* What any step does to the rows. *)
Changes ==
  \/ NodesGone \/ NodeMade
  \/ TaskPassed \/ TaskClaimed \/ TaskGivenBack
  \/ TaskAnswered \/ TaskVoted \/ TaskDecided
  \/ TaskSigned \/ Reduces
  \/ TaskRecalled

(* Every step does one of these. *)
LEMMA NextChanges ==
  ASSUME DeskInv, [Next]_vars
  PROVE  Changes
<1>1. CASE UNCHANGED vars
  BY <1>1, NoneGone DEF vars, rowVars, histVars, Changes
<1>2. CASE Drive
  BY <1>2, DriveLeaves DEF Changes
<1>3. CASE Ownership
  BY <1>3, OwnershipStep DEF Changes
<1>4. CASE Signing
  BY <1>4, SigningStep, NoneGone, EndedGone DEF Changes, Answers, Idle
<1>5. CASE Returning
  BY <1>5, ReturningLeaves DEF Changes
<1>6. QED
  BY <1>1, <1>2, <1>3, <1>4, <1>5 DEF Next

(* The invariant behind the theorems of this module: whatever people,      *)
(* administrators and drives do in any order, on any chain, rows, answers  *)
(* and drive fit together (task_service_*.go, approval_node.go).           *)
THEOREM DeskInvariant == Spec /\ Apart(def) => []DeskInv
<1>1. Init /\ Apart(def) => DeskInv
  BY InitInv
<1>2. DeskInv /\ [Next]_vars => DeskInv'
  BY NextInv
<1>3. QED
  BY <1>1, <1>2, PTL DEF Spec

(* Rows, drive and history stay of their types, and the order of answers   *)
(* lists the completed rows, each once (cloneToHis and recallInternal take *)
(* rows and answers out together).                                         *)
THEOREM DeskTypeCorrect == Spec /\ Apart(def) => []TypeOK
<1>1. DeskInv => TypeOK
  <2>1. SUFFICES ASSUME DeskInv PROVE TypeOK
    OBVIOUS
  <2>2. Typed(def, task, answered) /\ DriveTyped
    BY <2>1 DEF DeskInv, RowInv
  <2>3. Ids \subseteq Id /\ \A i \in Ids : task[i] \in Row(task[i].node) /\ task[i].node \in Nodes
    BY <2>2 DEF Typed, Ids, Nodes, NodesOf
  <2>4. ToSet(answered) = {i \in Ids : Completed(i)}
    <3>1. ToSet(answered) \subseteq Id
      <4>1. answered \in Seq(Id)
        BY <2>2 DEF Typed
      <4>2. QED
        BY <4>1, ElementOfSeq, LenProperties DEF ToSet
    <3>2. \A i \in Id : i \in ToSet(answered) <=> i \in Ids /\ Completed(i)
      BY <2>2 DEF Typed, Ids, Completed
    <3>3. QED
      BY <2>3, <3>1, <3>2
  <2>5. answered \in Seq(Id) /\ IsInjective(answered)
    BY <2>2 DEF Typed
  <2>6. QED
    BY <2>2, <2>3, <2>4, <2>5 DEF TypeOK, DriveTyped
<1>2. QED
  BY <1>1, DeskInvariant, PTL

(* A chain is at one place: no task is open while a drive is due or under  *)
(* way, and a waiting instance has its open tasks on one node, after every *)
(* return, rejection and recall (ReturnTask, handleRejection, RecallTask). *)
THEOREM DeskOneRound == Spec /\ Apart(def) => []OneRound
<1>1. DeskInv => OneRound
  <2>1. SUFFICES ASSUME DeskInv PROVE OneRound
    OBVIOUS
  <2>2. \A i \in Ids : Open(i) <=> Opened(task[i])
    BY DEF Open, Opened
  <2>3. Driving => \A i \in Ids : ~Open(i)
    BY <2>1, <2>2 DEF DeskInv, Quiet
  <2>4. ASSUME Waiting PROVE Cardinality({task[i].node : i \in {j \in Ids : Open(j)}}) = 1
    <3>1. PICK o \in Ids : Open(o)
      BY <2>1, <2>2, <2>4 DEF DeskInv, Quiet
    <3>2. \A i \in Ids : Open(i) => task[i].node = task[o].node
      BY <2>1, <2>2, <3>1, OpenFacts DEF Ids
    <3>3. {task[i].node : i \in {j \in Ids : Open(j)}} = {task[o].node}
      BY <3>1, <3>2
    <3>4. QED
      BY <3>3, FS_Singleton
  <2>5. QED
    BY <2>3, <2>4 DEF OneRound
<1>2. QED
  BY <1>1, DeskInvariant, PTL

(* No task is older than an answer of an earlier node, however often the   *)
(* instance went back (recallInternal, SupersedeNodeTasks, ReturnTask).    *)
THEOREM DeskOrderKept == Spec /\ Apart(def) => []OrderKept
<1>1. DeskInv => OrderKept
  <2>1. \A n : Place(n) = PlaceOf(def, n)
    BY DEF Place, PlaceOf
  <2>2. QED
    BY <2>1, EndBefore DEF OrderKept
<1>2. QED
  BY <1>1, DeskInvariant, PTL

(* Only a recall counts as one. *)
LEMMA OnlyRecalls ==
  ASSUME DeskInv, Next, recalls' > recalls, inst = "active"
  PROVE  \E i \in Ids, u \in People : Recall(u, i)
<1>1. recalls' # recalls
  BY RowBounds DEF DeskInv, DriveTyped
<1>2. ~Drive
  BY <1>1 DEF Drive, ExecuteNext, Create, TellSuccess, HandleRejection, CompleteProcessInstance,
              SupersedeNodeTasks, Jump, StopAtEnded, EndInstance, histVars
<1>3. ~Ownership
  <2>1. ~Unmoved
    BY <1>1 DEF Unmoved, histVars
  <2>2. QED
    BY <2>1 DEF Ownership, Claim, Unclaim, SetOwner, Reassign, Resolve, Delegate, Transfer,
                SetAssignee, AddCandidates, RemoveCandidates
<1>4. ~Signing
  <2>1. ~Unmoved
    BY <1>1 DEF Unmoved, histVars
  <2>2. ASSUME NEW i \in Ids, NEW u \in People, NEW us \in SUBSET People PROVE ~ReduceSign(u, i, us)
    BY <1>1, <2>1 DEF ReduceSign, EndInstance, histVars
  <2>3. ASSUME NEW i \in Ids, NEW u \in People, NEW us \in SUBSET People, NEW twice \in SUBSET us
        PROVE  ~AddSign(u, i, us, twice)
    BY <2>1 DEF AddSign
  <2>4. ~AutoApproveTasks
    BY <1>1, <2>1 DEF AutoApproveTasks, EndInstance, histVars
  <2>5. ASSUME NEW i \in Ids, NEW vote \in Vote
        PROVE  ~ProxyAudit(i, vote) /\ \A u \in People : ~CompleteWithApproval(u, i, vote)
    BY <1>1, <2>1 DEF CompleteWithApproval, ProxyAudit, EndInstance, histVars
  <2>6. QED
    BY <2>2, <2>3, <2>4, <2>5 DEF Signing
<1>5. ~Withdraw /\ ~(\E u \in People : RecallCompleted(u))
  BY <1>1 DEF Withdraw, EndInstance, RecallCompleted
<1>6. ~(\E i \in Ids, u \in People, n \in Nodes : Return(u, i, n))
  BY <1>1 DEF Return, histVars
<1>7. QED
  BY <1>2, <1>3, <1>4, <1>5, <1>6 DEF Next, Returning

(* A recall takes one answer back and besides it only open tasks of other  *)
(* nodes; no other answer changes but the end of the parent that the vote  *)
(* had closed (recallInternal).                                            *)
THEOREM DeskRecallSparesOthers == Spec /\ Apart(def) => RecallSparesOthers
<1>. DEFINE Spared == recalls' > recalls /\ inst = "active" =>
       \E t \in Ids \ DOMAIN task' :
         /\ Completed(t)
         /\ \A i \in Ids \ (DOMAIN task' \cup {t}) : Open(i) /\ task[i].node # task[t].node
         /\ \A i \in Ids \cap DOMAIN task' :
              Completed(i) /\ i # task[t].parent => task'[i].reason = task[i].reason
<1>1. ASSUME DeskInv, [Next]_vars PROVE [Spared]_vars
  <2>1. SUFFICES ASSUME Next, recalls' > recalls, inst = "active"
                 PROVE  \E t \in Ids \ DOMAIN task' :
                          /\ Completed(t)
                          /\ \A i \in Ids \ (DOMAIN task' \cup {t}) : Open(i) /\ task[i].node # task[t].node
                          /\ \A i \in Ids \cap DOMAIN task' :
                               Completed(i) /\ i # task[t].parent => task'[i].reason = task[i].reason
    BY <1>1
  <2>2. PICK t \in Ids, u \in People : Recall(u, t)
    BY <1>1, <2>1, OnlyRecalls
  <2>3. QED
    BY <1>1, <2>2, RecallSpares
<1>2. QED
  BY <1>1, DeskInvariant, PTL DEF Spec, RecallSparesOthers

-----------------------------------------------------------------------------
(* What rows say of themselves: a row with an answer is completed, and one *)
(* without a reason is open; only a parent of votes is active for nobody,  *)
(* and a vote is somebody's unless an administrator took it away.          *)
Told(x) ==
  /\ x.status = "completed" <=> x.reason \in Vote
  /\ Opened(x) <=> x.reason = "none"
Faced(f, x) ==
  /\ x.status = "active" /\ x.assignee = Nobody => x.parent = NoId /\ VoteNode(f, x.node)
  /\ x.parent # NoId =>
       /\ VoteNode(f, x.node) \/ "AddSign" \in f.uses
       /\ x.assignee = Nobody \/ x.claimed => "SetAssignee" \in f.uses
  /\ x.closedBy # NoId /\ VoteNode(f, x.node) => {"Claim", "SetAssignee"} \subseteq f.uses
Sincere(f, rows) == \A i \in DOMAIN rows : Told(rows[i]) /\ Faced(f, rows[i])

(* Or-signs wait for nobody's claim. *)
Lone(rows) ==
  \A i, j \in DOMAIN rows :
    rows[i].parent = NoId /\ rows[j].parent = NoId /\ rows[i].node = rows[j].node /\ i # j
      => rows[i].status # "pending" /\ ~rows[i].claimed

(* A parent that waits has a vote to wait for. *)
Awaits(rows, p) == rows[p].parent = NoId /\ rows[p].status = "active" /\ rows[p].assignee = Nobody
Asking(rows) ==
  \A p \in DOMAIN rows : Awaits(rows, p) => \E j \in DOMAIN rows : rows[j].parent = p /\ Opened(rows[j])
Base(f, rows) == Sincere(f, rows) /\ Lone(rows) /\ Asking(rows)

(* A node of votes is no or-sign. *)
LEMMA VotesNoOrSign ==
  ASSUME NEW f, NEW n, VoteNode(f, n)
  PROVE  ~OrSigned(f, n)
BY DEF VoteNode, OrSigned

-----------------------------------------------------------------------------
(* Rows that leave, and rows that are passed on.                           *)

(* What is left of rows is right. *)
LEMMA BaseLeft ==
  ASSUME NEW f, NEW rows, Base(f, rows), NEW gone, NEW r, Left(rows, gone, r)
  PROVE  Sincere(f, r) /\ Lone(r)
<1>1. \A j \in DOMAIN r : j \in DOMAIN rows /\ Alike(r[j], rows[j])
  BY DEF Left
<1>2. Sincere(f, r)
  BY <1>1 DEF Base, Sincere, Told, Faced, Alike, Opened
<1>3. Lone(r)
  BY <1>1 DEF Base, Lone, Alike
<1>4. QED
  BY <1>2, <1>3

(* Nodes that leave take their votes along. *)
LEMMA BaseGone ==
  ASSUME DeskInv, Base(def, task), NodesGone
  PROVE  Base(def, task')
<1>1. PICK gone, r : ByNode(gone) /\ Left(task, gone, r) /\ r = task'
  BY DEF NodesGone
<1>2. Ids = DOMAIN task /\ Family(def, task) /\ \A j \in DOMAIN task : j # NoId
  BY RowBounds DEF DeskInv, RowInv, Typed, Ids, NoId, Id
<1>3. ASSUME NEW p \in DOMAIN r, Awaits(r, p) PROVE \E j \in DOMAIN r : r[j].parent = p /\ Opened(r[j])
  <2>1. p \in DOMAIN task /\ p \notin gone /\ Awaits(task, p)
    BY <1>1, <1>3 DEF Left, Alike, Awaits
  <2>2. PICK j \in DOMAIN task : task[j].parent = p /\ Opened(task[j])
    BY <2>1 DEF Base, Asking
  <2>3. task[p].node = task[j].node
    BY <1>2, <2>1, <2>2 DEF Family
  <2>4. j \notin gone
    BY <1>1, <1>2, <2>1, <2>3 DEF ByNode
  <2>5. j \in DOMAIN r /\ Alike(r[j], task[j])
    BY <1>1, <2>4 DEF Left
  <2>6. QED
    BY <2>2, <2>5 DEF Alike, Opened
<1>4. Sincere(def, r) /\ Lone(r)
  BY <1>1, BaseLeft
<1>5. QED
  BY <1>1, <1>3, <1>4 DEF Base, Asking

(* A task that is passed on. *)
LEMMA BasePassed ==
  ASSUME DeskInv, Base(def, task), TaskPassed
  PROVE  Base(def, task')
<1>1. PICK i, r : Passed(def, task, i, r) /\ r = task'
  BY DEF TaskPassed
<1>2. PICK w, x : w = task[i] /\ x = r[i]
  OBVIOUS
<1>3. /\ i \in DOMAIN task /\ DOMAIN r = DOMAIN task /\ \A j \in DOMAIN task : j # i => r[j] = task[j]
      /\ Opened(w) /\ Opened(x)
      /\ x.node = w.node /\ x.parent = w.parent /\ x.fallback = w.fallback
      /\ x.closedBy = w.closedBy /\ x.reason = w.reason /\ x.claimed = w.claimed
      /\ Hands(def, w, x.assignee, x.owner, x.status, x.pool)
  BY <1>1, <1>2 DEF Passed
<1>4. RowInv(def, task, answered) /\ Apart(def) /\ \A j \in DOMAIN task : j # NoId
  BY RowBounds DEF DeskInv, RowInv, Typed, NoId, Id
<1>5. Told(x) /\ Faced(def, x)
  <2>1. Told(w) /\ Faced(def, w)
    BY <1>2, <1>3 DEF Base, Sincere
  <2>2. Told(x)
    BY <1>3, <2>1 DEF Told, Opened, Vote
  <2>3. x.status = "active" /\ x.assignee = Nobody => x.parent = NoId /\ VoteNode(def, x.node)
    BY <1>3, <2>1 DEF Hands, Faced
  <2>4. x.parent # NoId =>
          /\ VoteNode(def, x.node) \/ "AddSign" \in def.uses
          /\ x.assignee = Nobody \/ x.claimed => "SetAssignee" \in def.uses
    BY <1>3, <2>1 DEF Hands, Faced
  <2>5. QED
    BY <1>3, <2>1, <2>2, <2>3, <2>4 DEF Faced
<1>6. Sincere(def, r)
  BY <1>2, <1>3, <1>5 DEF Base, Sincere
<1>7. Lone(r)
  <2>1. OrSigned(def, w.node) => x.status = w.status
    <3>1. w.node \in ToSet(def.nodes)
      BY <1>2, <1>3, <1>4 DEF RowInv, Typed, NodesOf
    <3>2. OrSigned(def, w.node) => "SetAssignee" \notin def.uses
      BY <1>4, <3>1 DEF Apart, OrSigned
    <3>3. QED
      BY <1>3, <3>2 DEF Hands
  <2>2. ASSUME NEW j \in DOMAIN r, NEW k \in DOMAIN r,
               r[j].parent = NoId, r[k].parent = NoId, r[j].node = r[k].node, j # k
        PROVE  r[j].status # "pending" /\ ~r[j].claimed
    <3>1. /\ task[j].parent = NoId /\ task[k].parent = NoId /\ task[j].node = task[k].node
          /\ r[j].claimed = task[j].claimed
      BY <1>2, <1>3, <2>2
    <3>2. OrSigned(def, task[j].node)
      BY <1>3, <1>4, <2>2, <3>1 DEF RowInv, LoneMain
    <3>3. r[j].status = task[j].status
      BY <1>2, <1>3, <2>1, <2>2, <3>2
    <3>4. QED
      BY <1>3, <2>2, <3>1, <3>3 DEF Base, Lone
  <2>3. QED
    BY <2>2 DEF Lone
<1>8. Asking(r)
  <2>1. ASSUME NEW p \in DOMAIN r, Awaits(r, p) PROVE \E j \in DOMAIN r : r[j].parent = p /\ Opened(r[j])
    <3>1. Awaits(task, p)
      BY <1>2, <1>3, <2>1 DEF Awaits, Hands
    <3>2. PICK j \in DOMAIN task : task[j].parent = p /\ Opened(task[j])
      BY <1>3, <2>1, <3>1 DEF Base, Asking
    <3>3. r[j].parent = p /\ Opened(r[j])
      BY <1>2, <1>3, <3>2
    <3>4. QED
      BY <1>3, <3>3
  <2>2. QED
    BY <2>1 DEF Asking
<1>9. QED
  BY <1>1, <1>6, <1>7, <1>8 DEF Base

(* A claim. *)
LEMMA BaseClaimed ==
  ASSUME DeskInv, Base(def, task), TaskClaimed
  PROVE  Base(def, task')
<1>1. PICK i, u, O, r : Claimed(task, i, u, O, r) /\ r = task'
  BY DEF TaskClaimed
<1>2. /\ i \in DOMAIN task /\ u \in User /\ task[i].status = "pending" /\ DOMAIN r = DOMAIN task
      /\ \A j : j \in O <=> j \in DOMAIN task /\ j # i /\ task[j].node = task[i].node /\ task[j].status = "pending"
      /\ \A j \in DOMAIN task : /\ r[j].node = task[j].node /\ r[j].parent = task[j].parent
                                /\ r[j].fallback = task[j].fallback
      /\ r[i].assignee = u /\ r[i].status = "active" /\ r[i].claimed
      /\ r[i].closedBy = task[i].closedBy /\ r[i].reason = task[i].reason
      /\ \A j \in O : r[j].status = "terminated" /\ r[j].reason = "claimed_by_other" /\ r[j].closedBy = i
                      /\ r[j].assignee = task[j].assignee /\ r[j].claimed = task[j].claimed
      /\ \A j \in DOMAIN task : j # i /\ j \notin O =>
           /\ r[j].status = task[j].status /\ r[j].reason = task[j].reason
           /\ r[j].assignee = task[j].assignee /\ r[j].claimed = task[j].claimed
           /\ r[j].closedBy = IF task[j].closedBy = i THEN NoId ELSE task[j].closedBy
  BY <1>1 DEF Claimed
<1>3. RowInv(def, task, answered) /\ "Claim" \in def.uses /\ \A j \in DOMAIN task : j # NoId
  BY RowBounds DEF DeskInv, RowInv, Typed, NoId, Id, TaskClaimed
<1>4. Sincere(def, task) /\ Lone(task)
  BY DEF Base
<1>5. \A j \in DOMAIN task : task[j].status = "pending" => task[j].assignee = Nobody
  BY <1>3 DEF RowInv, Claims
<1>6. Sincere(def, r)
  <2>1. ASSUME NEW j \in DOMAIN r, j = i PROVE Told(r[j]) /\ Faced(def, r[j])
    <3>1. Told(task[i]) /\ Faced(def, task[i]) /\ task[i].assignee = Nobody
      BY <1>2, <1>4, <1>5 DEF Sincere
    <3>2. u # Nobody
      BY <1>2, OrganisationAssumption
    <3>3. Told(r[i])
      BY <1>2, <3>1 DEF Told, Opened, Vote
    <3>4. Faced(def, r[i])
      BY <1>2, <3>1, <3>2 DEF Faced
    <3>5. QED
      BY <2>1, <3>3, <3>4
  <2>2. ASSUME NEW j \in DOMAIN r, j \in O PROVE Told(r[j]) /\ Faced(def, r[j])
    <3>1. Told(task[j]) /\ Faced(def, task[j]) /\ task[j].assignee = Nobody /\ Faced(def, task[i])
          /\ task[i].assignee = Nobody
      BY <1>2, <1>4, <1>5, <2>2 DEF Sincere
    <3>2. "SetAssignee" \in def.uses
      <4>1. CASE task[j].parent # NoId \/ task[i].parent # NoId
        BY <3>1, <4>1 DEF Faced
      <4>2. CASE task[j].parent = NoId /\ task[i].parent = NoId
        BY <1>2, <1>4, <2>2, <4>2 DEF Lone
      <4>3. QED
        BY <4>1, <4>2
    <3>3. Told(r[j])
      BY <1>2, <2>2 DEF Told, Opened, Vote
    <3>4. Faced(def, r[j])
      BY <1>2, <1>3, <2>2, <3>1, <3>2 DEF Faced
    <3>5. QED
      BY <3>3, <3>4
  <2>3. ASSUME NEW j \in DOMAIN r, j # i, j \notin O PROVE Told(r[j]) /\ Faced(def, r[j])
    <3>1. Told(task[j]) /\ Faced(def, task[j])
      BY <1>2, <1>4, <2>3 DEF Sincere
    <3>2. /\ r[j].status = task[j].status /\ r[j].reason = task[j].reason
          /\ r[j].assignee = task[j].assignee /\ r[j].claimed = task[j].claimed
          /\ r[j].node = task[j].node /\ r[j].parent = task[j].parent
          /\ r[j].closedBy # NoId => r[j].closedBy = task[j].closedBy
      BY <1>2, <2>3
    <3>3. QED
      BY <3>1, <3>2 DEF Told, Faced, Opened
  <2>4. QED
    BY <2>1, <2>2, <2>3 DEF Sincere
<1>7. Lone(r)
  <2>1. ASSUME NEW j \in DOMAIN r, NEW k \in DOMAIN r,
               r[j].parent = NoId, r[k].parent = NoId, r[j].node = r[k].node, j # k
        PROVE  r[j].status # "pending" /\ ~r[j].claimed
    <3>1. task[j].parent = NoId /\ task[k].parent = NoId /\ task[j].node = task[k].node
      BY <1>2, <2>1
    <3>2. task[j].status # "pending" /\ ~task[j].claimed
      BY <1>2, <1>4, <2>1, <3>1 DEF Lone
    <3>3. j # i
      BY <1>2, <3>2
    <3>4. r[j].claimed = task[j].claimed /\ (r[j].status = task[j].status \/ r[j].status = "terminated")
      BY <1>2, <2>1, <3>3
    <3>5. QED
      BY <3>2, <3>4
  <2>2. QED
    BY <2>1 DEF Lone
<1>8. Asking(r)
  <2>1. ASSUME NEW p \in DOMAIN r, Awaits(r, p) PROVE \E j \in DOMAIN r : r[j].parent = p /\ Opened(r[j])
    <3>1. p # i /\ p \notin O
      BY <1>2, <2>1, OrganisationAssumption DEF Awaits
    <3>2. Awaits(task, p) /\ p \in DOMAIN task
      BY <1>2, <2>1, <3>1 DEF Awaits
    <3>3. PICK j \in DOMAIN task : task[j].parent = p /\ Opened(task[j])
      BY <3>2 DEF Base, Asking
    <3>4. CASE j \notin O
      BY <1>2, <3>3, <3>4 DEF Opened
    <3>5. CASE j \in O
      <4>1. task[j].node = task[p].node /\ task[i].node = task[p].node
        BY <1>2, <1>3, <3>2, <3>3, <3>5 DEF RowInv, Family
      <4>2. ~OrSigned(def, task[p].node)
        BY <1>4, <3>2, VotesNoOrSign DEF Sincere, Faced, Awaits
      <4>3. task[i].parent # NoId
        BY <1>2, <1>3, <3>1, <3>2, <4>1, <4>2 DEF RowInv, LoneMain, Awaits
      <4>4. PICK q : q = task[i].parent
        OBVIOUS
      <4>5. q \in DOMAIN task /\ task[q].parent = NoId /\ task[q].node = task[p].node
        BY <1>2, <1>3, <4>1, <4>3, <4>4 DEF RowInv, Family
      <4>6. q = p
        BY <1>3, <3>2, <4>2, <4>5 DEF RowInv, LoneMain, Awaits
      <4>7. i \in DOMAIN r /\ r[i].parent = p /\ Opened(r[i])
        BY <1>2, <4>4, <4>6 DEF Opened
      <4>8. QED
        BY <4>7
    <3>6. QED
      BY <3>4, <3>5
  <2>2. QED
    BY <2>1 DEF Asking
<1>9. QED
  BY <1>1, <1>6, <1>7, <1>8 DEF Base

(* A claimed task that goes back. *)
LEMMA BaseGivenBack ==
  ASSUME DeskInv, Base(def, task), TaskGivenBack
  PROVE  Base(def, task')
<1>1. PICK i, J, r : GivesBack(task, i, J, r) /\ r = task'
  BY DEF TaskGivenBack
<1>2. /\ i \in DOMAIN task /\ task[i].status = "active" /\ task[i].claimed /\ DOMAIN r = DOMAIN task
      /\ \A j : j \in J <=> j \in DOMAIN task /\ j # i /\ task[j].node = task[i].node /\ task[j].closedBy = i
      /\ \A j \in DOMAIN task : r[j].node = task[j].node /\ r[j].parent = task[j].parent
      /\ r[i].assignee = Nobody /\ r[i].status = "pending" /\ ~r[i].claimed
      /\ r[i].closedBy = task[i].closedBy /\ r[i].reason = task[i].reason
      /\ \A j \in J : r[j].status = "pending" /\ r[j].reason = "none" /\ r[j].closedBy = NoId
                      /\ r[j].assignee = task[j].assignee /\ r[j].claimed = task[j].claimed
      /\ \A j \in DOMAIN task : j # i /\ j \notin J => r[j] = task[j]
  BY <1>1 DEF GivesBack
<1>3. RowInv(def, task, answered) /\ \A j \in DOMAIN task : j # NoId
  BY RowBounds DEF DeskInv, RowInv, Typed, NoId, Id
<1>4. Sincere(def, task) /\ Lone(task)
  BY DEF Base
<1>5. Sincere(def, r)
  <2>1. ASSUME NEW j \in DOMAIN r PROVE Told(r[j]) /\ Faced(def, r[j])
    <3>1. Told(task[j]) /\ Faced(def, task[j])
      BY <1>2, <1>4 DEF Sincere
    <3>2. CASE j = i
      BY <1>2, <3>1, <3>2 DEF Told, Faced, Opened, Vote
    <3>3. CASE j \in J
      BY <1>2, <3>1, <3>3 DEF Told, Faced, Opened, Vote
    <3>4. QED
      BY <1>2, <3>1, <3>2, <3>3
  <2>2. QED
    BY <2>1 DEF Sincere
<1>6. Lone(r)
  <2>1. ASSUME NEW j \in DOMAIN r, NEW k \in DOMAIN r,
               r[j].parent = NoId, r[k].parent = NoId, r[j].node = r[k].node, j # k
        PROVE  r[j].status # "pending" /\ ~r[j].claimed
    <3>1. task[j].parent = NoId /\ task[k].parent = NoId /\ task[j].node = task[k].node
      BY <1>2, <2>1
    <3>2. task[j].status # "pending" /\ ~task[j].claimed
      BY <1>2, <1>4, <2>1, <3>1 DEF Lone
    <3>3. OrSigned(def, task[j].node)
      BY <1>2, <1>3, <2>1, <3>1 DEF RowInv, LoneMain
    <3>4. j # i /\ j \notin J
      BY <1>2, <1>3, <2>1, <3>2, <3>3 DEF RowInv, Claims
    <3>5. QED
      BY <1>2, <2>1, <3>2, <3>4
  <2>2. QED
    BY <2>1 DEF Lone
<1>7. Asking(r)
  <2>1. ASSUME NEW p \in DOMAIN r, Awaits(r, p) PROVE \E j \in DOMAIN r : r[j].parent = p /\ Opened(r[j])
    <3>1. p # i /\ p \notin J /\ p \in DOMAIN task
      BY <1>2, <2>1 DEF Awaits
    <3>2. Awaits(task, p)
      BY <1>2, <2>1, <3>1 DEF Awaits
    <3>3. PICK j \in DOMAIN task : task[j].parent = p /\ Opened(task[j])
      BY <3>1, <3>2 DEF Base, Asking
    <3>4. Opened(r[j]) /\ r[j].parent = p
      BY <1>2, <3>3 DEF Opened
    <3>5. QED
      BY <1>2, <3>4
  <2>2. QED
    BY <2>1 DEF Asking
<1>8. QED
  BY <1>1, <1>5, <1>6, <1>7 DEF Base

(* Answers. *)
LEMMA BaseAfter ==
  ASSUME NEW f, NEW rows, Sincere(f, rows), Lone(rows),
         NEW A, NEW T, NEW why \in {"threshold", "sibling"}, NEW r, RowsAfter(r, rows, A, T, why)
  PROVE  Sincere(f, r) /\ Lone(r)
<1>1. /\ DOMAIN r = DOMAIN rows
      /\ \A j \in DOMAIN rows : RowAfter(r[j], rows[j], rows[j].node, j, A, T, why)
  BY DEF RowsAfter
<1>2. \A j \in DOMAIN rows :
        /\ r[j].node = rows[j].node /\ r[j].parent = rows[j].parent /\ r[j].closedBy = rows[j].closedBy
        /\ r[j].assignee = rows[j].assignee /\ r[j].claimed = rows[j].claimed
        /\ \/ r[j].status = "completed" /\ r[j].reason \in Vote
           \/ r[j].status = "terminated" /\ r[j].reason \in {"threshold", "sibling"}
           \/ r[j].status = rows[j].status /\ r[j].reason = rows[j].reason
  BY <1>1 DEF RowAfter
<1>3. ASSUME NEW j \in DOMAIN r PROVE Told(r[j]) /\ Faced(f, r[j])
  <2>1. Told(rows[j]) /\ Faced(f, rows[j])
    BY <1>1 DEF Sincere
  <2>2. Told(r[j])
    BY <1>1, <1>2, <2>1 DEF Told, Opened, Vote
  <2>3. Faced(f, r[j])
    BY <1>1, <1>2, <2>1 DEF Faced
  <2>4. QED
    BY <2>2, <2>3
<1>4. Lone(r)
  BY <1>1, <1>2 DEF Lone
<1>5. QED
  BY <1>3, <1>4 DEF Sincere

(* A drive that is due finds no open task. *)
LEMMA NobodyAwaits ==
  ASSUME DeskInv', asks' # {}
  PROVE  Asking(task')
<1>1. \A i \in DOMAIN task' : ~Opened(task'[i])
  BY DEF DeskInv, Quiet, Driving, Ids
<1>2. QED
  BY <1>1 DEF Asking, Awaits, Opened

(* The answer of a main task. *)
LEMMA BaseAnswered ==
  ASSUME DeskInv', Base(def, task), TaskAnswered
  PROVE  Base(def, task')
<1>1. PICK i \in Ids : /\ asks' = asks \cup {task[i].node}
                       /\ \E T : RowsAfter(task', task, {i}, T, "sibling")
  BY DEF TaskAnswered
<1>2. Sincere(def, task') /\ Lone(task')
  BY <1>1, BaseAfter DEF Base
<1>3. QED
  BY <1>1, <1>2, NobodyAwaits DEF Base

(* A vote that ends its parent. *)
LEMMA BaseDecided ==
  ASSUME DeskInv', Base(def, task), TaskDecided
  PROVE  Base(def, task')
<1>0. PICK i \in Ids : \E w \in Vote : \E mid, T : VoteEnds(i, mid, T, w)
  BY DEF TaskDecided
<1>1. PICK w, mid, T : VoteEnds(i, mid, T, w)
  BY <1>0
<1>2. PICK p : p = task[i].parent
  OBVIOUS
<1>3. /\ RowsAfter(mid, task, {i}, {}, "sibling") /\ RowsAfter(task', mid, {p}, T, "threshold")
      /\ asks' = asks \cup {task[i].node}
  BY <1>1, <1>2 DEF VoteEnds
<1>4. Sincere(def, mid) /\ Lone(mid)
  BY <1>3, BaseAfter DEF Base
<1>5. Sincere(def, task') /\ Lone(task')
  BY <1>3, <1>4, BaseAfter
<1>6. QED
  BY <1>3, <1>5, NobodyAwaits DEF Base

(* A vote that leaves its parent open leaves a vote to be cast. *)
LEMMA BaseVoted ==
  ASSUME DeskInv, DeskInv', Base(def, task), TaskVoted
  PROVE  Base(def, task')
<1>0. PICK r : r = task'
  OBVIOUS
<1>1. PICK i \in Ids :
        /\ task[i].parent # NoId /\ task[i].status = "active"
        /\ RowsAfter(r, task, {i}, {}, "sibling")
        /\ Decided(r, task[i].parent) => task[task[i].parent].assignee # Nobody
  BY <1>0 DEF TaskVoted
<1>2. Sincere(def, r) /\ Lone(r)
  BY <1>1, BaseAfter DEF Base
<1>3. /\ DOMAIN r = DOMAIN task
      /\ \A j \in DOMAIN task : RowAfter(r[j], task[j], task[j].node, j, {i}, {}, "sibling")
  BY <1>1 DEF RowsAfter
<1>4. /\ \A j \in DOMAIN task : r[j].parent = task[j].parent /\ r[j].assignee = task[j].assignee
                                /\ r[j].status \in RowStatus
      /\ \A j \in DOMAIN task : j # i => r[j].status = task[j].status
      /\ r[i].status = "completed" /\ i \in DOMAIN task
  <2>1. \A j \in DOMAIN task : r[j] \in Row(task[j].node)
    BY <1>3 DEF RowAfter
  <2>2. \A j \in DOMAIN task : r[j].status \in RowStatus
    BY <2>1 DEF Row
  <2>3. QED
    BY <1>3, <2>2 DEF RowAfter, Ids
<1>5. ASSUME NEW p \in DOMAIN r, Awaits(r, p) PROVE \E j \in DOMAIN r : r[j].parent = p /\ Opened(r[j])
  <2>1. p # i /\ Awaits(task, p)
    BY <1>1, <1>3, <1>4, <1>5 DEF Awaits
  <2>2. CASE p = task[i].parent
    <3>1. ~Decided(r, p)
      BY <1>1, <2>1, <2>2 DEF Awaits
    <3>2. DOMAIN r \subseteq Id
      BY <1>0, <1>3 DEF DeskInv, RowInv, Typed
    <3>3. ~\A j \in DOMAIN r : r[j].parent = p => r[j].status \in {"completed", "terminated"}
      BY <1>3, <1>4, <1>5, <2>2, <3>1, <3>2, NobodyLeft
    <3>4. QED
      BY <1>3, <1>4, <3>3 DEF RowStatus, Opened
  <2>3. CASE p # task[i].parent
    <3>1. PICK j \in DOMAIN task : task[j].parent = p /\ Opened(task[j])
      BY <1>3, <1>5, <2>1 DEF Base, Asking
    <3>2. QED
      BY <1>3, <1>4, <2>3, <3>1 DEF Opened
  <2>4. QED
    BY <2>2, <2>3
<1>6. QED
  BY <1>0, <1>2, <1>5 DEF Base, Asking

(* The new tasks of a node. *)
LEMMA BaseMade ==
  ASSUME DeskInv, Base(def, task), NodeMade
  PROVE  Base(def, task')
<1>0. PICK r : r = task'
  OBVIOUS
<1>1. PICK n, N : MadeOf(n, N, r) /\ \A j \in Ids : ~Opened(task[j]) /\ task[j].node # n
  BY <1>0 DEF NodeMade
<1>2. /\ \A j : j \in DOMAIN r <=> j \in DOMAIN task \/ j \in N
      /\ \A j \in DOMAIN task : r[j] = task[j] /\ j \notin N /\ task[j].node # n /\ ~Opened(task[j])
      /\ \A k \in N : Made(r[k], n)
      /\ Shaped(n, N, r)
  BY <1>1 DEF MadeOf, Ids
<1>3. ASSUME NEW k \in N PROVE Told(r[k]) /\ Faced(def, r[k])
  <2>1. r[k].node = n /\ Opened(r[k]) /\ r[k].reason = "none" /\ r[k].closedBy = NoId /\ ~r[k].claimed
    BY <1>2 DEF Made
  <2>2. Told(r[k])
    BY <2>1 DEF Told, Opened, Vote
  <2>3. r[k].status = "active" /\ r[k].assignee = Nobody => r[k].parent = NoId /\ VoteNode(def, r[k].node)
    BY <1>2, <2>1 DEF Shaped, Voters
  <2>4. r[k].parent # NoId => VoteNode(def, r[k].node) /\ r[k].assignee # Nobody
    BY <1>2, <2>1 DEF Shaped, Voters
  <2>5. QED
    BY <2>1, <2>2, <2>3, <2>4 DEF Faced
<1>4. Sincere(def, r)
  BY <1>2, <1>3 DEF Base, Sincere
<1>5. Lone(r)
  <2>1. ASSUME NEW j \in DOMAIN r, NEW k \in DOMAIN r,
               r[j].parent = NoId, r[k].parent = NoId, r[j].node = r[k].node, j # k
        PROVE  r[j].status # "pending" /\ ~r[j].claimed
    <3>1. \A l \in N : r[l].node = n /\ ~r[l].claimed
      BY <1>2 DEF Made
    <3>2. CASE j \in N
      <4>1. k \in N
        BY <1>2, <2>1, <3>1, <3>2
      <4>2. r[j].status # "pending"
        <5>1. N # {} /\ \A l \in N : l # NoId
          BY <1>1 DEF MadeOf
        <5>2. QED
          BY <1>2, <2>1, <3>2, <4>1, <5>1 DEF Shaped
      <4>3. QED
        BY <3>1, <3>2, <4>2
    <3>3. CASE j \notin N
      <4>1. j \in DOMAIN task /\ k \in DOMAIN task /\ r[j] = task[j] /\ r[k] = task[k]
        BY <1>2, <2>1, <3>1, <3>3
      <4>2. QED
        BY <2>1, <4>1 DEF Base, Lone
    <3>4. QED
      BY <3>2, <3>3
  <2>2. QED
    BY <2>1 DEF Lone
<1>6. Asking(r)
  <2>1. ASSUME NEW p \in DOMAIN r, Awaits(r, p) PROVE \E j \in DOMAIN r : r[j].parent = p /\ Opened(r[j])
    <3>1. p \in N
      BY <1>2, <2>1 DEF Awaits, Opened
    <3>2. \E j \in N : r[j].parent = p
      BY <1>2, <2>1, <3>1 DEF Shaped, Voters, Awaits
    <3>3. QED
      BY <1>2, <3>2 DEF Made
  <2>2. QED
    BY <2>1 DEF Asking
<1>7. QED
  BY <1>0, <1>4, <1>5, <1>6 DEF Base

(* New signers. *)
LEMMA BaseSigned ==
  ASSUME DeskInv, Base(def, task), TaskSigned
  PROVE  Base(def, task')
<1>0. PICK r : r = task'
  OBVIOUS
<1>1. PICK m \in Ids : \E N : task[m].parent = NoId /\ Signers(m, N, r)
  BY <1>0 DEF TaskSigned
<1>2. PICK N : Signers(m, N, r)
  BY <1>1
<1>3. /\ \A j : j \in DOMAIN r <=> j \in DOMAIN task \/ j \in N
      /\ \A j \in DOMAIN task : r[j] = task[j]
      /\ \A k \in N : /\ r[k].parent = m /\ r[k].status = "active" /\ r[k].reason = "none"
                      /\ r[k].closedBy = NoId /\ ~r[k].claimed /\ r[k].assignee # Nobody
  BY <1>2 DEF Signers
<1>4. "AddSign" \in def.uses /\ m # NoId
  BY RowBounds DEF TaskSigned, DeskInv, RowInv, Typed, Ids, NoId, Id
<1>5. \A k \in N : Told(r[k]) /\ Faced(def, r[k])
  BY <1>3, <1>4 DEF Told, Faced, Opened, Vote
<1>6. Sincere(def, r)
  BY <1>3, <1>5 DEF Base, Sincere
<1>7. Lone(r)
  BY <1>3, <1>4 DEF Base, Lone
<1>8. Asking(r)
  BY <1>3, <1>4 DEF Base, Asking, Awaits
<1>9. QED
  BY <1>0, <1>6, <1>7, <1>8 DEF Base

(* Signers that are taken off. *)
LEMMA BaseReduced ==
  ASSUME DeskInv, DeskInv', Base(def, task), Reduces
  PROVE  Base(def, task')
<1>1. CASE TaskReduced
  <2>0. PICK r : r = task'
    OBVIOUS
  <2>9. PICK m \in Ids : \E gone :
          /\ TakenOff(m, gone) /\ Left(task, gone, r)
          /\ ByVotes(task[m].node) => Electorate(r, m) # {} /\ ~Decided(r, m)
    BY <1>1, <2>0 DEF TaskReduced
  <2>1. PICK gone :
          /\ TakenOff(m, gone) /\ Left(task, gone, r)
          /\ ByVotes(task[m].node) => Electorate(r, m) # {} /\ ~Decided(r, m)
    BY <2>9
  <2>2. Sincere(def, r) /\ Lone(r)
    BY <2>1, BaseLeft
  <2>3. DOMAIN r \subseteq Id /\ \A j \in DOMAIN r : r[j].status \in RowStatus
    <3>1. RowInv(def', r, answered')
      BY <2>0 DEF DeskInv
    <3>2. DOMAIN r \subseteq Id /\ \A j \in DOMAIN r : r[j] \in Row(r[j].node)
      BY <3>1 DEF RowInv, Typed
    <3>3. QED
      BY <3>2, RowFields
  <2>4. ASSUME NEW p \in DOMAIN r, Awaits(r, p) PROVE \E j \in DOMAIN r : r[j].parent = p /\ Opened(r[j])
    <3>1. p \in DOMAIN task /\ p \notin gone /\ Awaits(task, p)
      BY <2>1, <2>4 DEF Left, Alike, Awaits
    <3>2. CASE p = m
      <4>1. ByVotes(task[m].node)
        BY <3>1, <3>2 DEF Base, Sincere, Faced, Awaits, VoteNode, ByVotes
      <4>2. PICK i : i \in Electorate(r, m)
        BY <2>1, <4>1
      <4>3. i \in DOMAIN r /\ r[i].parent = m /\ r[i].status # "terminated"
        BY <4>2 DEF Electorate
      <4>4. ~Decided(r, m)
        BY <2>1, <4>1
      <4>5. ~\A j \in DOMAIN r : r[j].parent = m => r[j].status \in {"completed", "terminated"}
        <5>1. SUFFICES ASSUME \A j \in DOMAIN r : r[j].parent = m => r[j].status \in {"completed", "terminated"}
                       PROVE  FALSE
          OBVIOUS
        <5>2. r[i].status = "completed"
          BY <4>3, <5>1
        <5>3. QED
          BY <2>3, <3>1, <3>2, <4>3, <4>4, <5>1, <5>2, NobodyLeft
      <4>6. QED
        BY <2>3, <3>2, <4>5 DEF RowStatus, Opened
    <3>3. CASE p # m
      <4>1. PICK j \in DOMAIN task : task[j].parent = p /\ Opened(task[j])
        BY <3>1 DEF Base, Asking
      <4>2. j \in DOMAIN r /\ Alike(r[j], task[j])
        BY <2>1, <3>3, <4>1 DEF TakenOff, Left
      <4>3. QED
        BY <4>1, <4>2 DEF Alike, Opened
    <3>4. QED
      BY <3>2, <3>3
  <2>5. QED
    BY <2>0, <2>2, <2>4 DEF Base, Asking
<1>2. CASE ReducedDecided
  <2>1. PICK m \in Ids : \E gone, mid : /\ Left(task, gone, mid)
                                       /\ RowsAfter(task', mid, {m}, {}, "sibling")
                                       /\ asks' = asks \cup {task[m].node}
    BY <1>2 DEF ReducedDecided
  <2>2. PICK gone, mid : Left(task, gone, mid) /\ RowsAfter(task', mid, {m}, {}, "sibling")
    BY <2>1
  <2>3. Sincere(def, mid) /\ Lone(mid)
    BY <2>2, BaseLeft
  <2>4. Sincere(def, task') /\ Lone(task')
    BY <2>2, <2>3, BaseAfter
  <2>5. QED
    BY <2>1, <2>4, NobodyAwaits DEF Base
<1>3. QED
  BY <1>1, <1>2 DEF Reduces

(* A recalled answer. *)
LEMMA BaseRecalled ==
  ASSUME DeskInv, Base(def, task), TaskRecalled
  PROVE  Base(def, task')
<1>0. PICK r, F : r = task' /\ F = Fresh(1)
  OBVIOUS
<1>1. PICK t \in Ids : Recalled(t, task[t].node)
  BY DEF TaskRecalled
<1>2. PICK n : n = task[t].node
  OBVIOUS
<1>3. /\ CanRecall(t)
      /\ \A j : j \in DOMAIN r <=> (j \in DOMAIN task /\ j \notin GoneBy(t)) \/ j = F
      /\ F \notin DOMAIN task
      /\ \A j \in DOMAIN task : j \notin GoneBy(t) => KeptAs(r[j], task[j], j \in BackBy(t))
      /\ Renewed(r[F], t, n)
  BY <1>0, <1>1, <1>2 DEF Recalled, Recalls, Ids
<1>4. /\ RowInv(def, task, answered) /\ Ids = DOMAIN task /\ t \in DOMAIN task /\ t \in GoneBy(t)
      /\ "Recall" \in def.uses /\ Completed(t) /\ Apart(def)
      /\ \A j \in DOMAIN task : j # NoId /\ task[j].node \in ToSet(def.nodes)
  BY <1>1, <1>3, RowBounds DEF DeskInv, RowInv, Typed, NoId, Id, CanRecall, GoneBy, Ids, NodesOf
<1>5. Sincere(def, task) /\ Lone(task)
  BY DEF Base
<1>6. \A j \in DOMAIN task : task[j].parent # NoId => VoteNode(def, task[j].node)
  BY <1>4 DEF RowInv, Recallable
<1>7. \A j \in DOMAIN task : VoteNode(def, task[j].node) => "SetAssignee" \notin def.uses
  BY <1>4 DEF Apart, VoteNode
<1>8. \A j \in BackBy(t) :
        \/ j = task[t].parent /\ j \in DOMAIN task
        \/ j \in DOMAIN task /\ task[j].parent = task[t].parent /\ task[t].parent # NoId
  BY <1>4 DEF BackBy, Reopened, CutOff
<1>9. ASSUME NEW j \in DOMAIN task, j \notin GoneBy(t) PROVE Told(r[j]) /\ Faced(def, r[j])
  <2>1. Told(task[j]) /\ Faced(def, task[j]) /\ KeptAs(r[j], task[j], j \in BackBy(t))
    BY <1>3, <1>5, <1>9 DEF Sincere
  <2>2. CASE j \notin BackBy(t)
    BY <2>1, <2>2 DEF KeptAs, Told, Faced, Opened
  <2>3. CASE j \in BackBy(t)
    <3>1. Told(r[j])
      BY <2>1, <2>3 DEF KeptAs, Told, Opened, Vote
    <3>2. r[j].assignee = Nobody => r[j].parent = NoId /\ VoteNode(def, r[j].node)
      <4>1. CASE j = task[t].parent
        <5>1. task[t].parent # NoId /\ task[j].parent = NoId /\ task[j].node = task[t].node
          BY <1>4, <4>1 DEF RowInv, Family
        <5>2. QED
          BY <1>4, <1>6, <2>1, <5>1 DEF KeptAs
      <4>2. CASE task[j].parent = task[t].parent /\ task[t].parent # NoId
        <5>1. task[j].assignee # Nobody
          BY <1>6, <1>7, <2>1, <4>2 DEF Faced
        <5>2. QED
          BY <2>1, <5>1 DEF KeptAs
      <4>3. QED
        BY <1>8, <2>3, <4>1, <4>2
    <3>3. Faced(def, r[j])
      BY <2>1, <3>2 DEF KeptAs, Faced
    <3>4. QED
      BY <3>1, <3>3
  <2>4. QED
    BY <2>2, <2>3
<1>10. Told(r[F]) /\ Faced(def, r[F])
  BY <1>3, <1>2, <1>4, <1>6 DEF Renewed, Told, Faced, Opened, Vote
<1>11. Sincere(def, r)
  BY <1>3, <1>9, <1>10 DEF Sincere
<1>12. Lone(r)
  <2>1. ASSUME NEW j \in DOMAIN r, NEW k \in DOMAIN r,
               r[j].parent = NoId, r[k].parent = NoId, r[j].node = r[k].node, j # k
        PROVE  r[j].status # "pending" /\ ~r[j].claimed
    <3>1. CASE j = F
      BY <1>3, <3>1 DEF Renewed
    <3>2. CASE j # F
      <4>1. /\ j \in DOMAIN task /\ j \notin GoneBy(t) /\ KeptAs(r[j], task[j], j \in BackBy(t))
            /\ j # t
        BY <1>3, <1>4, <2>1, <3>2
      <4>2. \E l \in DOMAIN task : task[l].parent = NoId /\ task[l].node = task[j].node /\ l # j
        <5>1. CASE k = F
          <6>1. r[F].parent = task[t].parent /\ r[F].node = task[t].node
            BY <1>2, <1>3 DEF Renewed
          <6>2. r[j].node = task[j].node
            BY <4>1 DEF KeptAs
          <6>3. task[t].parent = NoId /\ task[t].node = task[j].node
            BY <2>1, <5>1, <6>1, <6>2
          <6>4. QED
            BY <1>4, <4>1, <6>3
        <5>2. CASE k # F
          <6>1. k \in DOMAIN task /\ KeptAs(r[k], task[k], k \in BackBy(t))
            BY <1>3, <2>1, <5>2
          <6>2. QED
            BY <2>1, <4>1, <6>1 DEF KeptAs
        <5>3. QED
          BY <5>1, <5>2
      <4>3. task[j].parent = NoId
        BY <2>1, <4>1 DEF KeptAs
      <4>4. task[j].status # "pending" /\ ~task[j].claimed
        BY <1>5, <4>1, <4>2, <4>3 DEF Lone
      <4>5. QED
        BY <4>1, <4>4 DEF KeptAs
    <3>3. QED
      BY <3>1, <3>2
  <2>2. QED
    BY <2>1 DEF Lone
<1>13. Asking(r)
  <2>1. ASSUME NEW p \in DOMAIN r, Awaits(r, p) PROVE \E j \in DOMAIN r : r[j].parent = p /\ Opened(r[j])
    <3>1. p # F
      BY <1>3, <2>1 DEF Awaits, Renewed
    <3>2. p \in DOMAIN task /\ p \notin GoneBy(t) /\ KeptAs(r[p], task[p], p \in BackBy(t))
      BY <1>3, <2>1, <3>1
    <3>3. CASE p \in BackBy(t)
      <4>1. p = task[t].parent
        BY <1>8, <2>1, <3>2, <3>3 DEF Awaits, KeptAs
      <4>2. F \in DOMAIN r /\ r[F].parent = p /\ Opened(r[F])
        BY <1>3, <4>1 DEF Renewed, Opened
      <4>3. QED
        BY <4>2
    <3>4. CASE p \notin BackBy(t)
      <4>1. Awaits(task, p) /\ Opened(task[p])
        BY <2>1, <3>2, <3>4 DEF Awaits, KeptAs, Opened
      <4>2. task[p].node = task[t].node
        BY <1>1, <1>4, <3>2, <4>1, RecallLeaves DEF Recalled
      <4>3. Frontier(t) = {}
        BY <1>3, <1>4, <3>2, <4>1, <4>2, RecallHere
      <4>4. PICK j \in DOMAIN task : task[j].parent = p /\ Opened(task[j])
        BY <3>2, <4>1 DEF Base, Asking
      <4>5. j \notin GoneBy(t)
        BY <1>4, <4>3, <4>4 DEF GoneBy, Completed, Opened
      <4>6. j \in DOMAIN r /\ KeptAs(r[j], task[j], j \in BackBy(t))
        BY <1>3, <4>4, <4>5
      <4>7. QED
        BY <4>4, <4>6 DEF KeptAs, Opened
    <3>5. QED
      BY <3>3, <3>4
  <2>2. QED
    BY <2>1 DEF Asking
<1>14. QED
  BY <1>0, <1>11, <1>12, <1>13 DEF Base

-----------------------------------------------------------------------------
(* Every step keeps it. *)
LEMMA BaseStep ==
  ASSUME DeskInv, DeskInv', Base(def, task), Changes
  PROVE  def' = def /\ Base(def, task')
<1>1. def' = def
  BY DEF Changes, NodesGone, NodeMade, TaskPassed, TaskClaimed, TaskGivenBack, TaskAnswered, TaskVoted,
         TaskDecided, TaskSigned, Reduces, TaskReduced, ReducedDecided, TaskRecalled, Settled, Kept
<1>2. QED
  BY <1>1, BaseGone, BaseMade, BasePassed, BaseClaimed, BaseGivenBack, BaseAnswered, BaseVoted, BaseDecided,
     BaseSigned, BaseReduced, BaseRecalled DEF Changes

(* No rows are right. *)
LEMMA BaseInit ==
  ASSUME Init
  PROVE  Base(def, task)
BY DEF Init, RowsInit, Base, Sincere, Lone, Asking

-----------------------------------------------------------------------------
(* The pools.                                                              *)

(* A sub-task has no pool, and neither has the parent of one that may be   *)
(* taken off its assignee.                                                 *)
PoolsOf(f, rows, i) ==
  rows[i].parent # NoId =>
    /\ rows[i].pool = {}
    /\ "SetAssignee" \in f.uses => rows[rows[i].parent].pool = {}
Pools(f, rows) == \A i \in DOMAIN rows : PoolsOf(f, rows, i)

(* Rows that keep their pools. *)
SamePool(x, w) == x.pool = w.pool /\ x.parent = w.parent
LEMMA PoolsKept ==
  ASSUME NEW f, NEW rows, Pools(f, rows), NEW r, NEW j \in DOMAIN rows,
         SamePool(r[j], rows[j]),
         rows[j].parent # NoId => SamePool(r[rows[j].parent], rows[rows[j].parent])
  PROVE  PoolsOf(f, r, j)
BY DEF Pools, PoolsOf, SamePool

(* Rows of which all that stay keep their pools. *)
LEMMA PoolsSame ==
  ASSUME Pools(def, task), NEW r, Family(def, r),
         \A j \in DOMAIN r : j \in DOMAIN task /\ SamePool(r[j], task[j])
  PROVE  Pools(def, r)
<1>1. ASSUME NEW j \in DOMAIN r PROVE PoolsOf(def, r, j)
  <2>1. SamePool(r[j], task[j]) /\ j \in DOMAIN task
    BY <1>1
  <2>2. task[j].parent # NoId => SamePool(r[task[j].parent], task[task[j].parent])
    BY <2>1 DEF Family, SamePool
  <2>3. QED
    BY <2>1, <2>2, PoolsKept
<1>2. QED
  BY <1>1 DEF Pools

(* Every step leaves the pools right. *)
LEMMA PoolsStep ==
  ASSUME DeskInv, DeskInv', Base(def, task), Offered(def), Changes, Pools(def, task)
  PROVE  Pools(def, task')
<1>0. PICK r : r = task'
  OBVIOUS
<1>1. def' = def
  BY BaseStep
<1>2. Family(def, r) /\ Family(def, task) /\ \A j \in DOMAIN task : task[j].node \in NodesOf(def)
  BY <1>0, <1>1 DEF DeskInv, RowInv, Typed
<1>3. CASE NodesGone
  <2>1. PICK gone : Left(task, gone, r)
    BY <1>0, <1>3 DEF NodesGone
  <2>2. \A j \in DOMAIN r : j \in DOMAIN task /\ SamePool(r[j], task[j])
    BY <2>1 DEF Left, Alike, SamePool
  <2>3. QED
    BY <1>0, <1>2, <2>2, PoolsSame
<1>4. CASE NodeMade
  <2>1. PICK n, N : MadeOf(n, N, r)
    BY <1>0, <1>4 DEF NodeMade
  <2>2. /\ \A j : j \in DOMAIN r <=> j \in DOMAIN task \/ j \in N
        /\ \A j \in DOMAIN task : r[j] = task[j]
        /\ Shaped(n, N, r)
    BY <2>1 DEF MadeOf, Ids
  <2>3. ASSUME NEW j \in DOMAIN task PROVE PoolsOf(def, r, j)
    BY <1>2, <2>2, PoolsKept DEF Family, SamePool
  <2>4. ASSUME NEW j \in N PROVE PoolsOf(def, r, j)
    BY <2>2 DEF Shaped, Voters, PoolsOf
  <2>5. QED
    BY <1>0, <2>2, <2>3, <2>4 DEF Pools
<1>5. CASE TaskPassed
  <2>1. PICK i \in Ids : Passed(def, task, i, r)
    BY <1>0, <1>5 DEF TaskPassed
  <2>2. CASE "Candidates" \in def.uses
    <3>1. "AddSign" \notin def.uses /\ \A n \in NodesOf(def) : ~VoteNode(def, n)
      BY <2>2 DEF Offered, VoteNode, NodesOf
    <3>2. \A j \in DOMAIN task : task[j].parent = NoId
      BY <1>2, <3>1 DEF Base, Sincere, Faced
    <3>3. \A j \in DOMAIN r : r[j].parent = NoId
      BY <2>1, <3>2 DEF Passed
    <3>4. QED
      BY <1>0, <3>3 DEF Pools, PoolsOf
  <2>3. CASE "Candidates" \notin def.uses
    <3>1. DOMAIN r = DOMAIN task /\ \A j \in DOMAIN task : SamePool(r[j], task[j])
      BY <2>1, <2>3 DEF Passed, Hands, SamePool
    <3>2. QED
      BY <1>0, <1>2, <3>1, PoolsSame
  <2>4. QED
    BY <2>2, <2>3
<1>6. CASE TaskClaimed \/ TaskGivenBack
  <2>1. DOMAIN r = DOMAIN task /\ \A j \in DOMAIN task : SamePool(r[j], task[j])
    BY <1>0, <1>6 DEF TaskClaimed, TaskGivenBack, Claimed, GivesBack, SamePool
  <2>2. QED
    BY <1>0, <1>2, <2>1, PoolsSame
<1>7. CASE TaskAnswered \/ TaskVoted
  <2>1. \E A, T : RowsAfter(r, task, A, T, "sibling")
    BY <1>0, <1>7 DEF TaskAnswered, TaskVoted
  <2>2. DOMAIN r = DOMAIN task /\ \A j \in DOMAIN task : SamePool(r[j], task[j])
    BY <2>1 DEF RowsAfter, RowAfter, SamePool
  <2>3. QED
    BY <1>0, <1>2, <2>2, PoolsSame
<1>8. CASE TaskDecided
  <2>0. PICK i \in Ids, w \in Vote : \E mid, T : VoteEnds(i, mid, T, w)
    BY <1>8 DEF TaskDecided
  <2>1. PICK mid, T : VoteEnds(i, mid, T, w)
    BY <2>0
  <2>2. RowsAfter(mid, task, {i}, {}, "sibling") /\ \E A : RowsAfter(r, mid, A, T, "threshold")
    BY <1>0, <2>1 DEF VoteEnds
  <2>3. DOMAIN r = DOMAIN task /\ \A j \in DOMAIN task : SamePool(r[j], task[j])
    BY <2>2 DEF RowsAfter, RowAfter, SamePool
  <2>4. QED
    BY <1>0, <1>2, <2>3, PoolsSame
<1>9. CASE TaskSigned
  <2>1. PICK m \in Ids : \E N : Signers(m, N, r)
    BY <1>0, <1>9 DEF TaskSigned
  <2>2. PICK N : Signers(m, N, r)
    BY <2>1
  <2>3. /\ \A j : j \in DOMAIN r <=> j \in DOMAIN task \/ j \in N
        /\ \A j \in DOMAIN task : r[j] = task[j]
        /\ \A k \in N : r[k].pool = {}
    BY <2>2 DEF Signers
  <2>4. "SetAssignee" \notin def.uses
    BY <1>9 DEF TaskSigned, Offered
  <2>5. QED
    BY <1>0, <2>3, <2>4 DEF Pools, PoolsOf
<1>10. CASE Reduces
  <2>1. \E gone, mid : Left(task, gone, mid) /\ (r = mid \/ \E A : RowsAfter(r, mid, A, {}, "sibling"))
    BY <1>0, <1>10 DEF Reduces, TaskReduced, ReducedDecided
  <2>2. \A j \in DOMAIN r : j \in DOMAIN task /\ SamePool(r[j], task[j])
    BY <2>1 DEF RowsAfter, RowAfter, SamePool, Left, Alike
  <2>3. QED
    BY <1>0, <1>2, <2>2, PoolsSame
<1>11. CASE TaskRecalled
  <2>1. PICK t \in Ids : Recalled(t, task[t].node)
    BY <1>11 DEF TaskRecalled
  <2>2. PICK F : F = Fresh(1)
    OBVIOUS
  <2>3. /\ \A j : j \in DOMAIN r <=> (j \in DOMAIN task /\ j \notin GoneBy(t)) \/ j = F
        /\ F \notin DOMAIN task
        /\ \A j \in DOMAIN task : j \notin GoneBy(t) => SamePool(r[j], task[j])
        /\ r[F].pool = {} /\ r[F].parent = task[t].parent
    BY <1>0, <2>1, <2>2 DEF Recalled, Ids, KeptAs, Renewed, SamePool
  <2>4. ASSUME NEW j \in DOMAIN task, r[j].parent # NoId, j \in DOMAIN r PROVE PoolsOf(def, r, j)
    <3>1. SamePool(r[j], task[j])
      BY <2>3, <2>4
    <3>2. task[j].parent \in DOMAIN task /\ task[j].parent \in DOMAIN r
      BY <1>2, <2>4, <3>1 DEF Family, SamePool
    <3>3. QED
      BY <2>3, <3>1, <3>2, PoolsKept
  <2>5. PoolsOf(def, r, F)
    <3>1. SUFFICES ASSUME task[t].parent # NoId, "SetAssignee" \in def.uses PROVE r[task[t].parent].pool = {}
      BY <2>3 DEF PoolsOf
    <3>2. PICK p : p = task[t].parent
      OBVIOUS
    <3>3. task[p].pool = {} /\ p \in DOMAIN task
      BY <1>2, <3>1, <3>2 DEF Pools, PoolsOf, Family, Ids
    <3>4. p \in DOMAIN r
      BY <1>2, <2>3, <3>1, <3>2 DEF Family
    <3>5. QED
      BY <2>3, <3>2, <3>3, <3>4 DEF SamePool
  <2>6. QED
    <3>1. ASSUME NEW j \in DOMAIN r PROVE PoolsOf(def, r, j)
      BY <2>3, <2>4, <2>5 DEF PoolsOf
    <3>2. QED
      BY <1>0, <3>1 DEF Pools
<1>12. QED
  BY <1>3, <1>4, <1>5, <1>6, <1>7, <1>8, <1>9, <1>10, <1>11 DEF Changes

-----------------------------------------------------------------------------
(* The detail page.                                                        *)

(* A waiting main task is its node's only one with a pool. *)
LEMMA OnePool ==
  ASSUME DeskInv, Base(def, task), Pools(def, task), NEW i \in Ids, task[i].status = "pending"
  PROVE  /\ task[i].assignee = Nobody
         /\ task[i].parent = NoId => \A u : u \in NodePool(task[i].node) <=> u \in task[i].pool
<1>1. RowInv(def, task, answered) /\ Ids = DOMAIN task
  BY DEF DeskInv, Ids
<1>2. task[i].assignee = Nobody
  BY <1>1 DEF RowInv, Claims
<1>3. ASSUME task[i].parent = NoId, NEW j \in AtNode(task[i].node), j # i PROVE task[j].pool = {}
  <2>1. j \in DOMAIN task /\ task[j].node = task[i].node
    BY <1>1, <1>3 DEF AtNode
  <2>2. task[j].parent # NoId
    BY <1>1, <1>3, <2>1 DEF Base, Lone
  <2>3. QED
    BY <2>1, <2>2 DEF Pools, PoolsOf
<1>4. i \in AtNode(task[i].node)
  BY DEF AtNode
<1>5. QED
  BY <1>2, <1>3, <1>4 DEF NodePool

(* The claims, returns and proxy answers that are offered are taken. *)
LEMMA OffersTaken ==
  ASSUME DeskInv, Base(def, task), Pools(def, task), NEW u \in User, NEW i \in Ids
  PROVE  /\ OfferedClaim(u, i) => Claimable(i, u)
         /\ OfferedUnclaim(u, i) => Unclaimable(i, u)
         /\ OfferedProxyAudit(i) => MayProxy(i)
         /\ OfferedAnswer(u, i) => \A n \in ReturnableNodes(i) : RequireReturnTarget(u, i, n)
<1>1. ASSUME OfferedClaim(u, i) PROVE Claimable(i, u)
  <2>1. task[i].status = "pending" /\ IsUserCandidate(u, i)
    BY <1>1 DEF OfferedClaim
  <2>2. task[i].assignee = Nobody
    BY <2>1, OnePool
  <2>3. Candidate(i, u)
    <3>1. CASE task[i].parent = NoId
      BY <2>1, <3>1, OnePool DEF IsUserCandidate, Candidate
    <3>2. CASE task[i].parent # NoId
      BY <3>2 DEF Pools, PoolsOf, Candidate, Ids
    <3>3. QED
      BY <3>1, <3>2
  <2>4. QED
    BY <2>1, <2>2, <2>3 DEF Claimable
<1>2. OfferedUnclaim(u, i) => Unclaimable(i, u)
  BY DEF OfferedUnclaim, OfferedAnswer, Unclaimable
<1>3. OfferedProxyAudit(i) => MayProxy(i)
  BY DEF OfferedProxyAudit, MayProxy
<1>4. ASSUME OfferedAnswer(u, i), NEW n \in ReturnableNodes(i) PROVE RequireReturnTarget(u, i, n)
  BY <1>4 DEF OfferedAnswer, ReturnableNodes, RequireReturnTarget, IsReturnOperator, HasCompletedTaskAtNode
<1>5. QED
  BY <1>1, <1>2, <1>3, <1>4

(* Somebody's open task. *)
LEMMA AnswerOffered ==
  ASSUME DeskInv, Waiting, Base(def, task), NEW i \in Ids, Active(i), task[i].assignee # Nobody,
         NoOpenSigner(i)
  PROVE  \E u \in User : OfferedAnswer(u, i) /\ NoOpenSigner(i)
<1>1. task[i].assignee \in User
  <2>1. task[i] \in Row(task[i].node)
    BY DEF DeskInv, RowInv, Typed, Ids
  <2>2. task[i].assignee \in User \cup {Nobody}
    BY <2>1, RowFields
  <2>3. QED
    BY <2>2
<1>2. QED
  BY <1>1 DEF OfferedAnswer, Waiting

(* A waiting vote, whose assignee was taken off. *)
LEMMA VoteOffered ==
  ASSUME DeskInv, Waiting, Base(def, task), Offered(def), Pools(def, task),
         NEW i \in Ids, task[i].status = "pending", task[i].parent # NoId,
         \A j \in Ids : task[j].parent # NoId => ~Active(j)
  PROVE  \E u \in User : OfferedClaim(u, i) /\ Claimable(i, u)
<1>1. PICK n, p : n = task[i].node /\ p = task[i].parent
  OBVIOUS
<1>2. /\ RowInv(def, task, answered) /\ Ids = DOMAIN task /\ n \in NodesOf(def) /\ def \in Flows
  BY <1>1 DEF DeskInv, DriveTyped, RowInv, Typed, Ids
<1>3. task[i].assignee = Nobody
  BY <1>2 DEF RowInv, Claims
<1>4. "SetAssignee" \in def.uses /\ (VoteNode(def, n) \/ "AddSign" \in def.uses)
  BY <1>1, <1>2, <1>3 DEF Base, Sincere, Faced
<1>5. VoteNode(def, n) /\ \A u \in User : User # {u}
  <2>1. VoteNode(def, n)
    BY <1>4 DEF Offered
  <2>2. n \in {m \in ToSet(def.nodes) : def.mode[m] \in {"countersign", "vote"}}
    BY <1>2, <2>1 DEF VoteNode, NodesOf
  <2>3. QED
    BY <1>4, <2>1, <2>2 DEF Offered
<1>6. p \in Ids /\ task[p].parent = NoId /\ task[p].node = n /\ ~OrSigned(def, n) /\ task[p].pool = {}
  BY <1>1, <1>2, <1>4 DEF RowInv, Family, Pools, PoolsOf
<1>7. ASSUME NEW j \in Ids, task[j].node = n, task[j].parent = NoId PROVE j = p
  BY <1>2, <1>6, <1>7 DEF RowInv, LoneMain
<1>8. NodePool(n) = {}
  <2>1. ASSUME NEW j \in AtNode(n) PROVE task[j].pool = {}
    BY <1>2, <1>6, <1>7, <2>1 DEF AtNode, Pools, PoolsOf
  <2>2. QED
    BY <2>1 DEF NodePool
<1>9. \E u \in User : u # task[p].assignee
  <2>1. def.starter \in User
    BY <1>2, FlowAssumption
  <2>2. QED
    BY <1>5, <2>1
<1>10. PICK u \in User : u # task[p].assignee
  BY <1>9
<1>11. ASSUME NEW j \in Ids, OfferedAnswer(u, j) PROVE FALSE
  <2>1. Active(j) /\ task[j].assignee = u /\ task[j].parent = NoId
    BY <1>11 DEF OfferedAnswer
  <2>2. task[j].node = n
    BY <1>1, <1>2, <2>1 DEF Active, RowInv, OneNode, Opened
  <2>3. QED
    BY <1>7, <1>10, <2>1, <2>2
<1>12. Candidate(i, u)
  BY <1>2 DEF Pools, PoolsOf, Candidate
<1>13. QED
  BY <1>1, <1>3, <1>8, <1>11, <1>12, <1>10 DEF OfferedClaim, Claimable, IsUserCandidate, Waiting

(* A waiting instance offers somebody a step that is taken. *)
LEMMA SomeOffer ==
  ASSUME DeskInv, Waiting, Base(def, task), Offered(def), Pools(def, task)
  PROVE  \E u \in User, i \in Ids :
           \/ OfferedAnswer(u, i) /\ NoOpenSigner(i)
           \/ OfferedClaim(u, i) /\ Claimable(i, u)
           \/ task[i].status = "pending" /\ task[i].pool = Placeholder
<1>1. /\ RowInv(def, task, answered) /\ Ids = DOMAIN task /\ def.starter \in User
      /\ \A j \in Ids : Open(j) <=> Opened(task[j])
  BY FlowAssumption DEF DeskInv, DriveTyped, Ids, Open, Opened
<1>2. PICK o \in Ids : Opened(task[o])
  BY DEF DeskInv, Quiet
<1>3. CASE \E i \in Ids : Active(i) /\ task[i].parent # NoId
  <2>1. PICK i \in Ids : Active(i) /\ task[i].parent # NoId
    BY <1>3
  <2>2. task[i].assignee # Nobody /\ NoOpenSigner(i)
    BY <1>1, <2>1 DEF Base, Sincere, Faced, NoOpenSigner, Main, Active
  <2>3. QED
    BY <2>1, <2>2, AnswerOffered
<1>4. CASE ~\E i \in Ids : Active(i) /\ task[i].parent # NoId
  <2>1. CASE \E i \in Ids : Opened(task[i]) /\ task[i].parent # NoId
    <3>1. PICK i \in Ids : task[i].status = "pending" /\ task[i].parent # NoId
      BY <1>4, <2>1 DEF Opened, Active
    <3>2. QED
      BY <1>4, <3>1, VoteOffered
  <2>2. CASE ~\E i \in Ids : Opened(task[i]) /\ task[i].parent # NoId
    <3>1. CASE \E i \in Ids : Active(i)
      <4>1. PICK i \in Ids : Active(i)
        BY <3>1
      <4>2. i # NoId
        BY <1>1, RowBounds DEF RowInv, Typed, NoId, Id
      <4>3. NoOpenSigner(i)
        BY <1>1, <2>2, <4>2 DEF NoOpenSigner, Subs
      <4>4. task[i].assignee # Nobody
        BY <1>1, <2>2, <4>1, <4>2 DEF Base, Asking, Awaits, Active, Opened
      <4>5. QED
        BY <4>1, <4>3, <4>4, AnswerOffered
    <3>2. CASE ~\E i \in Ids : Active(i)
      <4>1. task[o].status = "pending" /\ task[o].parent = NoId
        BY <1>2, <2>2, <3>2 DEF Opened, Active
      <4>2. task[o].assignee = Nobody /\ \A u : u \in NodePool(task[o].node) <=> u \in task[o].pool
        BY <4>1, OnePool
      <4>3. \A u \in User : Candidate(o, u) => OfferedClaim(u, o) /\ Claimable(o, u)
        BY <3>2, <4>1, <4>2 DEF OfferedClaim, Claimable, OfferedAnswer, IsUserCandidate, Candidate, Waiting
      <4>4. (\E u \in User : Candidate(o, u)) \/ task[o].pool = {Nobody}
        <5>1. task[o] \in Row(task[o].node)
          BY <1>1 DEF RowInv, Typed
        <5>2. task[o].pool \subseteq User \cup {Nobody}
          BY <5>1, RowFields
        <5>3. QED
          BY <1>1, <5>2 DEF Candidate
      <4>5. QED
        BY <1>1, <4>1, <4>3, <4>4 DEF Placeholder
    <3>3. QED
      BY <3>1, <3>2
  <2>3. QED
    BY <2>1, <2>2
<1>5. QED
  BY <1>3, <1>4

(* Nobody is sent away, whatever became of the tasks: an instance that     *)
(* waits offers an answer or a claim that the service takes, and what the *)
(* page offers passes the checks of the operation (the detail page and     *)
(* task_service_*.go), on every chain whose pools stay with their tasks.   *)
THEOREM DeskOffersHonoured == Spec /\ Apart(def) /\ Offered(def) => []OffersHonoured
<1>. DEFINE Inv == DeskInv /\ Base(def, task) /\ Pools(def, task) /\ Offered(def)
<1>1. Init /\ Apart(def) /\ Offered(def) => Inv
  <2>1. Init => Pools(def, task)
    BY DEF Init, RowsInit, Pools
  <2>2. QED
    BY <2>1, InitInv, BaseInit
<1>2. Inv /\ [Next]_vars => Inv'
  <2>1. SUFFICES ASSUME Inv, [Next]_vars PROVE Inv'
    OBVIOUS
  <2>2. DeskInv' /\ Changes
    BY <2>1, NextInv, NextChanges
  <2>3. def' = def /\ Base(def, task') /\ Pools(def, task')
    BY <2>1, <2>2, BaseStep, PoolsStep
  <2>4. QED
    BY <2>1, <2>2, <2>3
<1>3. Inv => OffersHonoured
  BY SomeOffer, OffersTaken DEF OffersHonoured
<1>4. QED
  BY <1>1, <1>2, <1>3, PTL DEF Spec

=============================================================================
