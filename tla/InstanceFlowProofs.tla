-------------------------- MODULE InstanceFlowProofs --------------------------
(***************************************************************************)
(* For every definition with one gateway, however often an instance of it  *)
(* is resumed, suspended, terminated or driven again after a crash:        *)
(* nothing behind the join runs before its branches are settled            *)
(* (JoinComplete), and a branch that never waits runs once (SyncOnce).     *)
(***************************************************************************)
EXTENDS InstanceFlow, FiniteSetTheorems, WellFoundedInduction, NaturalsInduction, TLAPS

(* The sequences of a definition, and the nodes on them.                   *)
Parts(i) == FlowOf(i).branches \cup {FlowOf(i).tail}
OnFlow(i, n) == \E s \in Parts(i) : n \in ToSet(s)

(* What has a row, is executing, asked for or current is on the            *)
(* definition.  Between its reads a token is at a sub-process node, before *)
(* its commit at the end.                                                  *)
RowsFit == /\ row \in [Instance -> [Node -> {"none", "active", "suspended", "done", "void"}]]
           /\ \A i \in Instance : \A n \in Node : row[i][n] # "none" => OnFlow(i, n)
CurrentFit == /\ current \in [Instance -> Node \cup {NoNode}]
              /\ \A i \in Instance : current[i] # NoNode => OnFlow(i, current[i])
PlacedAt(i, k) == /\ OnFlow(i, k.node)
                  /\ k.step = "commit" => k.node = End
                  /\ k.step \notin {"in", "commit"} => k.node \in SubProcess
TokensFit == /\ at \in [Instance -> SUBSET Token]
             /\ \A i \in Instance : \A k \in at[i] : PlacedAt(i, k)
AsksFit == /\ asks \in [Instance -> SUBSET Node]
           /\ \A i \in Instance : \A n \in asks[i] : OnFlow(i, n)
RootsFit(roots) == /\ roots \in [Instance -> SUBSET Node]
                   /\ \A i \in Instance : roots[i] \subseteq Roots(i)
JoinFit == /\ RootsFit(expect)
           /\ got \in [Instance -> SUBSET Node]
           /\ \A i \in Instance : got[i] \subseteq expect[i]

(* A child was started by a sub-process node of the parent.                *)
StatusFit ==
  /\ status \in [Instance -> {"none", "active", "suspended", "terminated", "completed"}]
  /\ \A c \in Child : status[c] # "none" => \E n \in SubProcess : OnFlow(Parent, n)
FromFit == /\ from \in [Child -> SubProcess \cup {NoNode}]
           /\ \A c \in Child : from[c] # NoNode => OnFlow(Parent, from[c])

(* A restart only restores instances of the definitions that ask for it,   *)
(* and none whose first drive has yet to begin.                            *)
RestoreFit == restore \subseteq {i \in Instance : "Restore" \in Rescue[FlowOf(i)]}
CountsFit == /\ ran \in [Instance -> [Node -> 0..2]]
             /\ suspends \in 0..MaxSuspends /\ crashes \in 0..MaxCrashes

Fits == /\ flow \in Flows /\ fresh \subseteq Instance
        /\ RowsFit /\ CurrentFit /\ TokensFit /\ AsksFit /\ RootsFit(routed) /\ JoinFit
        /\ StatusFit /\ FromFit /\ RestoreFit /\ CountsFit

-----------------------------------------------------------------------------
(* Definitions.                                                            *)

LEMMA FlowShape ==
  ASSUME flow \in Flows, NEW i \in Instance
  PROVE  /\ FlowOf(i).gateway \in {"none", "fork", "inclusive"}
         /\ FlowOf(i).branches \subseteq Seq(Node \ {End}) /\ IsFiniteSet(FlowOf(i).branches)
         /\ FlowOf(i).gateway = "none" <=> FlowOf(i).branches = {}
         /\ \A s \in Parts(i) : s \in Seq(Node) /\ s # <<>> /\ Len(s) \in Nat \ {0}
<1>1. FlowOf(i) \in Flows \cup {ChildFlow}
  BY DEF FlowOf
<1>2. IsFlow(FlowOf(i))
  BY <1>1, FlowAssumption
<1>3. FlowOf(i).branches \subseteq Seq(Node \ {End}) /\ FlowOf(i).tail \in Seq(Node)
  BY <1>2 DEF IsFlow
<1>4. ASSUME NEW s \in Parts(i)
      PROVE  s \in Seq(Node) /\ s # <<>> /\ Len(s) \in Nat \ {0}
  <2>1. s \in Seq(Node) /\ s # <<>>
    BY <1>2, <1>3 DEF Parts, IsFlow
  <2>2. QED
    BY <2>1
<1>5. QED
  BY <1>2, <1>3, <1>4 DEF IsFlow

LEMMA PartNodes ==
  ASSUME flow \in Flows, NEW i \in Instance, NEW s \in Parts(i)
  PROVE  /\ \A n \in ToSet(s) : n \in Node /\ OnFlow(i, n)
         /\ Head(s) = s[1] /\ Head(s) \in ToSet(s)
         /\ \A n : After(s, n) \subseteq ToSet(s)
<1>1. s \in Seq(Node) /\ s # <<>> /\ Len(s) \in Nat \ {0}
  BY FlowShape
<1>2. DOMAIN s = 1 .. Len(s)
  BY <1>1
<1>3. \A n \in ToSet(s) : n \in Node /\ OnFlow(i, n)
  BY <1>1 DEF ToSet, OnFlow
<1>4. Head(s) = s[1] /\ 1 \in DOMAIN s
  BY <1>1, <1>2
<1>5. \A n : After(s, n) \subseteq ToSet(s)
  BY <1>1, <1>2 DEF After, ToSet
<1>6. QED
  BY <1>3, <1>4, <1>5 DEF ToSet

LEMMA NodesOnFlow ==
  ASSUME flow \in Flows, NEW i \in Instance, NEW n, OnFlow(i, n)
  PROVE  n \in Node
BY PartNodes DEF OnFlow

(* The parts of a child have no sub-process.                               *)
LEMMA ChildHasNoSub ==
  ASSUME NEW i \in Child, NEW n, OnFlow(i, n)
  PROVE  n \notin SubProcess
<1>1. FlowOf(i) = ChildFlow
  BY ParentAssumption DEF FlowOf
<1>2. Parts(i) = {ChildFlow.tail}
  BY <1>1, ChildAssumption, FlowAssumption DEF Parts, IsFlow
<1>3. QED
  BY <1>2, ChildAssumption DEF OnFlow, ToSet

LEMMA LeastExists ==
  ASSUME NEW S, S \subseteq Nat, IsFiniteSet(S), S # {}
  PROVE  \E x \in S : \A y \in S : x <= y
<1>. DEFINE HasLeast(T) == \E x \in T : \A y \in T : x <= y
            Bad == {T \in FiniteSubsetsOf(S) : T # {} /\ ~HasLeast(T)}
<1>1. Bad = {}
  <2>. SUFFICES ASSUME Bad # {} PROVE FALSE
    OBVIOUS
  <2>1. PICK T \in Bad : \A U \in Bad : ~(<<U, T>> \in StrictSubsetOrdering(S))
    <3>. HIDE DEF Bad
    <3>1. Bad \subseteq FiniteSubsetsOf(S)
      BY DEF Bad
    <3>2. QED
      BY <3>1, FS_StrictSubsetOrderingWellFounded, WFMin
  <2>2. T \subseteq S /\ IsFiniteSet(T) /\ T # {} /\ ~HasLeast(T)
    BY DEF FiniteSubsetsOf
  <2>3. PICK x : x \in T
    BY <2>2
  <2>. DEFINE U == T \ {x}
  <2>4. U # {}
    BY <2>2, <2>3
  <2>5. IsFiniteSet(U) /\ U \subseteq S
    BY <2>2, FS_RemoveElement
  <2>6. <<U, T>> \in StrictSubsetOrdering(S)
    BY <2>2, <2>3 DEF StrictSubsetOrdering
  <2>7. PICK m \in U : \A y \in U : m <= y
    BY <2>1, <2>4, <2>5, <2>6 DEF FiniteSubsetsOf
  <2>8. \E z \in {x, m} : \A y \in T : z <= y
    BY <2>2, <2>3, <2>7
  <2>9. QED
    BY <2>2, <2>3, <2>7, <2>8
<1>2. S \in FiniteSubsetsOf(S)
  BY DEF FiniteSubsetsOf
<1>3. QED
  BY <1>1, <1>2

(* The first user task of a branch that waits.                             *)
LEMMA FirstSuspendWaits ==
  ASSUME flow \in Flows, NEW i \in Instance, NEW s \in Parts(i), Suspends(s) # {}
  PROVE  FirstSuspend(s) \in ToSet(s) /\ FirstSuspend(s) \in UserTask
<1>1. s \in Seq(Node) /\ Len(s) \in Nat
  BY FlowShape
<1>2. Suspends(s) \subseteq 1 .. Len(s) /\ Suspends(s) \subseteq DOMAIN s
  BY <1>1 DEF Suspends
<1>3. Suspends(s) \subseteq Nat
  BY <1>1, <1>2
<1>4. IsFiniteSet(Suspends(s))
  BY <1>1, <1>2, FS_Interval, FS_Subset
<1>5. \E k \in Suspends(s) : \A j \in Suspends(s) : k <= j
  BY <1>3, <1>4, LeastExists
<1>6. PICK k \in Suspends(s) : FirstSuspend(s) = s[k]
  BY <1>5 DEF FirstSuspend
<1>7. QED
  BY <1>2, <1>6 DEF Suspends, ToSet

-----------------------------------------------------------------------------
(* What a step leaves alone, and what it does to one variable.             *)

LEMMA FitsMeansTypeOK ==
  ASSUME Fits
  PROVE  TypeOK
BY DEF Fits, TypeOK, RowsFit, CurrentFit, TokensFit, AsksFit, RootsFit, JoinFit, StatusFit,
       FromFit, RestoreFit, CountsFit

LEMMA SameFlow ==
  ASSUME flow' = flow, NEW i \in Instance
  PROVE  /\ FlowOf(i)' = FlowOf(i) /\ Roots(i)' = Roots(i) /\ Parts(i)' = Parts(i)
         /\ \A n : OnFlow(i, n)' = OnFlow(i, n)
         /\ \A k : PlacedAt(i, k)' = PlacedAt(i, k)
BY DEF FlowOf, Roots, Parts, OnFlow, PlacedAt

LEMMA Kept ==
  ASSUME Fits, flow' = flow
  PROVE  /\ flow' \in Flows
         /\ row' = row => RowsFit'
         /\ current' = current => CurrentFit'
         /\ at' = at => TokensFit'
         /\ asks' = asks => AsksFit'
         /\ routed' = routed => RootsFit(routed)'
         /\ expect' = expect /\ got' = got => JoinFit'
         /\ status' = status => StatusFit'
         /\ from' = from => FromFit'
         /\ restore' \subseteq restore => RestoreFit'
         /\ ran' = ran /\ suspends' = suspends /\ crashes' = crashes => CountsFit'
<1>1. Parent \in Instance
  BY DEF Instance
<1>2. row' = row => RowsFit'
  BY SameFlow DEF Fits, RowsFit
<1>3. current' = current => CurrentFit'
  BY SameFlow DEF Fits, CurrentFit
<1>4. at' = at => TokensFit'
  BY SameFlow DEF Fits, TokensFit
<1>5. asks' = asks => AsksFit'
  BY SameFlow DEF Fits, AsksFit
<1>6. routed' = routed => RootsFit(routed)'
  BY SameFlow DEF Fits, RootsFit
<1>7. expect' = expect /\ got' = got => JoinFit'
  BY SameFlow DEF Fits, JoinFit, RootsFit
<1>8. status' = status => StatusFit'
  BY <1>1, SameFlow DEF Fits, StatusFit
<1>9. from' = from => FromFit'
  BY <1>1, SameFlow DEF Fits, FromFit
<1>10. restore' \subseteq restore => RestoreFit'
  BY SameFlow DEF Fits, RestoreFit
<1>11. ran' = ran /\ suspends' = suspends /\ crashes' = crashes => CountsFit'
  BY DEF Fits, CountsFit
<1>12. QED
  BY <1>2, <1>3, <1>4, <1>5, <1>6, <1>7, <1>8, <1>9, <1>10, <1>11 DEF Fits

LEMMA SetTokens ==
  ASSUME Fits, flow' = flow, NEW i \in Instance, NEW S,
         \A k \in S : k \in Token /\ PlacedAt(i, k), at' = [at EXCEPT ![i] = S]
  PROVE  TokensFit'
<1>1. at' \in [Instance -> SUBSET Token]
  BY DEF Fits, TokensFit
<1>2. ASSUME NEW j \in Instance, NEW k \in at'[j]
      PROVE  PlacedAt(j, k)
  <2>1. CASE j = i
    BY <2>1 DEF Fits, TokensFit
  <2>2. CASE j # i
    BY <2>2 DEF Fits, TokensFit
  <2>3. QED
    BY <2>1, <2>2
<1>3. QED
  BY <1>1, <1>2, SameFlow DEF TokensFit

LEMMA FreshToken ==
  ASSUME flow \in Flows, NEW i \in Instance, NEW n, OnFlow(i, n)
  PROVE  Fresh(n) \in Token /\ PlacedAt(i, Fresh(n)) /\ Fresh(n).node = n
<1>1. n \in Node
  BY NodesOnFlow
<1>2. QED
  BY <1>1 DEF Fresh, Token, Step, PlacedAt

LEMMA SetRoots ==
  ASSUME Fits, flow' = flow, NEW i \in Instance, NEW roots, NEW S, RootsFit(roots),
         S \subseteq Roots(i)
  PROVE  /\ [roots EXCEPT ![i] = S] \in [Instance -> SUBSET Node]
         /\ \A j \in Instance : [roots EXCEPT ![i] = S][j] \subseteq Roots(j)'
<1>1. Roots(i) \subseteq Node
  BY PartNodes DEF Fits, Roots, Parts
<1>2. QED
  BY <1>1, SameFlow DEF RootsFit

LEMMA HeadsAreRoots ==
  ASSUME flow \in Flows, NEW i \in Instance, NEW bs, bs \subseteq FlowOf(i).branches
  PROVE  /\ {Head(b) : b \in bs} \subseteq Roots(i)
         /\ \A n \in {Head(b) : b \in bs} : OnFlow(i, n)
<1>1. \A b \in bs : b \in Parts(i)
  BY DEF Parts
<1>2. QED
  BY <1>1, PartNodes DEF Roots

LEMMA DrivesFits ==
  ASSUME Fits, flow' = flow, NEW i \in Instance, NEW nodes, NEW bs,
         \A n \in nodes : OnFlow(i, n), bs \subseteq FlowOf(i).branches, Drives(i, nodes, bs)
  PROVE  TokensFit' /\ JoinFit'
<1>1. flow \in Flows
  BY DEF Fits
<1>2. TokensFit'
  <2>1. \A k \in {Fresh(n) : n \in nodes} : k \in Token /\ PlacedAt(i, k)
    BY <1>1, FreshToken
  <2>2. QED
    BY <2>1, SetTokens DEF Drives
<1>3. RootsFit(expect)'
  <2>1. RootsFit(expect)
    BY DEF Fits, JoinFit
  <2>2. expect' = [expect EXCEPT ![i] = {Head(b) : b \in bs}]
    BY DEF Drives
  <2>3. QED
    BY <1>1, <2>1, <2>2, HeadsAreRoots, SetRoots DEF RootsFit
<1>4. got' \in [Instance -> SUBSET Node] /\ \A j \in Instance : got'[j] \subseteq expect'[j]
  BY DEF Drives, Fits, JoinFit, RootsFit
<1>5. QED
  BY <1>2, <1>3, <1>4 DEF JoinFit


LEMMA AdvanceIs ==
  ASSUME NEW i \in Instance, NEW t, Advance(i, t)
  PROVE  /\ at' = [at EXCEPT ![i] = (@ \ {t}) \cup {Fresh(m) : m \in Succ(i, t.node)}]
         /\ got' = [got EXCEPT ![i] = got[i] \cup Arrives(i, t.node)]
         /\ expect' = expect /\ routed' = routed
BY DEF Advance

LEMMA SuccOnFlow ==
  ASSUME flow \in Flows, NEW i \in Instance, NEW n
  PROVE  \A m \in Succ(i, n) : OnFlow(i, m)
<1>1. FlowOf(i).tail \in Parts(i)
  BY DEF Parts
<1>2. OnFlow(i, Head(FlowOf(i).tail))
  BY <1>1, PartNodes
<1>3. \A s \in Parts(i) : \A m \in After(s, n) : OnFlow(i, m)
  BY PartNodes
<1>4. ASSUME NEW m \in Succ(i, n)
      PROVE  m = Head(FlowOf(i).tail) \/ \E s \in Parts(i) : m \in After(s, n)
  <2>1. m \in Nexts(i, n) \/ m \in BehindJoined(i, n)
    BY <1>4 DEF Succ
  <2>2. m \in Nexts(i, n) => \E s \in Parts(i) : m \in After(s, n)
    BY DEF Nexts, Parts
  <2>3. m \in BehindJoined(i, n) => m = Head(FlowOf(i).tail)
    BY DEF BehindJoined
  <2>4. QED
    BY <2>1, <2>2, <2>3
<1>5. QED
  BY <1>2, <1>3, <1>4

LEMMA MoveFits ==
  ASSUME Fits, flow' = flow, NEW i \in Instance, NEW t, NEW S,
         \A k \in S : k \in Token /\ PlacedAt(i, k), at' = [at EXCEPT ![i] = (@ \ {t}) \cup S]
  PROVE  TokensFit'
<1>1. \A k \in (at[i] \ {t}) \cup S : k \in Token /\ PlacedAt(i, k)
  BY DEF Fits, TokensFit
<1>2. at' = [at EXCEPT ![i] = (at[i] \ {t}) \cup S]
  OBVIOUS
<1>3. QED
  BY <1>1, <1>2, SetTokens

LEMMA AdvanceFits ==
  ASSUME Fits, flow' = flow, NEW i \in Instance, NEW t, Advance(i, t)
  PROVE  TokensFit' /\ JoinFit' /\ RootsFit(routed)'
<1>1. flow \in Flows
  BY DEF Fits
<1>2. TokensFit'
  <2>1. \A k \in {Fresh(m) : m \in Succ(i, t.node)} : k \in Token /\ PlacedAt(i, k)
    BY <1>1, SuccOnFlow, FreshToken
  <2>2. QED
    BY <2>1, AdvanceIs, MoveFits
<1>3. got' \in [Instance -> SUBSET Node] /\ \A j \in Instance : got'[j] \subseteq expect'[j]
  <2>1. Arrives(i, t.node) \subseteq expect[i]
    BY DEF Arrives
  <2>2. QED
    BY <2>1, AdvanceIs DEF Fits, JoinFit, RootsFit
<1>4. RootsFit(expect)' /\ RootsFit(routed)'
  BY AdvanceIs, SameFlow DEF Fits, JoinFit, RootsFit
<1>5. QED
  BY <1>3, <1>2, <1>4 DEF JoinFit

LEMMA StopFits ==
  ASSUME Fits, flow' = flow, NEW i \in Instance, NEW t, Stop(i, t)
  PROVE  TokensFit' /\ JoinFit' /\ RootsFit(routed)'
<1>1. \A k \in at[i] \ {t} : k \in Token /\ PlacedAt(i, k)
  BY DEF Fits, TokensFit
<1>2. TokensFit'
  BY <1>1, SetTokens DEF Stop
<1>3. QED
  BY <1>2, Kept DEF Stop

LEMMA BecomeFits ==
  ASSUME Fits, flow' = flow, NEW i \in Instance, NEW t, NEW u \in Token, PlacedAt(i, u),
         Become(i, t, u)
  PROVE  TokensFit' /\ JoinFit' /\ RootsFit(routed)'
<1>1. TokensFit'
  BY MoveFits DEF Become
<1>2. QED
  BY <1>1, Kept DEF Become

LEMMA TokenShape ==
  ASSUME Fits, NEW i \in Instance, NEW t \in at[i]
  PROVE  /\ t \in Token /\ PlacedAt(i, t) /\ t.node \in Node
         /\ \A s \in Step : /\ [t EXCEPT !.step = s] \in Token
                            /\ [t EXCEPT !.step = s].node = t.node
                            /\ [t EXCEPT !.step = s].step = s
BY DEF Fits, TokensFit, Token

LEMMA GotoFits ==
  ASSUME Fits, flow' = flow, NEW i \in Instance, NEW t \in at[i], NEW s \in Step,
         s = "commit" => t.node = End, s \notin {"in", "commit"} => t.node \in SubProcess,
         Goto(i, t, s)
  PROVE  TokensFit' /\ JoinFit' /\ RootsFit(routed)'
<1>1. [t EXCEPT !.step = s] \in Token
  BY TokenShape
<1>2. PlacedAt(i, [t EXCEPT !.step = s])
  BY TokenShape DEF PlacedAt
<1>3. QED
  BY <1>1, <1>2, BecomeFits DEF Goto

LEMMA SetCurrent ==
  ASSUME Fits, flow' = flow, NEW i \in Instance, NEW n \in Node, OnFlow(i, n),
         NEW m \in {n, current[i]}, current' = [current EXCEPT ![i] = m]
  PROVE  CurrentFit'
BY SameFlow DEF Fits, CurrentFit

LEMMA SetRowFits ==
  ASSUME Fits, flow' = flow, NEW i \in Instance, NEW n \in Node, OnFlow(i, n),
         NEW s \in {"none", "active", "suspended", "done", "void"}, SetRow(i, n, s)
  PROVE  RowsFit'
<1>1. row' \in [Instance -> [Node -> {"none", "active", "suspended", "done", "void"}]]
  BY DEF Fits, RowsFit, SetRow
<1>2. \A j \in Instance : \A m \in Node : row'[j][m] # "none" => OnFlow(j, m)
  BY DEF Fits, RowsFit, SetRow
<1>3. QED
  BY <1>1, <1>2, SameFlow DEF RowsFit

LEMMA ArchiveFits ==
  ASSUME Fits, flow' = flow, NEW who, \A i \in who : Live(i),
         NEW s \in {"terminated", "completed"}, Archive(who, s)
  PROVE  /\ RowsFit' /\ StatusFit' /\ CurrentFit' /\ ran' = ran
<1>1. row' \in [Instance -> [Node -> {"none", "active", "suspended", "done", "void"}]]
  BY DEF Fits, RowsFit, Archive
<1>2. \A i \in Instance : \A n \in Node : row'[i][n] # "none" => row[i][n] # "none"
  BY DEF Archive, Open
<1>3. RowsFit'
  BY <1>1, <1>2, SameFlow DEF RowsFit, Fits
<1>4. status' \in [Instance -> {"none", "active", "suspended", "terminated", "completed"}]
  BY DEF Fits, StatusFit, Archive
<1>5. \A c \in Child : status'[c] # "none" => status[c] # "none"
  BY DEF Archive, Live, Instance
<1>6. StatusFit'
  BY <1>4, <1>5, SameFlow DEF StatusFit, Fits, Instance
<1>7. QED
  BY <1>3, <1>6, Kept DEF Archive

(* The node a child's end drives is a sub-process node of the parent.      *)
LEMMA ParentNodeFits ==
  ASSUME Fits, NEW c \in Child, status[c] # "none"
  PROVE  ParentNode(c) \in SubProcess /\ OnFlow(Parent, ParentNode(c))
<1>1. FlowOf(Parent) = flow
  BY DEF FlowOf
<1>2. CASE from[c] # NoNode
  BY <1>2 DEF Fits, FromFit, ParentNode
<1>3. CASE from[c] = NoNode
  <2>1. \E n \in SubProcess : \E b \in flow.branches \cup {flow.tail} : n \in ToSet(b)
    BY <1>1 DEF Fits, StatusFit, OnFlow, Parts
  <2>2. /\ Derived \in SubProcess
        /\ \E b \in flow.branches \cup {flow.tail} : Derived \in ToSet(b)
    BY <2>1 DEF Derived
  <2>3. QED
    BY <1>1, <1>3, <2>2 DEF ParentNode, OnFlow, Parts
<1>4. QED
  BY <1>2, <1>3

LEMMA ResumeParentFits ==
  ASSUME Fits, flow' = flow, NEW i \in Instance, status[i] # "none", ResumeParent(i)
  PROVE  AsksFit' /\ FromFit'
<1>1. CASE i \in Child
  <2>1. ParentNode(i) \in SubProcess /\ OnFlow(Parent, ParentNode(i))
    BY <1>1, ParentNodeFits
  <2>2. AsksFit'
    <3>1. ParentNode(i) \in Node
      BY <2>1 DEF Node
    <3>2. asks' = [asks EXCEPT ![Parent] = @ \cup ({ParentNode(i)} \ {NoNode})]
      BY <1>1 DEF ResumeParent
    <3>3. asks' \in [Instance -> SUBSET Node]
      BY <3>1, <3>2 DEF Fits, AsksFit, Instance
    <3>4. \A j \in Instance : \A n \in asks'[j] : OnFlow(j, n)
      BY <2>1, <3>2 DEF Fits, AsksFit, Instance
    <3>5. QED
      BY <3>3, <3>4, SameFlow DEF AsksFit
  <2>3. FromFit'
    <3>1. from' = [from EXCEPT ![i] = NoNode]
      BY <1>1 DEF ResumeParent
    <3>2. QED
      BY <1>1, <3>1, SameFlow DEF Fits, FromFit, Instance
  <2>4. QED
    BY <2>2, <2>3
<1>2. CASE i \notin Child
  BY <1>2, Kept DEF ResumeParent
<1>3. QED
  BY <1>1, <1>2

LEMMA TerminateFits ==
  ASSUME Fits, flow' = flow, NEW i \in Instance, Live(i), Terminate(i)
  PROVE  RowsFit' /\ StatusFit' /\ CurrentFit' /\ AsksFit' /\ FromFit' /\ ran' = ran
<1>1. \A j \in {i} \cup Kids(i) : Live(j)
  BY DEF Kids
<1>2. RowsFit' /\ StatusFit' /\ CurrentFit' /\ ran' = ran
  BY <1>1, ArchiveFits DEF Terminate
<1>3. AsksFit' /\ FromFit'
  BY ResumeParentFits DEF Terminate, Live
<1>4. QED
  BY <1>2, <1>3

-----------------------------------------------------------------------------
(* Every action keeps the types.                                           *)

LEMMA StartFits ==
  ASSUME Fits, NEW i \in Instance, Start(i)
  PROVE  Fits'
<1>1. flow \in Flows /\ flow' = flow
  BY DEF Fits, Start
<1>2. PICK nodes, bs : /\ bs \subseteq FlowOf(i).branches /\ \A n \in nodes : OnFlow(i, n)
                       /\ Drives(i, nodes, bs)
                       /\ \/ routed' = routed
                          \/ routed' = [routed EXCEPT ![i] = {Head(b) : b \in bs}]
  <2>1. CASE FlowOf(i).gateway = "none"
    <3>1. FlowOf(i).tail \in Parts(i)
      BY DEF Parts
    <3>2. \A n \in {Head(FlowOf(i).tail)} : OnFlow(i, n)
      BY <1>1, <3>1, PartNodes
    <3>3. QED
      BY <2>1, <3>2 DEF Start
  <2>2. CASE FlowOf(i).gateway # "none"
    <3>1. PICK bs \in SUBSET FlowOf(i).branches :
             /\ Drives(i, {Head(b) : b \in bs}, bs)
             /\ routed' = [routed EXCEPT ![i] = {Head(b) : b \in bs}]
      BY <2>2 DEF Start
    <3>2. \A n \in {Head(b) : b \in bs} : OnFlow(i, n)
      BY <1>1, HeadsAreRoots
    <3>3. QED
      BY <3>1, <3>2
  <2>3. QED
    BY <2>1, <2>2
<1>3. TokensFit' /\ JoinFit'
  BY <1>1, <1>2, DrivesFits
<1>4. RootsFit(routed)'
  <2>1. CASE routed' = routed
    BY <1>1, <2>1, Kept
  <2>2. CASE routed' = [routed EXCEPT ![i] = {Head(b) : b \in bs}]
    <3>1. RootsFit(routed) /\ {Head(b) : b \in bs} \subseteq Roots(i)
      BY <1>1, <1>2, HeadsAreRoots DEF Fits
    <3>2. QED
      BY <1>1, <2>2, <3>1, SetRoots DEF RootsFit
  <2>3. QED
    BY <1>2, <2>1, <2>2
<1>5. QED
  BY <1>1, <1>3, <1>4, Kept DEF Start, Fits, table, bounds

LEMMA TakesFits ==
  ASSUME Fits, flow' = flow, NEW i \in Instance, NEW n \in Node, Takes(i, n)
  PROVE  AsksFit' /\ OnFlow(i, n)
<1>1. asks' = [asks EXCEPT ![i] = @ \ {n}] /\ n \in asks[i]
  BY DEF Takes
<1>2. asks' \in [Instance -> SUBSET Node]
  BY <1>1 DEF Fits, AsksFit
<1>3. \A j \in Instance : \A m \in asks'[j] : OnFlow(j, m)
  BY <1>1 DEF Fits, AsksFit
<1>4. OnFlow(i, n)
  BY <1>1 DEF Fits, AsksFit
<1>5. QED
  BY <1>2, <1>3, <1>4, SameFlow DEF AsksFit

LEMMA RefuseFits ==
  ASSUME Fits, NEW i \in Instance, NEW n \in Node, Refuse(i, n)
  PROVE  Fits'
<1>1. flow' = flow
  BY DEF Refuse
<1>2. AsksFit'
  BY <1>1, TakesFits DEF Refuse
<1>3. QED
  BY <1>1, <1>2, Kept DEF Refuse, Fits, table, drive, bounds

LEMMA DriveNodeFits ==
  ASSUME Fits, NEW i \in Instance, NEW n \in Node, DriveNode(i, n)
  PROVE  Fits'
<1>1. flow' = flow
  BY DEF DriveNode
<1>2. AsksFit' /\ OnFlow(i, n)
  BY <1>1, TakesFits DEF DriveNode
<1>3. TokensFit' /\ JoinFit'
  BY <1>1, <1>2, DrivesFits DEF DriveNode
<1>4. QED
  BY <1>1, <1>2, <1>3, Kept DEF DriveNode, Fits, table, bounds

LEMMA SuspendNodes ==
  ASSUME flow \in Flows, NEW i \in Instance, NEW bs, bs \subseteq FlowOf(i).branches,
         \A b \in bs : Suspends(b) # {}
  PROVE  \A n \in {FirstSuspend(b) : b \in bs} : OnFlow(i, n)
<1>1. \A b \in bs : b \in Parts(i)
  BY DEF Parts
<1>2. QED
  BY <1>1, FirstSuspendWaits DEF OnFlow

LEMMA DriveBranchesFits ==
  ASSUME Fits, NEW i \in Instance, NEW n \in Node, DriveBranches(i, n)
  PROVE  Fits'
<1>1. flow \in Flows /\ flow' = flow
  BY DEF DriveBranches, Fits
<1>2. AsksFit'
  BY <1>1, TakesFits DEF DriveBranches
<1>3. TokensFit' /\ JoinFit'
  <2>1. CASE Pending(i)
    BY <1>1, <2>1, Kept DEF DriveBranches
  <2>2. CASE ~Pending(i)
    <3>1. Exits(i) \subseteq FlowOf(i).branches /\ \A b \in Exits(i) : Suspends(b) # {}
      BY DEF Exits
    <3>2. \A m \in {FirstSuspend(b) : b \in Exits(i)} : OnFlow(i, m)
      BY <1>1, <3>1, SuspendNodes
    <3>3. Drives(i, {FirstSuspend(b) : b \in Exits(i)}, Exits(i))
      BY <2>2 DEF DriveBranches
    <3>4. QED
      BY <1>1, <3>1, <3>2, <3>3, DrivesFits
  <2>3. QED
    BY <2>1, <2>2
<1>4. QED
  BY <1>1, <1>2, <1>3, Kept DEF DriveBranches, Fits, table, bounds

LEMMA ForceResumeFits ==
  ASSUME Fits, NEW i \in Instance, ForceResume(i)
  PROVE  Fits'
<1>1. flow \in Flows /\ flow' = flow
  BY DEF ForceResume, Fits
<1>2. /\ \A b \in FlowOf(i).branches : Suspends(b) # {}
      /\ Drives(i, {FirstSuspend(b) : b \in FlowOf(i).branches}, FlowOf(i).branches)
  BY DEF ForceResume
<1>3. \A n \in {FirstSuspend(b) : b \in FlowOf(i).branches} : OnFlow(i, n)
  BY <1>1, <1>2, SuspendNodes
<1>4. TokensFit' /\ JoinFit'
  BY <1>1, <1>2, <1>3, DrivesFits
<1>5. QED
  BY <1>1, <1>4, Kept DEF ForceResume, Fits, table, bounds

LEMMA RestoreFits ==
  ASSUME Fits, NEW i \in Instance, Restore(i)
  PROVE  Fits'
<1>. DEFINE open == IF status[i] = "active" THEN Todo(i) ELSE {}
            tokens == {[node |-> n, step |-> "in", own |-> n \in SubProcess] : n \in open}
            bs == {x \in FlowOf(i).branches : ToSet(x) \cap open # {}}
<1>1. flow \in Flows /\ flow' = flow
  BY DEF Restore, Fits
<1>2. /\ at' = [at EXCEPT ![i] = tokens]
      /\ expect' = [expect EXCEPT ![i] = {Head(b) : b \in bs}]
      /\ got' = [got EXCEPT ![i] = {}]
  BY DEF Restore
<1>3. \A n \in open : n \in Node /\ OnFlow(i, n)
  BY DEF Todo, Fits, RowsFit
<1>4. bs \subseteq FlowOf(i).branches
  OBVIOUS
<1>5. \A k \in tokens : k \in Token /\ PlacedAt(i, k)
  <2>. HIDE DEF open
  <2>1. ASSUME NEW n \in open
        PROVE  LET k == [node |-> n, step |-> "in", own |-> n \in SubProcess]
               IN k \in Token /\ PlacedAt(i, k)
    <3>1. (n \in SubProcess) \in BOOLEAN
      OBVIOUS
    <3>2. QED
      BY <1>3, <3>1 DEF Token, Step, PlacedAt
  <2>2. QED
    BY <2>1
<1>. HIDE DEF open, tokens, bs
<1>6. TokensFit'
  BY <1>1, <1>2, <1>5, SetTokens
<1>7. JoinFit'
  <2>1. RootsFit(expect) /\ {Head(b) : b \in bs} \subseteq Roots(i)
    BY <1>1, <1>4, HeadsAreRoots DEF Fits, JoinFit
  <2>2. RootsFit(expect)'
    BY <1>1, <1>2, <2>1, SetRoots DEF RootsFit
  <2>3. got' \in [Instance -> SUBSET Node] /\ \A j \in Instance : got'[j] \subseteq expect'[j]
    BY <1>2 DEF Fits, JoinFit, RootsFit
  <2>4. QED
    BY <2>2, <2>3 DEF JoinFit
<1>8. restore' \subseteq restore
  BY DEF Restore
<1>9. QED
  BY <1>1, <1>6, <1>7, <1>8, Kept DEF Restore, Fits, table, bounds

LEMMA UserOnMsgFits ==
  ASSUME Fits, NEW i \in Instance, NEW t \in at[i], UserOnMsg(i, t)
  PROVE  Fits'
<1>1. flow' = flow
  BY DEF UserOnMsg
<1>2. t.node \in Node /\ OnFlow(i, t.node)
  BY TokenShape DEF PlacedAt
<1>3. TokensFit' /\ JoinFit' /\ RootsFit(routed)'
  BY <1>1, StopFits, AdvanceFits DEF UserOnMsg
<1>4. RowsFit'
  <2>1. CASE SetRow(i, t.node, NewStatus(i))
    <3>1. NewStatus(i) \in {"none", "active", "suspended", "done", "void"}
      BY DEF NewStatus
    <3>2. QED
      BY <1>1, <1>2, <2>1, <3>1, SetRowFits
  <2>2. CASE row' = row
    BY <1>1, <2>2, Kept
  <2>3. QED
    BY <2>1, <2>2 DEF UserOnMsg
<1>5. CurrentFit'
  <2>1. CASE current' = [current EXCEPT ![i] = t.node]
    BY <1>1, <1>2, <2>1, SetCurrent
  <2>2. CASE current' = current
    BY <1>1, <2>2, Kept
  <2>3. QED
    BY <2>1, <2>2 DEF UserOnMsg
<1>6. QED
  BY <1>1, <1>3, <1>4, <1>5, Kept DEF UserOnMsg, Fits, bounds

LEMMA AutoOnMsgFits ==
  ASSUME Fits, NEW i \in Instance, NEW t \in at[i], AutoOnMsg(i, t)
  PROVE  Fits'
<1>1. flow' = flow
  BY DEF AutoOnMsg
<1>2. t.node \in Node /\ OnFlow(i, t.node)
  BY TokenShape DEF PlacedAt
<1>3. TokensFit' /\ JoinFit' /\ RootsFit(routed)'
  BY <1>1, AdvanceFits DEF AutoOnMsg
<1>4. CurrentFit'
  BY <1>1, <1>2, SetCurrent DEF AutoOnMsg
<1>5. CountsFit'
  BY <1>2 DEF AutoOnMsg, Fits, CountsFit, bounds
<1>6. QED
  BY <1>1, <1>3, <1>4, <1>5, Kept DEF AutoOnMsg, Fits, bounds

LEMMA SubReadFits ==
  ASSUME Fits, NEW i \in Instance, NEW t \in at[i],
         SubTerminated(i, t) \/ SubActive(i, t) \/ SubParent(i, t)
  PROVE  Fits'
<1>1. flow' = flow /\ t.step \in {"children", "state", "parent"}
  BY DEF SubTerminated, SubActive, SubParent
<1>2. t.node \in SubProcess
  BY <1>1, TokenShape DEF PlacedAt
<1>3. PICK s \in {"fail", "state", "running", "idle", "create"} : Goto(i, t, s)
  BY DEF SubTerminated, SubActive, SubParent
<1>4. TokensFit' /\ JoinFit' /\ RootsFit(routed)'
  BY <1>1, <1>2, <1>3, GotoFits DEF Step
<1>5. QED
  BY <1>1, <1>4, Kept DEF SubTerminated, SubActive, SubParent, Fits, table, bounds

LEMMA SubEnterFits ==
  ASSUME Fits, NEW i \in Instance, NEW t \in at[i], SubEnter(i, t)
  PROVE  Fits'
<1>1. flow' = flow /\ t.node \in SubProcess
  BY DEF SubEnter
<1>2. t.node \in Node /\ OnFlow(i, t.node) /\ t \in Token
  BY TokenShape DEF PlacedAt
<1>3. CurrentFit'
  BY <1>1, <1>2, SetCurrent DEF SubEnter
<1>4. RowsFit' /\ TokensFit' /\ JoinFit' /\ RootsFit(routed)'
  <2>1. CASE row' = row /\ Goto(i, t, "children")
    <3>1. TokensFit' /\ JoinFit' /\ RootsFit(routed)'
      BY <1>1, <2>1, GotoFits DEF Step
    <3>2. QED
      BY <1>1, <2>1, <3>1, Kept
  <2>2. CASE /\ SetRow(i, t.node, NewStatus(i))
             /\ Become(i, t, [t EXCEPT !.own = TRUE, !.step = "children"])
    <3>1. /\ [t EXCEPT !.own = TRUE, !.step = "children"] \in Token
          /\ PlacedAt(i, [t EXCEPT !.own = TRUE, !.step = "children"])
      BY <1>1, <1>2 DEF Token, Step, PlacedAt
    <3>2. TokensFit' /\ JoinFit' /\ RootsFit(routed)'
      BY <1>1, <2>2, <3>1, BecomeFits
    <3>3. NewStatus(i) \in {"none", "active", "suspended", "done", "void"}
      BY DEF NewStatus
    <3>4. RowsFit'
      BY <1>1, <1>2, <2>2, <3>3, SetRowFits
    <3>5. QED
      BY <3>2, <3>4
  <2>3. QED
    BY <2>1, <2>2 DEF SubEnter
<1>5. QED
  BY <1>1, <1>3, <1>4, Kept DEF SubEnter, Fits, bounds

LEMMA SubCompletedFits ==
  ASSUME Fits, NEW i \in Instance, NEW t \in at[i], SubCompleted(i, t)
  PROVE  Fits'
<1>1. flow' = flow /\ t.step \in {"running", "idle"}
  BY DEF SubCompleted
<1>2. t.node \in Node /\ OnFlow(i, t.node) /\ t.node \in SubProcess
  BY <1>1, TokenShape DEF PlacedAt
<1>3. RowsFit' /\ TokensFit' /\ JoinFit' /\ RootsFit(routed)'
  <2>1. CASE \E c \in Child : Ended(c)
    <3>1. TokensFit' /\ JoinFit' /\ RootsFit(routed)'
      BY <1>1, <2>1, AdvanceFits DEF SubCompleted
    <3>2. PICK s \in {"done", row[i][t.node]} : SetRow(i, t.node, s)
      BY <2>1 DEF SubCompleted, SetRow
    <3>3. row[i][t.node] \in {"none", "active", "suspended", "done", "void"}
      BY <1>2 DEF Fits, RowsFit
    <3>4. QED
      BY <1>1, <1>2, <3>1, <3>2, <3>3, SetRowFits
  <2>2. CASE ~ \E c \in Child : Ended(c)
    <3>1. row' = row /\ (Stop(i, t) \/ Goto(i, t, "parent"))
      BY <2>2 DEF SubCompleted
    <3>2. TokensFit' /\ JoinFit' /\ RootsFit(routed)'
      BY <1>1, <1>2, <3>1, StopFits, GotoFits DEF Step
    <3>3. QED
      BY <1>1, <3>1, <3>2, Kept
  <2>3. QED
    BY <2>1, <2>2
<1>4. QED
  BY <1>1, <1>3, Kept DEF SubCompleted, Fits, bounds

(* Only the parent starts sub-processes.                                   *)
LEMMA SubIsParent ==
  ASSUME Fits, NEW i \in Instance, NEW t \in at[i], t.step \notin {"in", "commit"}
  PROVE  i = Parent /\ t.node \in SubProcess /\ OnFlow(Parent, t.node)
<1>1. t.node \in SubProcess /\ OnFlow(i, t.node)
  BY TokenShape DEF PlacedAt
<1>2. i \notin Child
  BY <1>1, ChildHasNoSub
<1>3. QED
  BY <1>1, <1>2 DEF Instance

LEMMA SubCreateFits ==
  ASSUME Fits, NEW i \in Instance, NEW t \in at[i], SubCreate(i, t)
  PROVE  Fits'
<1>1. flow' = flow /\ t.step = "create"
  BY DEF SubCreate
<1>2. t.node \in SubProcess /\ OnFlow(Parent, t.node)
  BY <1>1, SubIsParent
<1>3. PICK c \in Child : /\ status' = [status EXCEPT ![c] = "active"]
                         /\ fresh' = fresh \cup {c}
                         /\ from' = [from EXCEPT ![c] = t.node]
  BY DEF SubCreate
<1>4. TokensFit' /\ JoinFit' /\ RootsFit(routed)'
  BY <1>1, StopFits DEF SubCreate
<1>5. Parent \in Instance /\ c \in Instance
  BY DEF Instance
<1>6. StatusFit'
  BY <1>1, <1>2, <1>3, <1>5, SameFlow DEF Fits, StatusFit
<1>7. FromFit'
  <2>1. from' \in [Child -> SubProcess \cup {NoNode}]
    BY <1>2, <1>3 DEF Fits, FromFit
  <2>2. \A d \in Child : from'[d] # NoNode => OnFlow(Parent, from'[d])
    BY <1>2, <1>3 DEF Fits, FromFit
  <2>3. QED
    BY <1>1, <1>5, <2>1, <2>2, SameFlow DEF FromFit
<1>8. fresh' \subseteq Instance
  BY <1>3, <1>5 DEF Fits
<1>9. QED
  BY <1>1, <1>4, <1>6, <1>7, <1>8, Kept DEF SubCreate, Fits, bounds

LEMMA SubFailFits ==
  ASSUME Fits, NEW i \in Instance, NEW t \in at[i], SubFail(i, t)
  PROVE  Fits'
<1>1. flow' = flow
  BY DEF SubFail
<1>2. TokensFit' /\ JoinFit' /\ RootsFit(routed)'
  BY <1>1, StopFits DEF SubFail
<1>3. RowsFit' /\ StatusFit' /\ CurrentFit' /\ AsksFit' /\ FromFit' /\ ran' = ran
  <2>1. CASE Live(i)
    BY <1>1, <2>1, TerminateFits DEF SubFail
  <2>2. CASE ~Live(i)
    BY <1>1, <2>2, Kept DEF SubFail, table
  <2>3. QED
    BY <2>1, <2>2
<1>4. QED
  BY <1>1, <1>2, <1>3, Kept DEF SubFail, Fits, bounds

LEMMA EndEnterFits ==
  ASSUME Fits, NEW i \in Instance, NEW t \in at[i], EndEnter(i, t)
  PROVE  Fits'
<1>1. flow' = flow /\ t.node = End
  BY DEF EndEnter
<1>2. End \in Node /\ OnFlow(i, End)
  BY <1>1, TokenShape DEF PlacedAt
<1>3. TokensFit' /\ JoinFit' /\ RootsFit(routed)'
  BY <1>1, StopFits, GotoFits DEF EndEnter, Step
<1>4. CurrentFit'
  BY <1>1, <1>2, SetCurrent DEF EndEnter
<1>5. QED
  BY <1>1, <1>3, <1>4, Kept DEF EndEnter, Fits, bounds

LEMMA EndCommitFits ==
  ASSUME Fits, NEW i \in Instance, NEW t \in at[i], EndCommit(i, t)
  PROVE  Fits'
<1>1. flow' = flow
  BY DEF EndCommit
<1>2. TokensFit' /\ JoinFit' /\ RootsFit(routed)'
  BY <1>1, StopFits DEF EndCommit
<1>3. RowsFit' /\ StatusFit' /\ CurrentFit' /\ AsksFit' /\ FromFit' /\ ran' = ran
  <2>1. CASE Live(i)
    <3>1. RowsFit' /\ StatusFit' /\ CurrentFit' /\ ran' = ran
      BY <1>1, <2>1, ArchiveFits DEF EndCommit
    <3>2. AsksFit' /\ FromFit'
      BY <1>1, <2>1, ResumeParentFits DEF EndCommit, Live
    <3>3. QED
      BY <3>1, <3>2
  <2>2. CASE ~Live(i)
    BY <1>1, <2>2, Kept DEF EndCommit, table
  <2>3. QED
    BY <2>1, <2>2
<1>4. QED
  BY <1>1, <1>2, <1>3, Kept DEF EndCommit, Fits, bounds

LEMMA AskFits ==
  ASSUME Fits, flow' = flow, NEW i \in Instance, NEW n, OnFlow(i, n),
         asks' = [asks EXCEPT ![i] = @ \cup {n}]
  PROVE  AsksFit'
<1>1. n \in Node
  BY NodesOnFlow DEF Fits
<1>2. asks' \in [Instance -> SUBSET Node]
  BY <1>1 DEF Fits, AsksFit
<1>3. \A j \in Instance : \A m \in asks'[j] : OnFlow(j, m)
  BY DEF Fits, AsksFit
<1>4. QED
  BY <1>2, <1>3, SameFlow DEF AsksFit

LEMMA ApproveFits ==
  ASSUME Fits, NEW i \in Instance, NEW n \in Node, Approve(i, n)
  PROVE  Fits'
<1>1. flow' = flow
  BY DEF Approve
<1>2. OnFlow(i, n)
  BY DEF Approve, Fits, RowsFit
<1>3. RowsFit'
  BY <1>1, <1>2, SetRowFits DEF Approve
<1>4. AsksFit'
  BY <1>1, <1>2, AskFits DEF Approve
<1>5. QED
  BY <1>1, <1>3, <1>4, Kept DEF Approve, Fits, drive, bounds

LEMMA TerminateProcessInstanceFits ==
  ASSUME Fits, NEW i \in Instance, TerminateProcessInstance(i)
  PROVE  Fits'
<1>1. flow' = flow
  BY DEF TerminateProcessInstance
<1>2. RowsFit' /\ StatusFit' /\ CurrentFit' /\ AsksFit' /\ FromFit' /\ ran' = ran
  BY <1>1, TerminateFits DEF TerminateProcessInstance
<1>3. QED
  BY <1>1, <1>2, Kept DEF TerminateProcessInstance, Fits, drive, bounds

LEMMA MappedFits ==
  ASSUME Fits, flow' = flow, NEW i \in Instance, NEW a \in {"active", "suspended"},
         NEW b \in {"active", "suspended"}, Mapped(i, a, b)
  PROVE  RowsFit'
<1>1. row' \in [Instance -> [Node -> {"none", "active", "suspended", "done", "void"}]]
  BY DEF Fits, RowsFit, Mapped
<1>2. \A j \in Instance : \A n \in Node : row'[j][n] # "none" => row[j][n] # "none"
  BY DEF Fits, RowsFit, Mapped
<1>3. QED
  BY <1>1, <1>2, SameFlow DEF Fits, RowsFit

LEMMA SetStatusFits ==
  ASSUME Fits, flow' = flow, NEW i \in Instance, NEW s \in {"active", "suspended"},
         status[i] # "none", status' = [status EXCEPT ![i] = s]
  PROVE  StatusFit'
<1>1. Parent \in Instance /\ \A c \in Child : c \in Instance
  BY DEF Instance
<1>2. QED
  BY <1>1, SameFlow DEF Fits, StatusFit

LEMMA SuspendFits ==
  ASSUME Fits, NEW i \in Instance,
         SuspendProcessInstance(i) \/ ActivateProcessInstance(i)
  PROVE  Fits'
<1>1. flow' = flow
  BY DEF SuspendProcessInstance, ActivateProcessInstance
<1>2. RowsFit'
  BY <1>1, MappedFits DEF SuspendProcessInstance, ActivateProcessInstance
<1>3. StatusFit'
  BY <1>1, SetStatusFits DEF SuspendProcessInstance, ActivateProcessInstance
<1>4. CountsFit'
  BY BoundAssumption DEF SuspendProcessInstance, ActivateProcessInstance, Fits, CountsFit, bounds
<1>5. QED
  BY <1>1, <1>2, <1>3, <1>4, Kept DEF SuspendProcessInstance, ActivateProcessInstance, Fits, drive

LEMMA ReDriveFits ==
  ASSUME Fits, NEW i \in Instance, ReDrive(i)
  PROVE  Fits'
<1>1. flow' = flow
  BY DEF ReDrive
<1>2. OnFlow(i, current[i])
  BY DEF ReDrive, Fits, CurrentFit
<1>3. AsksFit'
  BY <1>1, <1>2, AskFits DEF ReDrive
<1>4. QED
  BY <1>1, <1>3, Kept DEF ReDrive, Fits, table, drive, bounds

LEMMA CrashFits ==
  ASSUME Fits, Crash
  PROVE  Fits'
<1>1. flow' = flow
  BY DEF Crash
<1>2. TokensFit' /\ JoinFit' /\ AsksFit' /\ FromFit'
  BY DEF Crash, TokensFit, JoinFit, RootsFit, AsksFit, FromFit
<1>3. RestoreFit'
  BY <1>1, SameFlow DEF Crash, RestoreFit
<1>4. CountsFit'
  BY BoundAssumption DEF Crash, Fits, CountsFit, table
<1>5. QED
  BY <1>1, <1>2, <1>3, <1>4, Kept DEF Crash, Fits, table

LEMMA OnMsgFits ==
  ASSUME Fits, NEW i \in Instance, OnMsg(i)
  PROVE  Fits'
BY UserOnMsgFits, AutoOnMsgFits, SubEnterFits, SubReadFits, SubCompletedFits, SubCreateFits,
   SubFailFits, EndEnterFits, EndCommitFits DEF OnMsg

LEMMA NextFits ==
  ASSUME Fits, [Next]_vars
  PROVE  Fits'
<1>1. CASE UNCHANGED vars
  BY <1>1, Kept DEF Fits, vars, table, drive, bounds
<1>2. ASSUME NEW i \in Instance, Drive(i)
      PROVE  Fits'
  BY <1>2, StartFits, RefuseFits, DriveNodeFits, DriveBranchesFits, OnMsgFits DEF Drive
<1>3. QED
  BY <1>1, <1>2, ApproveFits, TerminateProcessInstanceFits, SuspendFits, ReDriveFits, RestoreFits,
     ForceResumeFits, CrashFits DEF Next

LEMMA InitFits ==
  ASSUME Init
  PROVE  Fits
<1>1. RowsFit /\ CurrentFit
  BY NodeAssumption DEF Init, RowsFit, CurrentFit
<1>2. TokensFit /\ AsksFit /\ RootsFit(routed) /\ JoinFit
  BY DEF Init, TokensFit, AsksFit, RootsFit, JoinFit
<1>3. StatusFit /\ FromFit
  BY ParentAssumption DEF Init, StatusFit, FromFit, Instance
<1>4. RestoreFit /\ CountsFit
  BY BoundAssumption DEF Init, RestoreFit, CountsFit
<1>5. flow \in Flows /\ fresh \subseteq Instance
  BY DEF Init, Instance
<1>6. QED
  BY <1>1, <1>2, <1>3, <1>4, <1>5 DEF Fits

(* Every reachable state is well typed, whatever the definitions.          *)
THEOREM FlowTypeOK == Spec => []TypeOK
<1>1. Init => Fits
  BY InitFits
<1>2. Fits /\ [Next]_vars => Fits'
  BY NextFits
<1>3. Fits => TypeOK
  BY FitsMeansTypeOK
<1>4. QED
  BY <1>1, <1>2, <1>3, PTL DEF Spec

-----------------------------------------------------------------------------
(* What is asked of a definition with a gateway: its branches are apart    *)
(* from each other and from what follows, pass no node twice and start no  *)
(* child, and its instances are not put back by RestoreAll, which waits    *)
(* for the branches with an open task only.                                *)
Plain(f) ==
  /\ \A x \in f.branches : /\ IsInjective(x) /\ ToSet(x) \cap SubProcess = {}
                          /\ ToSet(x) \cap ToSet(f.tail) = {}
  /\ \A x, y \in f.branches : x # y => ToSet(x) \cap ToSet(y) = {}
  /\ f.gateway # "none" => "Restore" \notin Rescue[f]
Shaped == flow.gateway # "none" /\ Plain(flow)

LEMMA ParentFlow ==
  /\ Parent \in Instance /\ FlowOf(Parent) = flow
  /\ Parts(Parent) = flow.branches \cup {flow.tail}
  /\ \A n : OnFlow(Parent, n) <=> n \in ToSet(flow.tail) \/ \E x \in flow.branches : n \in ToSet(x)
BY DEF Instance, FlowOf, Parts, OnFlow

LEMMA BranchShape ==
  ASSUME flow \in Flows, Shaped, NEW x \in flow.branches
  PROVE  /\ x \in Parts(Parent) /\ x \in Seq(Node) /\ x # <<>> /\ Len(x) \in Nat \ {0}
         /\ DOMAIN x = 1 .. Len(x) /\ Head(x) = x[1] /\ Last(x) = x[Len(x)]
         /\ \A k \in DOMAIN x : /\ x[k] \in Node /\ x[k] \in UserTask \cup Automatic /\ x[k] # End
                               /\ x[k] \notin SubProcess
                               /\ x[k] \in ToSet(x) /\ x[k] \notin ToSet(flow.tail)
         /\ \A n \in ToSet(x) : \E k \in DOMAIN x : n = x[k]
<1>1. x \in Parts(Parent)
  BY ParentFlow
<1>2. x \in Seq(Node) /\ x # <<>> /\ Len(x) \in Nat \ {0} /\ x \in Seq(Node \ {End})
  BY <1>1, ParentFlow, FlowShape
<1>3. DOMAIN x = 1 .. Len(x) /\ Head(x) = x[1] /\ Last(x) = x[Len(x)]
  BY <1>2 DEF Last
<1>4. ToSet(x) \cap SubProcess = {} /\ ToSet(x) \cap ToSet(flow.tail) = {}
  BY DEF Shaped, Plain
<1>5. ASSUME NEW k \in DOMAIN x
      PROVE  /\ x[k] \in Node /\ x[k] \in UserTask \cup Automatic /\ x[k] # End /\ x[k] \notin SubProcess
             /\ x[k] \in ToSet(x) /\ x[k] \notin ToSet(flow.tail)
  <2>1. x[k] \in Node \ {End}
    BY <1>2, <1>3
  <2>2. x[k] \in ToSet(x)
    BY DEF ToSet
  <2>3. QED
    BY <1>4, <2>1, <2>2 DEF Node
<1>6. QED
  BY <1>1, <1>2, <1>3, <1>5 DEF ToSet

LEMMA OneBranch ==
  ASSUME flow \in Flows, Shaped, NEW x \in flow.branches, NEW y \in flow.branches,
         NEW k \in DOMAIN x, NEW l \in DOMAIN y, x[k] = y[l]
  PROVE  x = y /\ k = l
<1>1. x = y
  BY BranchShape DEF Shaped, Plain
<1>2. k = l
  BY <1>1 DEF Shaped, Plain, IsInjective
<1>3. QED
  BY <1>1, <1>2

LEMMA BranchAfter ==
  ASSUME flow \in Flows, Shaped, NEW x \in flow.branches, NEW k \in DOMAIN x,
         NEW s \in Parts(Parent), NEW m \in After(s, x[k])
  PROVE  s = x /\ k + 1 \in DOMAIN x /\ m = x[k + 1]
<1>1. s \in Seq(Node) /\ Len(s) \in Nat /\ DOMAIN s = 1 .. Len(s)
  BY ParentFlow, FlowShape
<1>2. PICK j \in 2 .. Len(s) : s[j - 1] = x[k] /\ m = s[j]
  BY DEF After
<1>3. j - 1 \in DOMAIN s /\ j \in DOMAIN s /\ (j - 1) + 1 = j
  BY <1>1
<1>4. s[j - 1] \in ToSet(s)
  BY <1>3 DEF ToSet
<1>5. s # flow.tail
  BY <1>2, <1>4, BranchShape
<1>6. s \in flow.branches
  BY <1>5, ParentFlow
<1>7. s = x /\ j - 1 = k
  BY <1>2, <1>3, <1>6, OneBranch
<1>8. QED
  BY <1>2, <1>3, <1>7

LEMMA BranchSucc ==
  ASSUME flow \in Flows, Shaped, NEW x \in flow.branches, NEW k \in DOMAIN x,
         NEW m \in Succ(Parent, x[k])
  PROVE  \/ k + 1 \in DOMAIN x /\ m = x[k + 1]
         \/ m = Head(flow.tail) /\ Joined(Parent, x[k])
<1>1. m \in Nexts(Parent, x[k]) \/ m \in BehindJoined(Parent, x[k])
  BY DEF Succ
<1>2. m \in Nexts(Parent, x[k]) => \E s \in Parts(Parent) : m \in After(s, x[k])
  BY DEF Nexts, Parts
<1>3. m \in BehindJoined(Parent, x[k]) => m = Head(flow.tail) /\ Joined(Parent, x[k])
  BY ParentFlow DEF BehindJoined
<1>4. QED
  BY <1>1, <1>2, <1>3, BranchAfter

LEMMA BranchArrives ==
  ASSUME flow \in Flows, Shaped, NEW x \in flow.branches, NEW k \in DOMAIN x
  PROVE  /\ Arrives(Parent, x[k]) \subseteq {Head(x)}
         /\ Arrives(Parent, x[k]) # {} => k = Len(x)
<1>1. ASSUME NEW h \in Arrives(Parent, x[k])
      PROVE  h = Head(x) /\ k = Len(x)
  <2>1. PICK y \in flow.branches : Last(y) = x[k] /\ h = Head(y)
    BY <1>1, ParentFlow DEF Arrives
  <2>2. Len(y) \in DOMAIN y /\ y[Len(y)] = x[k]
    BY <2>1, BranchShape
  <2>3. x = y /\ Len(y) = k
    BY <2>2, OneBranch
  <2>4. QED
    BY <2>1, <2>3
<1>2. QED
  BY <1>1

LEMMA TailShape ==
  ASSUME flow \in Flows
  PROVE  /\ flow.tail \in Parts(Parent) /\ Head(flow.tail) \in ToSet(flow.tail)
         /\ \A n \in ToSet(flow.tail) : n \in Node
BY ParentFlow, PartNodes

LEMMA TailSucc ==
  ASSUME flow \in Flows, Shaped, NEW n \in ToSet(flow.tail)
  PROVE  Succ(Parent, n) \subseteq ToSet(flow.tail) /\ Arrives(Parent, n) = {}
<1>1. ASSUME NEW h \in Arrives(Parent, n)
      PROVE  FALSE
  <2>1. PICK y \in flow.branches : Last(y) = n
    BY <1>1, ParentFlow DEF Arrives
  <2>2. Len(y) \in DOMAIN y /\ y[Len(y)] = n
    BY <2>1, BranchShape
  <2>3. QED
    BY <2>2, BranchShape
<1>2. Arrives(Parent, n) = {}
  BY <1>1
<1>3. ASSUME NEW m \in Nexts(Parent, n)
      PROVE  m \in ToSet(flow.tail)
  <2>1. PICK s \in Parts(Parent) : m \in After(s, n)
    BY <1>3 DEF Nexts, Parts
  <2>2. CASE s = flow.tail
    BY <2>1, <2>2, ParentFlow, PartNodes
  <2>3. CASE s \in flow.branches
    <3>1. PICK j \in 2 .. Len(s) : s[j - 1] = n
      BY <2>1 DEF After
    <3>2. j - 1 \in DOMAIN s
      BY <2>3, BranchShape
    <3>3. QED
      BY <2>3, <3>1, <3>2, BranchShape
  <2>4. QED
    BY <2>2, <2>3, ParentFlow
<1>4. BehindJoined(Parent, n) \subseteq ToSet(flow.tail)
  BY TailShape, ParentFlow DEF BehindJoined
<1>5. QED
  BY <1>2, <1>3, <1>4 DEF Succ

-----------------------------------------------------------------------------
(* The invariant.  A node is touched when it has a row, ran, is executing, *)
(* asked for or current; the user tasks before a touched node of a branch  *)
(* are settled (InTurn), those of a branch the join counted all of them    *)
(* (GotDone); a node is asked for where its branch has something to show   *)
(* (AskedOf); a join waits for every branch entered that waits (Expects);  *)
(* and what follows the join is touched when the branches entered are      *)
(* settled (BehindJoin).                                                   *)
Toks == {k.node : k \in at[Parent]}
Begot == \E c \in Child : status[c] # "none"
Shows(n) == row[Parent][n] # "none" \/ ran[Parent][n] > 0
Touched(n) == Shows(n) \/ n \in Toks \/ n \in asks[Parent] \/ current[Parent] = n
DoneUpTo(x, k) == \A j \in 1 .. k : x[j] \in UserTask => row[Parent][x[j]] = "done"
Shown(x) == \E n \in ToSet(x) : Shows(n)
Entered(x) == flow.gateway = "fork" \/ Shown(x) \/ \E n \in ToSet(x) : n \in Toks
Past == (\E n \in ToSet(flow.tail) : Touched(n)) \/ Begot \/ status[Parent] = "completed"

InTurn == \A x \in flow.branches : \A k \in DOMAIN x : Touched(x[k]) => DoneUpTo(x, k - 1)
GotDone == \A x \in flow.branches : Head(x) \in got[Parent] => DoneUpTo(x, Len(x))
AskedOf == \A x \in flow.branches : \A n \in ToSet(x) :
             n \in asks[Parent] \/ current[Parent] = n => Shown(x)
Expects == expect[Parent] # {} =>
             \A x \in flow.branches : Suspends(x) # {} /\ Entered(x) => Head(x) \in expect[Parent]
BehindJoin == Past => \A x \in flow.branches : Entered(x) => DoneUpTo(x, Len(x))
Core == InTurn /\ GotDone /\ AskedOf /\ Expects /\ BehindJoin

(* Before the first drive of the parent there is nothing.                  *)
Unbegun == Parent \in fresh =>
             /\ Parent \notin restore /\ status[Parent] # "completed" /\ ~Begot
             /\ \A n \in Node : ~Touched(n)

(* What a step may do to the nodes of the parent, when it has the nodes M  *)
(* executed next.                                                          *)
CalmAt(n, M) ==
  /\ n \in UserTask => (row[Parent][n] = "done" => row'[Parent][n] = "done")
  /\ Shows(n) => Shows(n)'
  /\ Shows(n)' => Shows(n) \/ n \in Toks
  /\ n \in Toks' => n \in Toks \/ n \in asks[Parent] \/ n \in M
  /\ n \in asks'[Parent] => \/ n \in asks[Parent] \/ current[Parent] = n \/ Shows(n)
                            \/ n \in SubProcess /\ Begot
  /\ current'[Parent] = n => \/ current[Parent] = n
                             \/ n \in Toks /\ (n \in UserTask \cup Automatic => Shows(n)')
Calm(M) == /\ flow' = flow
           /\ \A n \in Node : CalmAt(n, M)
           /\ Begot' => Begot \/ Toks \cap SubProcess # {}
           /\ status'[Parent] = "completed" => status[Parent] = "completed" \/ End \in Toks
           /\ Parent \in fresh' => Parent \in fresh /\ M = {}
           /\ Parent \in restore' => Parent \in restore \/ Parent \notin fresh'
Drift == \/ expect'[Parent] = expect[Parent] /\ got'[Parent] = got[Parent]
         \/ expect'[Parent] = {} /\ got'[Parent] = {}

LEMMA ToksShape ==
  ASSUME Fits
  PROVE  Toks \subseteq Node /\ asks[Parent] \subseteq Node /\ \A n \in Toks : OnFlow(Parent, n)
BY ParentFlow, TokenShape DEF Fits, AsksFit, Toks, PlacedAt

LEMMA UnbegunKept ==
  ASSUME Fits, Unbegun, NEW M, Calm(M)
  PROVE  Unbegun'
<1>. SUFFICES ASSUME Parent \in fresh'
              PROVE  (/\ Parent \notin restore /\ status[Parent] # "completed" /\ ~Begot
                      /\ \A n \in Node : ~Touched(n))'
  BY DEF Unbegun
<1>1. /\ Parent \in fresh /\ M = {} /\ Parent \notin restore /\ status[Parent] # "completed"
      /\ ~Begot /\ \A n \in Node : ~Touched(n)
  BY DEF Calm, Unbegun
<1>2. Toks = {} /\ asks[Parent] = {}
  BY <1>1, ToksShape DEF Touched
<1>3. Parent \notin restore' /\ status'[Parent] # "completed" /\ ~Begot'
  <2>1. End \notin Toks /\ Toks \cap SubProcess = {}
    BY <1>2
  <2>2. QED
    BY <1>1, <2>1 DEF Calm
<1>4. ASSUME NEW n \in Node
      PROVE  ~Touched(n)'
  <2>1. CalmAt(n, M) /\ ~Touched(n)
    BY <1>1 DEF Calm
  <2>2. ~Shows(n) /\ n \notin Toks /\ n \notin asks[Parent] /\ current[Parent] # n /\ n \notin M
    BY <1>1, <2>1 DEF Touched
  <2>3. ~Shows(n)' /\ n \notin Toks' /\ n \notin asks'[Parent] /\ current'[Parent] # n
    BY <1>1, <2>1, <2>2 DEF CalmAt
  <2>4. QED
    BY <2>3 DEF Touched
<1>5. QED
  BY <1>3, <1>4

LEMMA CalmTouches ==
  ASSUME Fits, NEW M, Calm(M), NEW n \in Node
  PROVE  /\ Touched(n)' => Touched(n) \/ n \in M \/ (n \in SubProcess /\ Begot)
         /\ n \in UserTask => (row[Parent][n] = "done" => row'[Parent][n] = "done")
<1>1. CalmAt(n, M)
  BY DEF Calm
<1>2. Touched(n)' => Shows(n)' \/ n \in Toks' \/ n \in asks'[Parent] \/ current'[Parent] = n
  BY DEF Touched
<1>3. Shows(n)' => Touched(n)
  BY <1>1 DEF CalmAt, Touched
<1>4. n \in Toks' => Touched(n) \/ n \in M
  BY <1>1 DEF CalmAt, Touched
<1>5. n \in asks'[Parent] => Touched(n) \/ (n \in SubProcess /\ Begot)
  BY <1>1 DEF CalmAt, Touched
<1>6. current'[Parent] = n => Touched(n)
  BY <1>1 DEF CalmAt, Touched
<1>7. n \in UserTask => (row[Parent][n] = "done" => row'[Parent][n] = "done")
  BY <1>1 DEF CalmAt
<1>8. QED
  BY <1>2, <1>3, <1>4, <1>5, <1>6, <1>7

LEMMA CalmBranch ==
  ASSUME Fits, Shaped, Core, NEW M, Calm(M), NEW x \in flow.branches
  PROVE  /\ \A k \in DOMAIN x : Touched(x[k])' => Touched(x[k]) \/ x[k] \in M
         /\ \A k \in 0 .. Len(x) : DoneUpTo(x, k) => DoneUpTo(x, k)'
         /\ Shown(x) => Shown(x)'
         /\ Entered(x)' => Entered(x) \/ \E n \in ToSet(x) : n \in M
         /\ \A n \in ToSet(x) : n \in asks'[Parent] \/ current'[Parent] = n => Shown(x)'
<1>1. flow \in Flows /\ flow' = flow
  BY DEF Fits, Calm
<1>2. \A k \in DOMAIN x : x[k] \in Node /\ x[k] \notin SubProcess /\ x[k] \in ToSet(x)
  BY <1>1, BranchShape
<1>3. \A n \in ToSet(x) : n \in Node /\ n \notin SubProcess /\ n \in UserTask \cup Automatic /\ CalmAt(n, M)
  BY <1>1, BranchShape DEF Calm
<1>4. \A k \in DOMAIN x : Touched(x[k])' => Touched(x[k]) \/ x[k] \in M
  BY <1>2, CalmTouches
<1>5. ASSUME NEW k \in 0 .. Len(x), DoneUpTo(x, k)
      PROVE  DoneUpTo(x, k)'
  <2>1. \A j \in 1 .. k : x[j] \in Node
    BY <1>1, BranchShape
  <2>2. QED
    BY <1>5, <2>1, CalmTouches DEF DoneUpTo
<1>6. Shown(x) => Shown(x)'
  BY <1>3 DEF Shown, CalmAt
<1>7. \A n \in ToSet(x) : n \in asks[Parent] \/ current[Parent] = n => Shown(x)
  BY DEF Core, AskedOf
<1>8. Entered(x)' => Entered(x) \/ \E n \in ToSet(x) : n \in M
  <2>1. Shown(x)' => Entered(x)
    BY <1>3 DEF Shown, Entered, CalmAt
  <2>2. (\E n \in ToSet(x) : n \in Toks') => Entered(x) \/ \E n \in ToSet(x) : n \in M
    BY <1>3, <1>7 DEF Entered, CalmAt
  <2>3. QED
    BY <1>1, <2>1, <2>2 DEF Entered
<1>9. ASSUME NEW n \in ToSet(x), n \in asks'[Parent] \/ current'[Parent] = n
      PROVE  Shown(x)'
  <2>1. Shown(x) \/ Shows(n) \/ Shows(n)'
    BY <1>3, <1>7, <1>9 DEF CalmAt
  <2>2. Shows(n) => Shown(x)
    BY DEF Shown
  <2>3. Shows(n)' => Shown(x)'
    BY DEF Shown
  <2>4. QED
    BY <1>6, <2>1, <2>2, <2>3
<1>10. QED
  BY <1>4, <1>5, <1>6, <1>8, <1>9

LEMMA CalmAsked ==
  ASSUME Fits, Shaped, Core, NEW M, Calm(M)
  PROVE  AskedOf'
BY CalmBranch DEF AskedOf, Calm

LEMMA CalmPast ==
  ASSUME Fits, Shaped, Core, NEW M, Calm(M), Past'
  PROVE  Past \/ \E n \in ToSet(flow.tail) : n \in M
<1>1. flow \in Flows /\ flow' = flow
  BY DEF Fits, Calm
<1>2. \A n \in Toks : n \in SubProcess \cup {End} => n \in ToSet(flow.tail)
  BY <1>1, ParentFlow, BranchShape, ToksShape
<1>3. \A n \in Toks : Touched(n)
  BY DEF Touched
<1>4. CASE Begot' \/ status'[Parent] = "completed"
  BY <1>2, <1>3, <1>4 DEF Calm, Past
<1>5. CASE \E n \in ToSet(flow.tail) : Touched(n)'
  BY <1>1, <1>5, TailShape, CalmTouches DEF Past
<1>6. QED
  BY <1>1, <1>4, <1>5 DEF Past

LEMMA InTurnKept ==
  ASSUME Fits, Shaped, Core, NEW M, Calm(M),
         \A x \in flow.branches : \A k \in DOMAIN x : x[k] \in M => DoneUpTo(x, k - 1)
  PROVE  InTurn'
<1>1. flow \in Flows /\ flow' = flow
  BY DEF Fits, Calm
<1>2. ASSUME NEW x \in flow.branches, NEW k \in DOMAIN x, Touched(x[k])'
      PROVE  DoneUpTo(x, k - 1)'
  <2>1. DoneUpTo(x, k - 1)
    BY <1>2, CalmBranch DEF Core, InTurn
  <2>2. k - 1 \in 0 .. Len(x)
    BY <1>1, BranchShape
  <2>3. QED
    BY <2>1, <2>2, CalmBranch
<1>3. QED
  BY <1>1, <1>2 DEF InTurn

LEMMA GotDoneKept ==
  ASSUME Fits, Shaped, Core, NEW M, Calm(M),
         \A x \in flow.branches : Head(x) \in got'[Parent] => DoneUpTo(x, Len(x))
  PROVE  GotDone'
<1>1. flow \in Flows /\ flow' = flow
  BY DEF Fits, Calm
<1>2. \A x \in flow.branches : Len(x) \in 0 .. Len(x)
  BY <1>1, BranchShape
<1>3. QED
  BY <1>1, <1>2, CalmBranch DEF GotDone

LEMMA BehindJoinKept ==
  ASSUME Fits, Shaped, Core, NEW M, Calm(M),
         Past' => \A x \in flow.branches : Entered(x)' => DoneUpTo(x, Len(x))
  PROVE  BehindJoin'
<1>1. flow \in Flows /\ flow' = flow
  BY DEF Fits, Calm
<1>2. \A x \in flow.branches : Len(x) \in 0 .. Len(x)
  BY <1>1, BranchShape
<1>3. QED
  BY <1>1, <1>2, CalmBranch DEF BehindJoin

(* A step that has nothing executed next.                                  *)
LEMMA CalmCore ==
  ASSUME Fits, Shaped, Core, Calm({}), Drift
  PROVE  Core'
<1>1. flow \in Flows /\ flow' = flow
  BY DEF Fits, Calm
<1>2. \A x \in flow.branches : Entered(x)' => Entered(x)
  BY CalmBranch
<1>3. InTurn'
  BY InTurnKept
<1>4. GotDone'
  BY GotDoneKept DEF Drift, Core, GotDone
<1>5. Expects'
  BY <1>1, <1>2 DEF Drift, Core, Expects
<1>6. BehindJoin'
  <2>1. Past' => Past
    BY CalmPast
  <2>2. QED
    BY <1>2, <2>1, BehindJoinKept DEF Core, BehindJoin
<1>7. QED
  BY <1>3, <1>4, <1>5, <1>6, CalmAsked DEF Core

(* The node n tells success.                                               *)
Onward(n) == /\ n \in Toks /\ (n \in UserTask => row[Parent][n] = "done")
             /\ expect'[Parent] = expect[Parent]
             /\ got'[Parent] = got[Parent] \cup Arrives(Parent, n)

LEMMA OnwardCore ==
  ASSUME Fits, Shaped, Core, NEW n, Onward(n), Calm(Succ(Parent, n))
  PROVE  Core'
<1>1. flow \in Flows /\ flow' = flow
  BY DEF Fits, Calm
<1>2. Touched(n) /\ OnFlow(Parent, n)
  BY ToksShape DEF Onward, Touched
<1>3. CASE n \in ToSet(flow.tail)
  <2>1. Succ(Parent, n) \subseteq ToSet(flow.tail) /\ Arrives(Parent, n) = {} /\ Past
    BY <1>1, <1>2, <1>3, TailSucc DEF Past
  <2>2. \A x \in flow.branches : \A m \in ToSet(x) : m \notin Succ(Parent, n)
    BY <1>1, <2>1, BranchShape
  <2>3. \A x \in flow.branches : Entered(x)' => Entered(x)
    BY <2>2, CalmBranch
  <2>4. InTurn'
    BY <1>1, <2>2, BranchShape, InTurnKept
  <2>5. GotDone'
    BY <2>1, GotDoneKept DEF Onward, Core, GotDone
  <2>6. Expects'
    BY <1>1, <2>3 DEF Onward, Core, Expects
  <2>7. BehindJoin'
    BY <2>1, <2>3, BehindJoinKept DEF Core, BehindJoin
  <2>8. QED
    BY <2>4, <2>5, <2>6, <2>7, CalmAsked DEF Core
<1>4. ASSUME NEW x \in flow.branches, n \in ToSet(x)
      PROVE  Core'
  <2>1. PICK k \in DOMAIN x : n = x[k]
    BY <1>1, <1>4, BranchShape
  <2>2. DoneUpTo(x, k)
    <3>1. DoneUpTo(x, k - 1)
      BY <1>2, <2>1 DEF Core, InTurn
    <3>2. k \in Nat /\ \A j \in 1 .. k : j \in 1 .. k - 1 \/ j = k
      BY <1>1, BranchShape
    <3>3. QED
      BY <2>1, <3>1, <3>2 DEF DoneUpTo, Onward
  <2>3. \A y \in flow.branches : Entered(y)' => Entered(y)
    <3>1. ASSUME NEW y \in flow.branches, NEW m \in ToSet(y), m \in Succ(Parent, n)
          PROVE  Entered(y)
      <4>1. PICK l \in DOMAIN y : m = y[l]
        BY <1>1, BranchShape
      <4>2. m # Head(flow.tail)
        BY <1>1, <4>1, BranchShape, TailShape
      <4>3. k + 1 \in DOMAIN x /\ y[l] = x[k + 1]
        BY <1>1, <2>1, <3>1, <4>1, <4>2, BranchSucc
      <4>4. x = y
        BY <1>1, <4>3, OneBranch
      <4>5. QED
        BY <1>4, <4>4 DEF Onward, Entered
    <3>2. QED
      BY <3>1, CalmBranch
  <2>4. InTurn'
    <3>1. ASSUME NEW y \in flow.branches, NEW l \in DOMAIN y, y[l] \in Succ(Parent, n)
          PROVE  DoneUpTo(y, l - 1)
      <4>1. y[l] # Head(flow.tail)
        BY <1>1, BranchShape, TailShape
      <4>2. k + 1 \in DOMAIN x /\ y[l] = x[k + 1]
        BY <1>1, <2>1, <3>1, <4>1, BranchSucc
      <4>3. y = x /\ l = k + 1
        BY <1>1, <4>2, OneBranch
      <4>4. l - 1 = k
        BY <1>1, <4>3, BranchShape
      <4>5. QED
        BY <2>2, <4>3, <4>4
    <3>2. QED
      BY <3>1, InTurnKept
  <2>5. \A y \in flow.branches : Head(y) \in got'[Parent] => DoneUpTo(y, Len(y))
    <3>1. ASSUME NEW y \in flow.branches, Head(y) \in Arrives(Parent, n)
          PROVE  DoneUpTo(y, Len(y))
      <4>1. Head(y) = Head(x) /\ k = Len(x)
        BY <1>1, <2>1, <3>1, BranchArrives
      <4>2. 1 \in DOMAIN x /\ 1 \in DOMAIN y /\ x[1] = y[1]
        BY <1>1, <4>1, BranchShape
      <4>3. x = y
        BY <1>1, <4>2, OneBranch
      <4>4. QED
        BY <2>2, <4>1, <4>3
    <3>2. QED
      BY <3>1 DEF Onward, Core, GotDone
  <2>6. Expects'
    BY <1>1, <2>3 DEF Onward, Core, Expects
  <2>7. BehindJoin'
    <3>1. ASSUME Past', ~Past, NEW y \in flow.branches, Entered(y)'
          PROVE  DoneUpTo(y, Len(y))
      <4>1. PICK m \in ToSet(flow.tail) : m \in Succ(Parent, n)
        BY <3>1, CalmPast
      <4>2. Joined(Parent, n)
        BY <1>1, <2>1, <4>1, BranchSucc, BranchShape
      <4>3. expect[Parent] # {} /\ got'[Parent] = expect[Parent]
        BY <4>2 DEF Joined, Onward
      <4>4. CASE Suspends(y) = {}
        <5>1. \A j \in 1 .. Len(y) : y[j] \notin UserTask
          BY <1>1, <4>4, BranchShape DEF Suspends
        <5>2. QED
          BY <5>1 DEF DoneUpTo
      <4>5. CASE Suspends(y) # {}
        <5>1. Head(y) \in expect[Parent]
          BY <2>3, <3>1, <4>3, <4>5 DEF Core, Expects
        <5>2. QED
          BY <2>5, <4>3, <5>1
      <4>6. QED
        BY <4>4, <4>5
    <3>2. QED
      BY <2>3, <3>1, BehindJoinKept DEF Core, BehindJoin
  <2>8. QED
    BY <2>4, <2>5, <2>6, <2>7, GotDoneKept, CalmAsked DEF Core
<1>5. QED
  BY <1>2, <1>3, <1>4, ParentFlow

-----------------------------------------------------------------------------
(* What each action does to the nodes of the parent.                       *)
Still(S) == \A n \in S : /\ ran'[Parent][n] = ran[Parent][n]
                         /\ \A u \in at'[Parent] : u.node = n => u \in at[Parent]
Quiet == Calm({}) /\ Drift /\ Still(Automatic)

(* Steps that leave the rows, the runs and the current node alone.         *)
LEMMA TableCalm ==
  ASSUME flow' = flow, row' = row, ran' = ran, current' = current, NEW M,
         \A n \in Node : n \in Toks' => n \in Toks \/ n \in asks[Parent] \/ n \in M,
         \A n \in asks'[Parent] : n \in asks[Parent] \/ current[Parent] = n,
         status' = status \/ (status'[Parent] = status[Parent] /\ Toks \cap SubProcess # {}),
         Parent \in fresh' => Parent \in fresh /\ M = {},
         Parent \in restore' => Parent \in restore
  PROVE  Calm(M)
<1>1. \A n \in Node : CalmAt(n, M)
  BY DEF CalmAt, Shows
<1>2. /\ Begot' => Begot \/ Toks \cap SubProcess # {}
      /\ status'[Parent] = status[Parent]
  BY DEF Begot
<1>3. QED
  BY <1>1, <1>2 DEF Calm

LEMMA SameTokens ==
  ASSUME at'[Parent] \subseteq at[Parent]
  PROVE  /\ \A n : n \in Toks' => n \in Toks
         /\ ran'[Parent] = ran[Parent] => Still(Automatic)
BY DEF Toks, Still

LEMMA StopTokens ==
  ASSUME Fits, NEW i \in Instance, NEW t, Stop(i, t)
  PROVE  /\ at'[Parent] \subseteq at[Parent] /\ Drift
         /\ expect'[Parent] = expect[Parent] /\ got'[Parent] = got[Parent]
BY ParentFlow DEF Stop, Drift, Fits, TokensFit

LEMMA BecomeTokens ==
  ASSUME Fits, NEW i \in Instance, NEW t \in at[i], NEW u, u.node = t.node, Become(i, t, u),
         t.node \notin Automatic
  PROVE  /\ \A n : n \in Toks' => n \in Toks
         /\ ran'[Parent] = ran[Parent] => Still(Automatic)
         /\ Drift
<1>1. \A v \in at'[Parent] : v \in at[Parent] \/ (i = Parent /\ v = u)
  BY ParentFlow DEF Become, Fits, TokensFit
<1>2. Drift
  BY DEF Become, Drift
<1>3. QED
  BY <1>1, <1>2 DEF Toks, Still

LEMMA GotoTokens ==
  ASSUME Fits, NEW i \in Instance, NEW t \in at[i], NEW s \in Step, Goto(i, t, s),
         t.node \notin Automatic
  PROVE  /\ \A n : n \in Toks' => n \in Toks
         /\ ran'[Parent] = ran[Parent] => Still(Automatic)
         /\ Drift
BY TokenShape, BecomeTokens DEF Goto

LEMMA AdvanceTokens ==
  ASSUME Fits, NEW i \in Instance, NEW t \in at[i], Advance(i, t)
  PROVE  /\ i # Parent => at'[Parent] = at[Parent] /\ Drift
         /\ i = Parent =>
              /\ t.node \in Toks
              /\ \A u \in at'[Parent] : \/ u \in at[Parent] /\ u # t
                                        \/ \E m \in Succ(Parent, t.node) : u = Fresh(m)
              /\ \A n : n \in Toks' => n \in Toks \/ n \in Succ(Parent, t.node)
              /\ expect'[Parent] = expect[Parent]
              /\ got'[Parent] = got[Parent] \cup Arrives(Parent, t.node)
<1>1. CASE i # Parent
  BY <1>1, ParentFlow, AdvanceIs DEF Fits, TokensFit, JoinFit, Drift
<1>2. CASE i = Parent
  <2>1. t.node \in Toks
    BY <1>2 DEF Toks
  <2>2. /\ expect'[Parent] = expect[Parent]
        /\ got'[Parent] = got[Parent] \cup Arrives(Parent, t.node)
    BY <1>2, ParentFlow, AdvanceIs DEF Fits, JoinFit
  <2>3. at'[Parent] = (at[Parent] \ {t}) \cup {Fresh(m) : m \in Succ(Parent, t.node)}
    BY <1>2, ParentFlow, AdvanceIs DEF Fits, TokensFit
  <2>4. \A u \in at'[Parent] : \/ u \in at[Parent] /\ u # t
                               \/ \E m \in Succ(Parent, t.node) : u = Fresh(m)
    BY <2>3
  <2>5. \A m : Fresh(m).node = m
    BY DEF Fresh
  <2>6. ASSUME NEW n, n \in Toks'
        PROVE  n \in Toks \/ n \in Succ(Parent, t.node)
    <3>1. PICK u \in at'[Parent] : n = u.node
      BY <2>6 DEF Toks
    <3>2. QED
      BY <2>4, <2>5, <3>1 DEF Toks
  <2>7. QED
    BY <1>2, <2>1, <2>2, <2>4, <2>6
<1>3. QED
  BY <1>1, <1>2

LEMMA DrivesTokens ==
  ASSUME Fits, NEW i \in Instance, NEW nodes, NEW bs, Drives(i, nodes, bs)
  PROVE  /\ i # Parent => at'[Parent] = at[Parent] /\ Drift
         /\ i = Parent =>
              /\ at'[Parent] = {Fresh(n) : n \in nodes}
              /\ \A n : n \in Toks' => n \in nodes
              /\ \A S : ran'[Parent] = ran[Parent] /\ S \cap nodes = {} => Still(S)
              /\ expect'[Parent] = {Head(b) : b \in bs} /\ got'[Parent] = {}
<1>1. CASE i # Parent
  BY <1>1, ParentFlow DEF Drives, Fits, TokensFit, JoinFit, RootsFit, Drift
<1>2. CASE i = Parent
  <2>1. at'[Parent] = {Fresh(n) : n \in nodes}
    BY <1>2, ParentFlow DEF Drives, Fits, TokensFit
  <2>2. \A n : Fresh(n).node = n
    BY DEF Fresh
  <2>3. \A u \in at'[Parent] : u.node \in nodes
    BY <2>1, <2>2
  <2>4. expect'[Parent] = {Head(b) : b \in bs} /\ got'[Parent] = {}
    BY <1>2, ParentFlow DEF Drives, Fits, JoinFit, RootsFit
  <2>5. QED
    BY <1>2, <2>1, <2>3, <2>4 DEF Toks, Still
<1>3. QED
  BY <1>1, <1>2

LEMMA TakesNode ==
  ASSUME Fits, NEW i \in Instance, NEW n \in Node, Takes(i, n)
  PROVE  /\ \A m \in asks'[Parent] : m \in asks[Parent]
         /\ i = Parent => n \in asks[Parent]
BY ParentFlow DEF Takes, Fits, AsksFit

LEMMA RefuseQuiet ==
  ASSUME Fits, NEW i \in Instance, NEW n \in Node, Refuse(i, n)
  PROVE  Quiet
<1>1. \A m \in asks'[Parent] : m \in asks[Parent]
  BY TakesNode DEF Refuse
<1>2. at'[Parent] \subseteq at[Parent] /\ ran'[Parent] = ran[Parent] /\ Drift
  BY DEF Refuse, drive, table, Drift
<1>3. Calm({})
  BY <1>1, <1>2, SameTokens, TableCalm DEF Refuse, table
<1>4. QED
  BY <1>2, <1>3, SameTokens DEF Quiet

LEMMA DriveNodeCalm ==
  ASSUME Fits, NEW i \in Instance, NEW n \in Node, DriveNode(i, n)
  PROVE  /\ Calm({}) /\ Drift
         /\ i # Parent => Still(Automatic)
         /\ i = Parent => n \in asks[Parent] /\ Still(Automatic \ {n})
<1>1. /\ \A m \in asks'[Parent] : m \in asks[Parent]
      /\ i = Parent => n \in asks[Parent]
  BY TakesNode DEF DriveNode
<1>2. Drives(i, {n}, {}) /\ ran' = ran
  BY DEF DriveNode, table
<1>3. Drift /\ \A m : m \in Toks' => m \in Toks \/ m \in asks[Parent]
  BY <1>1, <1>2, DrivesTokens, SameTokens DEF Drift
<1>4. Calm({})
  BY <1>1, <1>3, TableCalm DEF DriveNode, table
<1>5. (i # Parent => Still(Automatic)) /\ (i = Parent => Still(Automatic \ {n}))
  BY <1>2, DrivesTokens, SameTokens
<1>6. QED
  BY <1>1, <1>3, <1>4, <1>5

LEMMA DriveBranchesCalm ==
  ASSUME Fits, NEW i \in Instance, NEW n \in Node, DriveBranches(i, n)
  PROVE  \/ Quiet
         \/ /\ i = Parent /\ n \in asks[Parent] /\ ~Pending(Parent) /\ ran' = ran
            /\ Drives(Parent, {FirstSuspend(b) : b \in Exits(Parent)}, Exits(Parent))
            /\ Parent \notin fresh => Calm({FirstSuspend(b) : b \in Exits(Parent)})
<1>1. /\ \A m \in asks'[Parent] : m \in asks[Parent]
      /\ i = Parent => n \in asks[Parent]
  BY TakesNode DEF DriveBranches
<1>2. ran' = ran
  BY DEF DriveBranches, table
<1>3. CASE UNCHANGED <<at, expect, got>>
  <2>1. at'[Parent] \subseteq at[Parent] /\ Drift
    BY <1>3 DEF Drift
  <2>2. Calm({})
    BY <1>1, <2>1, SameTokens, TableCalm DEF DriveBranches, table
  <2>3. QED
    BY <1>2, <2>1, <2>2, SameTokens DEF Quiet
<1>4. CASE /\ ~Pending(i)
           /\ Drives(i, {FirstSuspend(b) : b \in Exits(i)}, Exits(i))
  <2>1. CASE i # Parent
    <3>1. at'[Parent] = at[Parent] /\ Drift
      BY <1>4, <2>1, DrivesTokens
    <3>2. Calm({})
      BY <1>1, <3>1, SameTokens, TableCalm DEF DriveBranches, table
    <3>3. QED
      BY <1>2, <3>1, <3>2, SameTokens DEF Quiet
  <2>2. CASE i = Parent
    <3>. DEFINE M == {FirstSuspend(b) : b \in Exits(Parent)}
    <3>1. Drives(Parent, M, Exits(Parent))
      BY <1>4, <2>2
    <3>. HIDE DEF M
    <3>2. \A m : m \in Toks' => m \in M
      BY <2>2, <3>1, DrivesTokens
    <3>3. ASSUME Parent \notin fresh
          PROVE  Calm(M)
      BY <1>1, <3>2, <3>3, TableCalm DEF DriveBranches, table
    <3>4. QED
      BY <1>1, <1>2, <1>4, <2>2, <3>1, <3>3 DEF M
  <2>3. QED
    BY <2>1, <2>2
<1>5. QED
  BY <1>3, <1>4 DEF DriveBranches

LEMMA ReDriveQuiet ==
  ASSUME Fits, NEW i \in Instance, ReDrive(i)
  PROVE  Quiet
<1>1. \A m \in asks'[Parent] : m \in asks[Parent] \/ current[Parent] = m
  BY ParentFlow DEF ReDrive, Fits, AsksFit
<1>2. at'[Parent] \subseteq at[Parent] /\ ran'[Parent] = ran[Parent] /\ Drift
  BY DEF ReDrive, drive, table, Drift
<1>3. Calm({})
  BY <1>1, <1>2, SameTokens, TableCalm DEF ReDrive, table
<1>4. QED
  BY <1>2, <1>3, SameTokens DEF Quiet

LEMMA RestoreQuiet ==
  ASSUME Fits, NEW i \in Instance, Restore(i), i # Parent
  PROVE  Quiet
<1>1. at'[Parent] \subseteq at[Parent] /\ ran'[Parent] = ran[Parent] /\ Drift
  BY ParentFlow DEF Restore, table, Drift, Fits, TokensFit, JoinFit, RootsFit
<1>2. Calm({})
  BY <1>1, SameTokens, TableCalm DEF Restore, table
<1>3. QED
  BY <1>1, <1>2, SameTokens DEF Quiet

LEMMA ForceResumeCalm ==
  ASSUME Fits, NEW i \in Instance, ForceResume(i)
  PROVE  \/ Quiet
         \/ /\ i = Parent /\ ran' = ran
            /\ Parent \notin fresh => Calm({FirstSuspend(b) : b \in flow.branches})
<1>1. Drives(i, {FirstSuspend(b) : b \in FlowOf(i).branches}, FlowOf(i).branches) /\ ran' = ran
  BY DEF ForceResume, table
<1>2. CASE i # Parent
  <2>1. at'[Parent] = at[Parent] /\ Drift
    BY <1>1, <1>2, DrivesTokens
  <2>2. Calm({})
    BY <2>1, SameTokens, TableCalm DEF ForceResume, table
  <2>3. QED
    BY <1>1, <2>1, <2>2, SameTokens DEF Quiet
<1>3. CASE i = Parent
  <2>. DEFINE M == {FirstSuspend(b) : b \in flow.branches}
  <2>1. Drives(Parent, M, flow.branches)
    BY <1>1, <1>3, ParentFlow
  <2>. HIDE DEF M
  <2>2. \A m : m \in Toks' => m \in M
    BY <1>3, <2>1, DrivesTokens
  <2>3. ASSUME Parent \notin fresh
        PROVE  Calm(M)
    BY <2>2, <2>3, TableCalm DEF ForceResume, table
  <2>4. QED
    BY <1>1, <1>3, <2>3 DEF M
<1>4. QED
  BY <1>2, <1>3

LEMMA StartCalm ==
  ASSUME Fits, NEW i \in Instance, Start(i)
  PROVE  \/ Quiet
         \/ i = Parent
<1>1. CASE i # Parent
  <2>1. \E nodes, bs : Drives(i, nodes, bs)
    BY DEF Start
  <2>2. at'[Parent] = at[Parent] /\ Drift /\ ran'[Parent] = ran[Parent]
    BY <1>1, <2>1, DrivesTokens DEF Start, table
  <2>3. Calm({})
    BY <1>1, <2>2, SameTokens, TableCalm DEF Start, table
  <2>4. QED
    BY <2>2, <2>3, SameTokens DEF Quiet
<1>2. QED
  BY <1>1

LEMMA UserOnMsgCalm ==
  ASSUME Fits, NEW i \in Instance, NEW t \in at[i], UserOnMsg(i, t)
  PROVE  \/ Quiet
         \/ /\ i = Parent /\ Onward(t.node) /\ t.node \in UserTask
            /\ Parent \notin fresh => Calm(Succ(Parent, t.node))
            /\ Still(Automatic \ Succ(Parent, t.node))
<1>1. t.node \in Node /\ t.node \in UserTask /\ (i = Parent => t.node \in Toks)
  BY TokenShape DEF UserOnMsg, Toks
<1>2. /\ flow' = flow /\ status' = status /\ ran' = ran /\ asks' = asks /\ fresh' = fresh
      /\ restore' = restore
  BY DEF UserOnMsg
<1>3. CASE /\ row[i][t.node] = "none" /\ SetRow(i, t.node, NewStatus(i))
           /\ current' = [current EXCEPT ![i] = t.node] /\ Stop(i, t)
  <2>1. at'[Parent] \subseteq at[Parent] /\ Drift
    BY <1>3, StopTokens
  <2>2. \A n : n \in Toks' => n \in Toks
    BY <2>1, SameTokens
  <2>3. NewStatus(i) \in {"active", "suspended"}
    BY DEF NewStatus
  <2>4. ASSUME NEW n \in Node
        PROVE  CalmAt(n, {})
    <3>1. CASE i = Parent /\ n = t.node
      <4>1. row'[Parent][n] # "none" /\ row[Parent][n] = "none"
        BY <1>3, <2>3, <3>1, ParentFlow DEF SetRow, Fits, RowsFit
      <4>2. Shows(n)'
        BY <4>1 DEF Shows
      <4>3. QED
        BY <1>1, <1>2, <2>2, <3>1, <4>1, <4>2 DEF CalmAt
    <3>2. CASE i # Parent \/ n # t.node
      <4>1. row'[Parent][n] = row[Parent][n]
        BY <1>3, <3>2, ParentFlow DEF SetRow, Fits, RowsFit
      <4>2. current'[Parent] = n => current[Parent] = n
        BY <1>3, <3>2, ParentFlow DEF Fits, CurrentFit
      <4>3. Shows(n)' = Shows(n)
        BY <1>2, <4>1 DEF Shows
      <4>4. QED
        BY <1>2, <2>2, <4>1, <4>2, <4>3 DEF CalmAt
    <3>3. QED
      BY <3>1, <3>2
  <2>5. Calm({})
    BY <1>2, <2>4 DEF Calm, Begot
  <2>6. QED
    BY <1>2, <2>1, <2>5, SameTokens DEF Quiet
<1>4. CASE Stop(i, t) /\ row' = row /\ current' = current
  <2>1. at'[Parent] \subseteq at[Parent] /\ Drift
    BY <1>4, StopTokens
  <2>2. Calm({})
    BY <1>2, <1>4, <2>1, SameTokens, TableCalm
  <2>3. QED
    BY <1>2, <2>1, <2>2, SameTokens DEF Quiet
<1>5. CASE row[i][t.node] = "done" /\ Advance(i, t) /\ row' = row /\ current' = current
  <2>1. CASE i # Parent
    <3>1. at'[Parent] = at[Parent] /\ Drift
      BY <1>5, <2>1, AdvanceTokens
    <3>2. Calm({})
      BY <1>2, <1>5, <3>1, SameTokens, TableCalm
    <3>3. QED
      BY <1>2, <3>1, <3>2, SameTokens DEF Quiet
  <2>2. CASE i = Parent
    <3>1. Onward(t.node)
      BY <1>5, <2>2, AdvanceTokens DEF Onward
    <3>2. \A n : n \in Toks' => n \in Toks \/ n \in Succ(Parent, t.node)
      BY <1>5, <2>2, AdvanceTokens
    <3>3. ASSUME Parent \notin fresh
          PROVE  Calm(Succ(Parent, t.node))
      BY <1>2, <1>5, <3>2, <3>3, TableCalm
    <3>4. Still(Automatic \ Succ(Parent, t.node))
      <4>1. \A u \in at'[Parent] : u \in at[Parent] \/ \E m \in Succ(Parent, t.node) : u = Fresh(m)
        BY <1>5, <2>2, AdvanceTokens
      <4>2. \A m : Fresh(m).node = m
        BY DEF Fresh
      <4>3. QED
        BY <1>2, <4>1, <4>2 DEF Still
    <3>5. QED
      BY <1>1, <2>2, <3>1, <3>3, <3>4
  <2>3. QED
    BY <2>1, <2>2
<1>6. QED
  BY <1>3, <1>4, <1>5 DEF UserOnMsg

LEMMA AutoOnMsgCalm ==
  ASSUME Fits, NEW i \in Instance, NEW t \in at[i], AutoOnMsg(i, t)
  PROVE  \/ Quiet
         \/ /\ i = Parent /\ Onward(t.node) /\ t.node \in Automatic
            /\ Parent \notin fresh => Calm(Succ(Parent, t.node))
            /\ \A n \in Node : n # t.node => ran'[Parent][n] = ran[Parent][n]
            /\ ran[Parent][t.node] = 0 => ran'[Parent][t.node] = 1
            /\ \A u \in at'[Parent] : \/ u \in at[Parent] /\ u # t
                                      \/ \E m \in Succ(Parent, t.node) : u = Fresh(m)
<1>1. t.node \in Node /\ t.node \in Automatic /\ t.node \notin UserTask
  BY TokenShape, NodeAssumption DEF AutoOnMsg
<1>2. /\ flow' = flow /\ status' = status /\ row' = row /\ asks' = asks /\ fresh' = fresh
      /\ restore' = restore /\ Advance(i, t)
  BY DEF AutoOnMsg
<1>3. CASE i # Parent
  <2>1. ran'[Parent] = ran[Parent] /\ current'[Parent] = current[Parent]
    BY <1>3, ParentFlow DEF AutoOnMsg, Fits, CountsFit, CurrentFit
  <2>2. at'[Parent] = at[Parent] /\ Drift
    BY <1>2, <1>3, AdvanceTokens
  <2>3. \A n \in Node : CalmAt(n, {})
    BY <1>2, <2>1, <2>2, SameTokens DEF CalmAt, Shows
  <2>4. Calm({})
    BY <1>2, <2>3 DEF Calm, Begot
  <2>5. QED
    BY <2>1, <2>2, <2>4, SameTokens DEF Quiet
<1>4. CASE i = Parent
  <2>1. Onward(t.node)
    BY <1>1, <1>2, <1>4, AdvanceTokens DEF Onward
  <2>2. \A n : n \in Toks' => n \in Toks \/ n \in Succ(Parent, t.node)
    BY <1>2, <1>4, AdvanceTokens
  <2>3. /\ \A n \in Node : n # t.node => ran'[Parent][n] = ran[Parent][n]
        /\ ran[Parent][t.node] = 0 => ran'[Parent][t.node] = 1
        /\ ran'[Parent][t.node] > 0
    <3>1. ran[Parent] \in [Node -> 0..2] /\ ran \in [Instance -> [Node -> 0..2]]
      BY ParentFlow DEF Fits, CountsFit
    <3>2. ran' = [ran EXCEPT ![Parent][t.node] = IF @ < 2 THEN @ + 1 ELSE @]
      BY <1>4 DEF AutoOnMsg
    <3>3. QED
      BY <1>1, <3>1, <3>2, ParentFlow
  <2>4. ASSUME NEW n \in Node
        PROVE  CalmAt(n, Succ(Parent, t.node))
    <3>1. CASE n = t.node
      <4>1. Shows(n)' /\ n \in Toks
        BY <2>1, <2>3, <3>1 DEF Shows, Onward
      <4>2. QED
        BY <1>2, <4>1 DEF CalmAt
    <3>2. CASE n # t.node
      <4>1. Shows(n)' = Shows(n)
        BY <1>2, <2>3, <3>2 DEF Shows
      <4>2. current'[Parent] = n => current[Parent] = n
        BY <1>4, <3>2, ParentFlow DEF AutoOnMsg, Fits, CurrentFit
      <4>3. QED
        BY <1>2, <2>2, <4>1, <4>2 DEF CalmAt
    <3>3. QED
      BY <3>1, <3>2
  <2>5. Parent \notin fresh => Calm(Succ(Parent, t.node))
    BY <1>2, <2>4 DEF Calm, Begot
  <2>6. QED
    BY <1>1, <1>2, <1>4, <2>1, <2>3, <2>5, AdvanceTokens
<1>5. QED
  BY <1>3, <1>4

(* Steps of a sub-process or end node: the node is no branch's own.        *)
LEMMA NodeCalm ==
  ASSUME Fits, NEW i \in Instance, NEW n \in SubProcess \cup {End}, i = Parent => n \in Toks,
         NEW M, flow' = flow, status' = status, ran' = ran, asks' = asks, fresh' = fresh,
         restore' = restore, Parent \in fresh => M = {},
         row' = row \/ \E s \in {"active", "suspended", "done"} : SetRow(i, n, s),
         current' = current \/ \E m \in {n, current[i]} : current' = [current EXCEPT ![i] = m],
         \A m \in Node : m \in Toks' => m \in Toks \/ m \in M
  PROVE  Calm(M)
<1>1. n \in Node /\ n \notin UserTask \cup Automatic
  BY NodeAssumption DEF Node
<1>2. ASSUME NEW m \in Node
      PROVE  CalmAt(m, M)
  <2>1. CASE i = Parent /\ m = n
    <3>1. Shows(m) => Shows(m)'
      BY <1>1, <2>1, ParentFlow DEF Shows, SetRow, Fits, RowsFit
    <3>2. QED
      BY <1>1, <2>1, <3>1 DEF CalmAt
  <2>2. CASE i # Parent \/ m # n
    <3>1. row'[Parent][m] = row[Parent][m]
      BY <1>1, <2>2, ParentFlow DEF SetRow, Fits, RowsFit
    <3>2. current'[Parent] = m => current[Parent] = m
      BY <2>2, ParentFlow DEF Fits, CurrentFit
    <3>3. Shows(m)' = Shows(m)
      BY <3>1 DEF Shows
    <3>4. QED
      BY <3>1, <3>2, <3>3 DEF CalmAt
  <2>3. QED
    BY <2>1, <2>2
<1>3. QED
  BY <1>2 DEF Calm, Begot

LEMMA SubReadQuiet ==
  ASSUME Fits, NEW i \in Instance, NEW t \in at[i],
         SubTerminated(i, t) \/ SubActive(i, t) \/ SubParent(i, t)
  PROVE  Quiet
<1>1. t.step \in {"children", "state", "parent"}
  BY DEF SubTerminated, SubActive, SubParent
<1>2. t.node \in SubProcess /\ t.node \notin Automatic
  BY <1>1, TokenShape, NodeAssumption DEF PlacedAt
<1>3. PICK s \in {"fail", "state", "running", "idle", "create"} : Goto(i, t, s)
  BY DEF SubTerminated, SubActive, SubParent
<1>4. (\A n : n \in Toks' => n \in Toks) /\ Still(Automatic) /\ Drift
  <2>1. s \in Step /\ ran'[Parent] = ran[Parent]
    BY DEF Step, SubTerminated, SubActive, SubParent, table
  <2>2. QED
    BY <1>2, <1>3, <2>1, GotoTokens
<1>5. Calm({})
  BY <1>4, TableCalm DEF SubTerminated, SubActive, SubParent, table
<1>6. QED
  BY <1>4, <1>5 DEF Quiet

LEMMA ToksOf ==
  ASSUME NEW i, NEW t \in at[i]
  PROVE  i = Parent => t.node \in Toks
BY DEF Toks

LEMMA SubEnterQuiet ==
  ASSUME Fits, NEW i \in Instance, NEW t \in at[i], SubEnter(i, t)
  PROVE  Quiet
<1>1. t.node \in SubProcess /\ t.node \notin Automatic /\ (i = Parent => t.node \in Toks)
  BY ToksOf, NodeAssumption DEF SubEnter
<1>2. PICK u : u.node = t.node /\ Become(i, t, u)
  <2>1. CASE Goto(i, t, "children")
    BY <2>1, TokenShape DEF Goto, Step
  <2>2. CASE Become(i, t, [t EXCEPT !.own = TRUE, !.step = "children"])
    <3>1. [t EXCEPT !.own = TRUE, !.step = "children"].node = t.node
      BY TokenShape DEF Token
    <3>2. QED
      BY <2>2, <3>1
  <2>3. QED
    BY <2>1, <2>2 DEF SubEnter
<1>3. (\A n : n \in Toks' => n \in Toks) /\ Still(Automatic) /\ Drift
  BY <1>1, <1>2, BecomeTokens DEF SubEnter
<1>4. row' = row \/ \E s \in {"active", "suspended", "done"} : SetRow(i, t.node, s)
  <2>1. NewStatus(i) \in {"active", "suspended", "done"}
    BY DEF NewStatus
  <2>2. QED
    BY <2>1 DEF SubEnter
<1>5. current' = current \/ \E m \in {t.node, current[i]} : current' = [current EXCEPT ![i] = m]
  BY DEF SubEnter
<1>6. Calm({})
  BY <1>1, <1>3, <1>4, <1>5, NodeCalm DEF SubEnter
<1>7. QED
  BY <1>3, <1>6 DEF Quiet

LEMMA SubCompletedCalm ==
  ASSUME Fits, NEW i \in Instance, NEW t \in at[i], SubCompleted(i, t)
  PROVE  \/ Quiet
         \/ /\ i = Parent /\ Onward(t.node) /\ t.node \in SubProcess
            /\ Parent \notin fresh => Calm(Succ(Parent, t.node))
            /\ Still(Automatic \ Succ(Parent, t.node))
<1>1. t.node \in SubProcess /\ t.node \notin Automatic /\ t.node \notin UserTask /\ i = Parent
  BY SubIsParent, NodeAssumption DEF SubCompleted
<1>2. t.node \in Toks
  BY <1>1, ToksOf
<1>3. /\ flow' = flow /\ status' = status /\ ran' = ran /\ asks' = asks /\ fresh' = fresh
      /\ restore' = restore /\ current' = current
  BY DEF SubCompleted
<1>4. CASE row' = row /\ (Stop(i, t) \/ Goto(i, t, "parent"))
  <2>1. (\A n : n \in Toks' => n \in Toks) /\ Still(Automatic) /\ Drift
    <3>1. CASE Stop(i, t)
      <4>1. at'[Parent] \subseteq at[Parent] /\ Drift
        BY <3>1, StopTokens
      <4>2. QED
        BY <1>3, <4>1, SameTokens
    <3>2. CASE Goto(i, t, "parent")
      BY <1>1, <1>3, <3>2, GotoTokens DEF Step
    <3>3. QED
      BY <1>4, <3>1, <3>2
  <2>2. Calm({})
    BY <1>3, <1>4, <2>1, TableCalm
  <2>3. QED
    BY <2>1, <2>2 DEF Quiet
<1>5. CASE Advance(i, t) /\ \E s \in {"done", row[i][t.node]} : SetRow(i, t.node, s)
  <2>1. Onward(t.node)
    BY <1>1, <1>5, AdvanceTokens DEF Onward
  <2>2. \A n : n \in Toks' => n \in Toks \/ n \in Succ(Parent, t.node)
    BY <1>1, <1>5, AdvanceTokens
  <2>3. row' = row \/ \E s \in {"active", "suspended", "done"} : SetRow(i, t.node, s)
    <3>1. SetRow(i, t.node, row[i][t.node]) => row' = row
      BY DEF SetRow, Fits, RowsFit
    <3>2. QED
      BY <1>5, <3>1
  <2>4. ASSUME Parent \notin fresh
        PROVE  Calm(Succ(Parent, t.node))
    BY <1>1, <1>2, <1>3, <2>2, <2>3, <2>4, NodeCalm
  <2>5. Still(Automatic \ Succ(Parent, t.node))
    <3>1. \A u \in at'[Parent] : u \in at[Parent] \/ \E m \in Succ(Parent, t.node) : u = Fresh(m)
      BY <1>1, <1>5, AdvanceTokens
    <3>2. \A m : Fresh(m).node = m
      BY DEF Fresh
    <3>3. QED
      BY <1>3, <3>1, <3>2 DEF Still
  <2>6. QED
    BY <1>1, <2>1, <2>4, <2>5
<1>6. QED
  <2>1. CASE \E c \in Child : Ended(c)
    <3>1. Advance(i, t)
      BY <2>1 DEF SubCompleted
    <3>2. \E s \in {"done", row[i][t.node]} : SetRow(i, t.node, s)
      BY <2>1 DEF SubCompleted, SetRow
    <3>3. QED
      BY <1>5, <3>1, <3>2
  <2>2. CASE ~ \E c \in Child : Ended(c)
    BY <1>4, <2>2 DEF SubCompleted
  <2>3. QED
    BY <2>1, <2>2

LEMMA SubCreateQuiet ==
  ASSUME Fits, NEW i \in Instance, NEW t \in at[i], SubCreate(i, t)
  PROVE  Quiet
<1>1. i = Parent /\ t.node \in SubProcess
  BY SubIsParent DEF SubCreate
<1>2. t.node \in Toks
  BY <1>1, ToksOf
<1>3. at'[Parent] \subseteq at[Parent] /\ Drift
  BY StopTokens DEF SubCreate
<1>4. status'[Parent] = status[Parent] /\ (Parent \in fresh' => Parent \in fresh)
  BY ParentFlow, ParentAssumption DEF SubCreate, Fits, StatusFit
<1>5. Calm({})
  BY <1>1, <1>2, <1>3, <1>4, SameTokens, TableCalm DEF SubCreate
<1>6. QED
  BY <1>3, <1>5, SameTokens DEF Quiet, SubCreate

(* An instance ends; the parent's node is asked for when a child does.     *)
LEMMA ArchiveCalm ==
  ASSUME Fits, flow' = flow, NEW who, \A i \in who : Live(i),
         NEW s \in {"terminated", "completed"}, Archive(who, s),
         (Parent \in who /\ s = "completed") => End \in Toks,
         fresh' = fresh, restore' = restore, \A n : n \in Toks' => n \in Toks,
         NEW i \in Instance, Live(i), ResumeParent(i)
  PROVE  Calm({})
<1>1. current' = current /\ ran' = ran
  BY DEF Archive
<1>2. \A n \in Node : /\ row[Parent][n] = "done" => row'[Parent][n] = "done"
                      /\ row'[Parent][n] = "none" <=> row[Parent][n] = "none"
  BY ParentFlow DEF Archive, Open
<1>3. Begot' => Begot
  BY DEF Archive, Live, Begot, Instance
<1>4. status'[Parent] = "completed" => status[Parent] = "completed" \/ End \in Toks
  BY ParentFlow DEF Archive
<1>5. \A n \in asks'[Parent] : n \in asks[Parent] \/ (n \in SubProcess /\ Begot)
  <2>1. CASE i \in Child
    <3>1. ParentNode(i) \in SubProcess /\ Begot
      BY <2>1, ParentNodeFits DEF Live, Begot
    <3>2. asks'[Parent] = asks[Parent] \cup ({ParentNode(i)} \ {NoNode})
      BY <2>1, ParentFlow DEF ResumeParent, Fits, AsksFit
    <3>3. QED
      BY <3>1, <3>2
  <2>2. CASE i \notin Child
    BY <2>2 DEF ResumeParent
  <2>3. QED
    BY <2>1, <2>2
<1>6. \A n \in Node : CalmAt(n, {})
  BY <1>1, <1>2, <1>5 DEF CalmAt, Shows
<1>7. QED
  BY <1>3, <1>4, <1>6 DEF Calm

LEMMA TerminateCalm ==
  ASSUME Fits, flow' = flow, NEW i \in Instance, Live(i), Terminate(i),
         fresh' = fresh, restore' = restore, \A n : n \in Toks' => n \in Toks
  PROVE  Calm({}) /\ ran' = ran
<1>1. \A j \in {i} \cup Kids(i) : Live(j)
  BY DEF Kids
<1>2. Archive({i} \cup Kids(i), "terminated") /\ ResumeParent(i)
  BY DEF Terminate
<1>3. Calm({})
  BY <1>1, <1>2, ArchiveCalm
<1>4. QED
  BY <1>2, <1>3 DEF Archive

LEMMA SubFailQuiet ==
  ASSUME Fits, NEW i \in Instance, NEW t \in at[i], SubFail(i, t)
  PROVE  Quiet
<1>1. at'[Parent] \subseteq at[Parent] /\ Drift
  BY StopTokens DEF SubFail
<1>2. \A n : n \in Toks' => n \in Toks
  BY <1>1, SameTokens
<1>3. CASE Live(i)
  <2>1. Calm({}) /\ ran' = ran
    BY <1>2, <1>3, TerminateCalm DEF SubFail
  <2>2. QED
    BY <1>1, <2>1, SameTokens DEF Quiet
<1>4. CASE ~Live(i)
  <2>1. Calm({})
    BY <1>2, <1>4, TableCalm DEF SubFail, table
  <2>2. QED
    BY <1>1, <1>4, <2>1, SameTokens DEF Quiet, SubFail, table
<1>5. QED
  BY <1>3, <1>4

LEMMA EndEnterQuiet ==
  ASSUME Fits, NEW i \in Instance, NEW t \in at[i], EndEnter(i, t)
  PROVE  Quiet
<1>1. t.node = End /\ t.node \notin Automatic /\ (i = Parent => t.node \in Toks)
  BY ToksOf, NodeAssumption DEF EndEnter
<1>2. (\A n : n \in Toks' => n \in Toks) /\ Still(Automatic) /\ Drift
  <2>1. CASE Stop(i, t)
    <3>1. at'[Parent] \subseteq at[Parent] /\ Drift
      BY <2>1, StopTokens
    <3>2. QED
      BY <3>1, SameTokens DEF EndEnter
  <2>2. CASE Goto(i, t, "commit")
    BY <1>1, <2>2, GotoTokens DEF Step, EndEnter
  <2>3. QED
    BY <2>1, <2>2 DEF EndEnter
<1>3. current' = current \/ \E m \in {t.node, current[i]} : current' = [current EXCEPT ![i] = m]
  BY <1>1 DEF EndEnter
<1>4. Calm({})
  BY <1>1, <1>2, <1>3, NodeCalm DEF EndEnter
<1>5. QED
  BY <1>2, <1>4 DEF Quiet

LEMMA EndCommitQuiet ==
  ASSUME Fits, NEW i \in Instance, NEW t \in at[i], EndCommit(i, t)
  PROVE  Quiet
<1>1. t.node = End /\ (i = Parent => t.node \in Toks)
  BY ToksOf, TokenShape DEF EndCommit, PlacedAt
<1>2. at'[Parent] \subseteq at[Parent] /\ Drift
  BY StopTokens DEF EndCommit
<1>3. \A n : n \in Toks' => n \in Toks
  BY <1>2, SameTokens
<1>4. CASE Live(i)
  <2>1. Archive({i}, "completed") /\ ResumeParent(i)
    BY <1>4 DEF EndCommit
  <2>2. Calm({})
    BY <1>1, <1>3, <1>4, <2>1, ArchiveCalm DEF EndCommit
  <2>3. QED
    BY <1>2, <2>1, <2>2, SameTokens DEF Quiet, Archive
<1>5. CASE ~Live(i)
  <2>1. Calm({})
    BY <1>3, <1>5, TableCalm DEF EndCommit, table
  <2>2. QED
    BY <1>2, <1>5, <2>1, SameTokens DEF Quiet, EndCommit, table
<1>6. QED
  BY <1>4, <1>5

LEMMA ApproveQuiet ==
  ASSUME Fits, NEW i \in Instance, NEW n \in Node, Approve(i, n)
  PROVE  Quiet
<1>1. at' = at /\ Drift /\ ran' = ran
  BY DEF Approve, drive, Drift
<1>2. \A m : m \in Toks' => m \in Toks
  BY <1>1, SameTokens
<1>3. \A m \in Node : /\ row[Parent][m] = "done" => row'[Parent][m] = "done"
                      /\ row'[Parent][m] = "none" <=> row[Parent][m] = "none"
  BY ParentFlow DEF Approve, SetRow, Fits, RowsFit
<1>4. \A m \in asks'[Parent] : m \in asks[Parent] \/ Shows(m)
  BY ParentFlow DEF Approve, Fits, AsksFit, Shows
<1>5. \A m \in Node : CalmAt(m, {})
  BY <1>1, <1>2, <1>3, <1>4 DEF Approve, CalmAt, Shows
<1>6. Calm({})
  BY <1>5 DEF Approve, Calm, Begot
<1>7. QED
  BY <1>1, <1>6, SameTokens DEF Quiet

LEMMA TerminateProcessInstanceQuiet ==
  ASSUME Fits, NEW i \in Instance, TerminateProcessInstance(i)
  PROVE  Quiet
<1>1. at' = at /\ Drift
  BY DEF TerminateProcessInstance, drive, Drift
<1>2. \A m : m \in Toks' => m \in Toks
  BY <1>1, SameTokens
<1>3. Calm({}) /\ ran' = ran
  BY <1>2, TerminateCalm DEF TerminateProcessInstance
<1>4. QED
  BY <1>1, <1>3, SameTokens DEF Quiet

LEMMA SuspendQuiet ==
  ASSUME Fits, NEW i \in Instance,
         SuspendProcessInstance(i) \/ ActivateProcessInstance(i)
  PROVE  Quiet
<1>1. /\ at' = at /\ Drift /\ ran' = ran /\ asks' = asks /\ current' = current /\ fresh' = fresh
      /\ restore' = restore /\ flow' = flow
  BY DEF SuspendProcessInstance, ActivateProcessInstance, drive, Drift
<1>2. \A m : m \in Toks' => m \in Toks
  BY <1>1, SameTokens
<1>3. \A m \in Node : /\ row[Parent][m] = "done" => row'[Parent][m] = "done"
                      /\ row'[Parent][m] = "none" <=> row[Parent][m] = "none"
  BY ParentFlow DEF SuspendProcessInstance, ActivateProcessInstance, Mapped, Fits, RowsFit
<1>4. /\ status'[Parent] = "completed" => status[Parent] = "completed"
      /\ Begot' => Begot
  BY ParentFlow DEF SuspendProcessInstance, ActivateProcessInstance, Fits, StatusFit, Begot, Instance
<1>5. \A m \in Node : CalmAt(m, {})
  BY <1>1, <1>2, <1>3 DEF CalmAt, Shows
<1>6. Calm({})
  BY <1>1, <1>4, <1>5 DEF Calm
<1>7. QED
  BY <1>1, <1>6, SameTokens DEF Quiet

LEMMA CrashQuiet ==
  ASSUME Fits, Crash
  PROVE  Quiet
<1>1. at'[Parent] = {} /\ expect'[Parent] = {} /\ got'[Parent] = {} /\ asks'[Parent] = {}
  BY ParentFlow DEF Crash
<1>2. \A m \in Node : CalmAt(m, {})
  BY <1>1 DEF Crash, table, CalmAt, Shows, Toks
<1>3. Calm({})
  BY <1>2 DEF Crash, table, Calm, Begot
<1>4. QED
  BY <1>1, <1>3 DEF Quiet, Drift, Still, Crash, table

-----------------------------------------------------------------------------
(* The steps that have nodes of several branches executed keep the core.   *)

LEMMA FirstSuspendOf ==
  ASSUME Fits, Shaped, NEW x \in flow.branches, NEW y \in flow.branches, Suspends(y) # {},
         FirstSuspend(y) \in ToSet(x)
  PROVE  x = y
<1>1. flow \in Flows
  BY DEF Fits
<1>2. FirstSuspend(y) \in ToSet(y)
  BY <1>1, ParentFlow, FirstSuspendWaits
<1>3. QED
  BY <1>2 DEF Shaped, Plain

LEMMA FirstSuspendsInside ==
  ASSUME Fits, Shaped, NEW bs, bs \subseteq flow.branches, \A b \in bs : Suspends(b) # {}
  PROVE  /\ \A n \in {FirstSuspend(b) : b \in bs} : n \notin ToSet(flow.tail) /\ n \in UserTask
         /\ \A x \in flow.branches : (\E n \in ToSet(x) : n \in {FirstSuspend(b) : b \in bs}) => x \in bs
<1>1. flow \in Flows
  BY DEF Fits
<1>2. \A b \in bs : FirstSuspend(b) \in ToSet(b) /\ FirstSuspend(b) \in UserTask
  BY <1>1, ParentFlow, FirstSuspendWaits
<1>3. \A b \in bs : FirstSuspend(b) \notin ToSet(flow.tail)
  BY <1>1, <1>2, BranchShape
<1>4. \A x \in flow.branches : \A b \in bs : FirstSuspend(b) \in ToSet(x) => x = b
  BY FirstSuspendOf
<1>5. QED
  BY <1>2, <1>3, <1>4

LEMMA ResumedCore ==
  ASSUME Fits, Shaped, Core, ~Pending(Parent), at[Parent] = {},
         Drives(Parent, {FirstSuspend(b) : b \in Exits(Parent)}, Exits(Parent)),
         Calm({FirstSuspend(b) : b \in Exits(Parent)})
  PROVE  Core'
<1>. DEFINE M == {FirstSuspend(b) : b \in Exits(Parent)}
<1>1. flow \in Flows /\ flow' = flow
  BY DEF Fits, Calm
<1>2. Exits(Parent) \subseteq flow.branches /\ \A b \in Exits(Parent) : Suspends(b) # {}
  BY ParentFlow DEF Exits
<1>3. /\ \A n \in M : n \notin ToSet(flow.tail)
      /\ \A x \in flow.branches : (\E n \in ToSet(x) : n \in M) => x \in Exits(Parent)
  BY <1>2, FirstSuspendsInside
<1>4. expect'[Parent] = {Head(b) : b \in Exits(Parent)} /\ got'[Parent] = {}
  BY ParentFlow, DrivesTokens
<1>5. Calm(M)
  OBVIOUS
<1>. HIDE DEF M
<1>6. ASSUME NEW x \in Exits(Parent), NEW k \in 0 .. Len(x)
      PROVE  DoneUpTo(x, k)
  <2>1. x \in flow.branches
    BY <1>2
  <2>2. \A j \in Suspends(x) : row[Parent][x[j]] = "done"
    BY DEF Pending, Settled
  <2>3. \A j \in 1 .. k : x[j] \in UserTask => j \in Suspends(x)
    BY <1>1, <2>1, BranchShape DEF Suspends
  <2>4. QED
    BY <2>2, <2>3 DEF DoneUpTo
<1>7. InTurn'
  <2>1. ASSUME NEW x \in flow.branches, NEW k \in DOMAIN x, x[k] \in M
        PROVE  DoneUpTo(x, k - 1)
    <3>1. x[k] \in ToSet(x) /\ k - 1 \in 0 .. Len(x)
      BY <1>1, BranchShape
    <3>2. x \in Exits(Parent)
      BY <1>3, <2>1, <3>1
    <3>3. QED
      BY <1>6, <3>1, <3>2
  <2>2. QED
    BY <1>5, <2>1, InTurnKept
<1>8. GotDone'
  BY <1>4, <1>5, GotDoneKept
<1>9. \A x \in flow.branches : Entered(x)' => x \in Exits(Parent) \/ Entered(x)
  BY <1>3, <1>5, CalmBranch
<1>10. Expects'
  <2>1. ASSUME NEW x \in flow.branches, Suspends(x) # {}, Entered(x)'
        PROVE  x \in Exits(Parent)
    <3>1. CASE Entered(x)
      <4>1. flow.gateway = "fork" \/ Shown(x)
        BY <3>1 DEF Entered, Toks
      <4>2. Activated(Parent, x)
        BY <4>1, ParentFlow DEF Activated, HasTask, Shown, Shows
      <4>3. QED
        BY <2>1, <4>2, ParentFlow DEF Exits
    <3>2. QED
      BY <1>9, <2>1, <3>1
  <2>2. QED
    BY <1>1, <1>4, <2>1 DEF Expects
<1>11. BehindJoin'
  <2>1. Past' => Past
    BY <1>3, <1>5, CalmPast
  <2>2. \A x \in flow.branches : x \in Exits(Parent) => DoneUpTo(x, Len(x))
    <3>1. \A x \in flow.branches : Len(x) \in 0 .. Len(x)
      BY <1>1, BranchShape
    <3>2. QED
      BY <1>6, <3>1
  <2>3. QED
    BY <1>5, <1>9, <2>1, <2>2, BehindJoinKept DEF Core, BehindJoin
<1>12. QED
  BY <1>5, <1>7, <1>8, <1>10, <1>11, CalmAsked DEF Core

LEMMA ForcedCore ==
  ASSUME Fits, Shaped, Core, ForceResume(Parent),
         Calm({FirstSuspend(b) : b \in flow.branches})
  PROVE  Core'
<1>. DEFINE M == {FirstSuspend(b) : b \in flow.branches}
<1>1. flow \in Flows /\ flow' = flow
  BY DEF Fits, Calm
<1>2. /\ \A b \in flow.branches : Suspends(b) # {} /\ Settled(Parent, FirstSuspend(b))
      /\ Drives(Parent, M, flow.branches)
  BY ParentFlow DEF ForceResume
<1>3. \A n \in M : n \notin ToSet(flow.tail)
  BY <1>2, FirstSuspendsInside
<1>4. expect'[Parent] = {Head(b) : b \in flow.branches} /\ got'[Parent] = {}
  BY <1>2, ParentFlow, DrivesTokens
<1>5. Calm(M)
  OBVIOUS
<1>6. \A n \in M : Shows(n)
  BY <1>2 DEF Settled, Shows
<1>. HIDE DEF M
<1>7. InTurn'
  <2>1. \A n \in M : Touched(n)
    BY <1>6 DEF Touched
  <2>2. QED
    BY <1>5, <2>1, InTurnKept DEF Core, InTurn
<1>8. GotDone'
  BY <1>4, <1>5, GotDoneKept
<1>9. \A x \in flow.branches : Entered(x)' => Entered(x)
  BY <1>5, <1>6, CalmBranch DEF Entered, Shown
<1>10. Expects'
  BY <1>1, <1>4 DEF Expects
<1>11. BehindJoin'
  <2>1. Past' => Past
    BY <1>3, <1>5, CalmPast
  <2>2. QED
    BY <1>5, <1>9, <2>1, BehindJoinKept DEF Core, BehindJoin
<1>12. QED
  BY <1>5, <1>7, <1>8, <1>10, <1>11, CalmAsked DEF Core

LEMMA StartIs ==
  ASSUME Fits, Shaped, Unbegun, Start(Parent)
  PROVE  \E bs \in SUBSET flow.branches :
           /\ flow.gateway = "fork" => bs = flow.branches
           /\ Drives(Parent, {Head(b) : b \in bs}, bs)
           /\ Calm({Head(b) : b \in bs})
           /\ \A n \in Node : ~Touched(n)
           /\ ~Past /\ ran' = ran
<1>1. flow \in Flows
  BY DEF Fits
<1>2. PICK bs \in SUBSET flow.branches :
           /\ flow.gateway = "fork" => bs = flow.branches
           /\ Drives(Parent, {Head(b) : b \in bs}, bs)
  BY ParentFlow DEF Start, Shaped
<1>3. (\A n \in Node : ~Touched(n)) /\ ~Past
  BY <1>1, TailShape DEF Start, Unbegun, Past
<1>4. \A n : n \in Toks' => n \in {Head(b) : b \in bs}
  BY <1>2, ParentFlow, DrivesTokens
<1>5. Parent \notin fresh'
  BY DEF Start
<1>6. Calm({Head(b) : b \in bs})
  <2>. DEFINE M == {Head(b) : b \in bs}
  <2>1. \A n : n \in Toks' => n \in M
    BY <1>4
  <2>. HIDE DEF M
  <2>2. Calm(M)
    BY <1>5, <2>1, TableCalm DEF Start, table
  <2>3. QED
    BY <2>2 DEF M
<1>7. QED
  BY <1>2, <1>3, <1>6 DEF Start, table

LEMMA RootIn ==
  ASSUME flow \in Flows, Shaped, NEW bs \in SUBSET flow.branches, NEW x \in flow.branches,
         NEW k \in DOMAIN x, x[k] \in {Head(b) : b \in bs}
  PROVE  x \in bs /\ k = 1
<1>1. PICK b \in bs : x[k] = Head(b)
  OBVIOUS
<1>2. 1 \in DOMAIN b /\ b[1] = x[k]
  BY <1>1, BranchShape
<1>3. QED
  BY <1>2, OneBranch

LEMMA StartedCore ==
  ASSUME Fits, Shaped, Core, Unbegun, Start(Parent)
  PROVE  Core'
<1>1. flow \in Flows
  BY DEF Fits
<1>2. PICK bs \in SUBSET flow.branches :
           /\ flow.gateway = "fork" => bs = flow.branches
           /\ Drives(Parent, {Head(b) : b \in bs}, bs)
           /\ Calm({Head(b) : b \in bs})
           /\ \A n \in Node : ~Touched(n)
           /\ ~Past
  BY StartIs
<1>. DEFINE M == {Head(b) : b \in bs}
<1>3. flow' = flow /\ Calm(M)
  BY <1>2 DEF Calm
<1>4. \A n \in M : n \notin ToSet(flow.tail)
  <2>1. \A b \in bs : Head(b) = b[1] /\ 1 \in DOMAIN b
    BY <1>1, BranchShape
  <2>2. QED
    BY <1>1, <2>1, BranchShape
<1>5. expect'[Parent] = {Head(b) : b \in bs} /\ got'[Parent] = {}
  BY <1>2, ParentFlow, DrivesTokens
<1>6. \A x \in flow.branches : \A k \in DOMAIN x : x[k] \in M => x \in bs /\ k = 1
  BY <1>1, RootIn
<1>. HIDE DEF M
<1>7. InTurn'
  <2>1. \A x : DoneUpTo(x, 1 - 1)
    BY DEF DoneUpTo
  <2>2. QED
    BY <1>3, <1>6, <2>1, InTurnKept
<1>8. GotDone'
  BY <1>3, <1>5, GotDoneKept
<1>9. \A x \in flow.branches : Entered(x)' => x \in bs
  <2>1. ASSUME NEW x \in flow.branches, Entered(x)'
        PROVE  x \in bs
    <3>1. \A n \in ToSet(x) : n \in Node /\ \E k \in DOMAIN x : n = x[k]
      BY <1>1, BranchShape
    <3>2. Entered(x) => flow.gateway = "fork"
      BY <1>2, <3>1 DEF Entered, Shown, Touched
    <3>3. (\E n \in ToSet(x) : n \in M) => x \in bs
      BY <1>6, <3>1
    <3>4. QED
      BY <1>2, <1>3, <2>1, <3>2, <3>3, CalmBranch
  <2>2. QED
    BY <2>1
<1>10. Expects'
  BY <1>3, <1>5, <1>9 DEF Expects
<1>11. BehindJoin'
  <2>1. ~Past'
    BY <1>2, <1>3, <1>4, CalmPast
  <2>2. QED
    BY <2>1 DEF BehindJoin
<1>12. QED
  BY <1>3, <1>7, <1>8, <1>10, <1>11, CalmAsked DEF Core

LEMMA QuietCore ==
  ASSUME Fits, Shaped, Core, Quiet
  PROVE  Core'
BY CalmCore DEF Quiet

(* Something under way at the parent means its first drive has begun.      *)
LEMMA Begun ==
  ASSUME Fits, Unbegun, Parent \in fresh
  PROVE  /\ at[Parent] = {} /\ asks[Parent] = {} /\ Toks = {}
         /\ \A n \in Node : row[Parent][n] = "none"
<1>1. Toks = {} /\ asks[Parent] = {}
  BY ToksShape DEF Unbegun, Touched
<1>2. at[Parent] = {}
  BY <1>1 DEF Toks
<1>3. QED
  BY <1>1, <1>2 DEF Unbegun, Touched, Shows

LEMMA OnMsgCore ==
  ASSUME Fits, Unbegun, NEW i \in Instance, NEW t \in at[i],
         \/ UserOnMsg(i, t) \/ AutoOnMsg(i, t)
         \/ SubEnter(i, t) \/ SubTerminated(i, t) \/ SubActive(i, t) \/ SubCompleted(i, t)
         \/ SubParent(i, t) \/ SubCreate(i, t) \/ SubFail(i, t)
         \/ EndEnter(i, t) \/ EndCommit(i, t)
  PROVE  /\ Unbegun'
         /\ Shaped /\ Core => Core'
<1>1. CASE Quiet
  BY <1>1, UnbegunKept, QuietCore DEF Quiet
<1>2. CASE Onward(t.node) /\ (Parent \notin fresh => Calm(Succ(Parent, t.node)))
  <2>1. Parent \notin fresh
    BY <1>2, Begun DEF Onward
  <2>2. QED
    BY <1>2, <2>1, UnbegunKept, OnwardCore
<1>3. QED
  BY <1>1, <1>2, UserOnMsgCalm, AutoOnMsgCalm, SubEnterQuiet, SubReadQuiet, SubCompletedCalm,
     SubCreateQuiet, SubFailQuiet, EndEnterQuiet, EndCommitQuiet

LEMMA DriveBranchesCore ==
  ASSUME Fits, Unbegun, NEW i \in Instance, NEW n \in Node, DriveBranches(i, n)
  PROVE  /\ Unbegun'
         /\ Shaped /\ Core => Core'
<1>1. CASE Quiet
  BY <1>1, UnbegunKept, QuietCore DEF Quiet
<1>2. CASE /\ i = Parent /\ n \in asks[Parent] /\ ~Pending(Parent)
           /\ Drives(Parent, {FirstSuspend(b) : b \in Exits(Parent)}, Exits(Parent))
           /\ Parent \notin fresh => Calm({FirstSuspend(b) : b \in Exits(Parent)})
  <2>1. Parent \notin fresh
    BY <1>2, Begun
  <2>2. at[Parent] = {}
    BY <1>2 DEF DriveBranches, Takes
  <2>3. QED
    BY <1>2, <2>1, <2>2, UnbegunKept, ResumedCore
<1>3. QED
  BY <1>1, <1>2, DriveBranchesCalm

LEMMA ForceResumeCore ==
  ASSUME Fits, Unbegun, NEW i \in Instance, ForceResume(i)
  PROVE  /\ Unbegun'
         /\ Shaped /\ Core => Core'
<1>1. CASE Quiet
  BY <1>1, UnbegunKept, QuietCore DEF Quiet
<1>2. CASE i = Parent /\ (Parent \notin fresh => Calm({FirstSuspend(b) : b \in flow.branches}))
  <2>1. flow \in Flows /\ \A b \in flow.branches : Suspends(b) # {} /\ Settled(Parent, FirstSuspend(b))
    BY <1>2, ParentFlow DEF ForceResume, Fits
  <2>2. flow.branches # {}
    BY <1>2, ParentFlow, FS_EmptySet DEF ForceResume
  <2>3. \E n \in Node : row[Parent][n] = "done"
    <3>1. PICK b \in flow.branches : TRUE
      BY <2>2
    <3>2. FirstSuspend(b) \in ToSet(b) /\ b \in Parts(Parent)
      BY <2>1, ParentFlow, FirstSuspendWaits
    <3>3. QED
      BY <2>1, <3>2, ParentFlow, PartNodes DEF Settled
  <2>4. Parent \notin fresh
    BY <2>3, Begun
  <2>5. QED
    BY <1>2, <2>4, UnbegunKept, ForcedCore
<1>3. QED
  BY <1>1, <1>2, ForceResumeCalm

LEMMA StartCore ==
  ASSUME Fits, Unbegun, NEW i \in Instance, Start(i)
  PROVE  /\ Unbegun'
         /\ Shaped /\ Core => Core'
<1>1. CASE Quiet
  BY <1>1, UnbegunKept, QuietCore DEF Quiet
<1>2. CASE i = Parent
  <2>1. Parent \notin fresh'
    BY <1>2 DEF Start
  <2>2. QED
    BY <1>2, <2>1, StartedCore DEF Unbegun
<1>3. QED
  BY <1>1, <1>2, StartCalm

LEMMA RestoreCore ==
  ASSUME Fits, Unbegun, NEW i \in Instance, Restore(i)
  PROVE  /\ Unbegun'
         /\ Shaped /\ Core => Core'
<1>1. CASE i # Parent
  BY <1>1, RestoreQuiet, UnbegunKept, QuietCore DEF Quiet
<1>2. CASE i = Parent
  <2>1. Parent \in restore /\ fresh' = fresh
    BY <1>2 DEF Restore
  <2>2. Parent \notin fresh'
    BY <2>1 DEF Unbegun
  <2>3. ~Shaped
    BY <2>1, ParentFlow DEF Fits, RestoreFit, Shaped, Plain
  <2>4. QED
    BY <2>2, <2>3 DEF Unbegun
<1>3. QED
  BY <1>1, <1>2

LEMMA NextCore ==
  ASSUME Fits, Unbegun, [Next]_vars
  PROVE  /\ Unbegun'
         /\ Shaped /\ Core => Core'
<1>1. CASE UNCHANGED vars
  <2>1. Quiet
    <3>1. at'[Parent] \subseteq at[Parent] /\ Drift /\ ran' = ran
      BY <1>1 DEF vars, Drift
    <3>2. Calm({})
      BY <1>1, <3>1, SameTokens, TableCalm DEF vars
    <3>3. QED
      BY <3>1, <3>2, SameTokens DEF Quiet
  <2>2. QED
    BY <2>1, UnbegunKept, QuietCore DEF Quiet
<1>2. CASE Quiet
  BY <1>2, UnbegunKept, QuietCore DEF Quiet
<1>3. ASSUME NEW i \in Instance, NEW n \in Node, DriveNode(i, n)
      PROVE  Unbegun' /\ (Shaped /\ Core => Core')
  BY <1>3, DriveNodeCalm, UnbegunKept, CalmCore
<1>4. ASSUME NEW i \in Instance, Drive(i)
      PROVE  Unbegun' /\ (Shaped /\ Core => Core')
  BY <1>2, <1>3, <1>4, StartCore, RefuseQuiet, DriveBranchesCore, OnMsgCore DEF Drive, OnMsg
<1>5. QED
  BY <1>1, <1>2, <1>4, ApproveQuiet, TerminateProcessInstanceQuiet, SuspendQuiet, ReDriveQuiet,
     RestoreCore, ForceResumeCore, CrashQuiet DEF Next

-----------------------------------------------------------------------------
(* A branch that never waits: a token of it has its node and all that      *)
(* follow yet to run, and there is no second one.                          *)
Waited == flow.gateway = "fork" /\ \E x \in flow.branches : Suspends(x) # {}
Sync == {x \in flow.branches : Suspends(x) = {}}
OnceIn(x) ==
  /\ \A n \in ToSet(x) : ran[Parent][n] < 2
  /\ \A u \in at[Parent] : \A k \in DOMAIN x : u.node = x[k] =>
       u = Fresh(x[k]) /\ \A j \in k .. Len(x) : ran[Parent][x[j]] = 0
  /\ \A u, v \in at[Parent] : u.node \in ToSet(x) /\ v.node \in ToSet(x) => u = v
Once == Waited => \A x \in Sync : OnceIn(x)

LEMMA SyncShape ==
  ASSUME Fits, Shaped, NEW x \in Sync
  PROVE  /\ x \in flow.branches
         /\ \A n \in ToSet(x) : n \in Automatic /\ n \in Node /\ n \notin UserTask /\ n \notin SubProcess
<1>1. flow \in Flows /\ x \in flow.branches /\ Suspends(x) = {}
  BY DEF Fits, Sync
<1>2. \A k \in DOMAIN x : x[k] \notin UserTask
  BY <1>1 DEF Suspends
<1>3. QED
  BY <1>1, <1>2, BranchShape

LEMMA StillOnce ==
  ASSUME Fits, Shaped, Once, flow' = flow, NEW M, Still(Automatic \ M),
         Waited => \A x \in Sync : \A n \in ToSet(x) : n \notin M
  PROVE  Once'
<1>. SUFFICES ASSUME Waited, NEW x \in Sync
              PROVE  OnceIn(x)'
  BY DEF Once, Waited, Sync
<1>1. flow \in Flows /\ OnceIn(x)
  BY DEF Fits, Once
<1>2. \A n \in ToSet(x) : /\ ran'[Parent][n] = ran[Parent][n]
                          /\ \A u \in at'[Parent] : u.node = n => u \in at[Parent]
  BY SyncShape DEF Still
<1>3. x \in flow.branches
  BY SyncShape
<1>4. \A n \in ToSet(x) : ran'[Parent][n] < 2
  BY <1>1, <1>2 DEF OnceIn
<1>5. \A u \in at'[Parent] : \A k \in DOMAIN x : u.node = x[k] =>
        u = Fresh(x[k]) /\ \A j \in k .. Len(x) : ran'[Parent][x[j]] = 0
  <2>1. \A j \in DOMAIN x : x[j] \in ToSet(x)
    BY <1>1, <1>3, BranchShape
  <2>2. \A k \in DOMAIN x : \A j \in k .. Len(x) : j \in DOMAIN x
    BY <1>1, <1>3, BranchShape
  <2>3. QED
    BY <1>1, <1>2, <2>1, <2>2 DEF OnceIn
<1>6. \A u, v \in at'[Parent] : u.node \in ToSet(x) /\ v.node \in ToSet(x) => u = v
  BY <1>1, <1>2 DEF OnceIn
<1>7. QED
  BY <1>4, <1>5, <1>6 DEF OnceIn, Fresh

LEMMA QuietOnce ==
  ASSUME Fits, Shaped, Once, Quiet
  PROVE  Once'
BY StillOnce DEF Quiet, Calm

(* A node of a branch is only followed into that branch.                   *)
LEMMA SuccWithin ==
  ASSUME Fits, Shaped, NEW n, OnFlow(Parent, n), NEW x \in flow.branches, NEW m \in ToSet(x),
         m \in Succ(Parent, n)
  PROVE  \E k \in DOMAIN x : n = x[k] /\ k + 1 \in DOMAIN x /\ m = x[k + 1]
<1>1. flow \in Flows
  BY DEF Fits
<1>2. m \notin ToSet(flow.tail)
  BY <1>1, BranchShape
<1>3. PICK y \in flow.branches : n \in ToSet(y)
  BY <1>1, <1>2, ParentFlow, TailSucc
<1>4. PICK k \in DOMAIN y : n = y[k]
  BY <1>1, <1>3, BranchShape
<1>5. k + 1 \in DOMAIN y /\ m = y[k + 1]
  BY <1>1, <1>2, <1>4, BranchSucc, TailShape
<1>6. x = y
  <2>1. PICK l \in DOMAIN x : m = x[l]
    BY <1>1, BranchShape
  <2>2. PICK j \in DOMAIN y : x[l] = y[j]
    BY <1>5, <2>1
  <2>3. QED
    BY <1>1, <2>2, OneBranch
<1>7. QED
  BY <1>4, <1>5, <1>6

LEMMA OnwardOnce ==
  ASSUME Fits, Shaped, Once, flow' = flow, NEW n \in UserTask \cup SubProcess, n \in Toks,
         Still(Automatic \ Succ(Parent, n))
  PROVE  Once'
<1>1. OnFlow(Parent, n)
  BY ToksShape
<1>2. \A x \in Sync : \A m \in ToSet(x) : m \notin Succ(Parent, n)
  <2>1. ASSUME NEW x \in Sync, NEW m \in ToSet(x), m \in Succ(Parent, n)
        PROVE  FALSE
    <3>1. n \in ToSet(x)
      BY <1>1, <2>1, SyncShape, SuccWithin DEF ToSet
    <3>2. QED
      BY <3>1, SyncShape
  <2>2. QED
    BY <2>1
<1>3. QED
  BY <1>2, StillOnce

LEMMA AutoOnce ==
  ASSUME Fits, Shaped, Once, flow' = flow, NEW t \in at[Parent],
         \A n \in Node : n # t.node => ran'[Parent][n] = ran[Parent][n],
         ran[Parent][t.node] = 0 => ran'[Parent][t.node] = 1,
         \A u \in at'[Parent] : \/ u \in at[Parent] /\ u # t
                                \/ \E m \in Succ(Parent, t.node) : u = Fresh(m)
  PROVE  Once'
<1>. SUFFICES ASSUME Waited, NEW x \in Sync
              PROVE  OnceIn(x)'
  BY DEF Once, Waited, Sync
<1>1. flow \in Flows /\ OnceIn(x) /\ x \in flow.branches /\ OnFlow(Parent, t.node)
  BY ParentFlow, TokenShape DEF Fits, Once, Sync, PlacedAt
<1>2. \A j \in DOMAIN x : x[j] \in ToSet(x) /\ x[j] \in Node
  BY <1>1, BranchShape
<1>3. \A m : Fresh(m).node = m
  BY DEF Fresh
<1>4. \A k \in DOMAIN x : \A j \in k .. Len(x) : j \in DOMAIN x
  BY <1>1, BranchShape
<1>5. CASE t.node \notin ToSet(x)
  <2>1. \A n \in ToSet(x) : ran'[Parent][n] = ran[Parent][n]
    BY <1>5, SyncShape
  <2>2. \A u \in at'[Parent] : u.node \in ToSet(x) => u \in at[Parent]
    <3>1. \A m \in Succ(Parent, t.node) : m \notin ToSet(x)
      BY <1>1, <1>2, <1>5, SuccWithin
    <3>2. QED
      BY <1>3, <3>1
  <2>3. \A n \in ToSet(x) : ran'[Parent][n] < 2
    BY <1>1, <2>1 DEF OnceIn
  <2>4. \A u \in at'[Parent] : \A k \in DOMAIN x : u.node = x[k] =>
          u = Fresh(x[k]) /\ \A j \in k .. Len(x) : ran'[Parent][x[j]] = 0
    BY <1>1, <1>2, <1>4, <2>1, <2>2 DEF OnceIn
  <2>5. \A u, v \in at'[Parent] : u.node \in ToSet(x) /\ v.node \in ToSet(x) => u = v
    BY <1>1, <2>2 DEF OnceIn
  <2>6. QED
    BY <2>3, <2>4, <2>5 DEF OnceIn, Fresh
<1>6. CASE t.node \in ToSet(x)
  <2>1. PICK k \in DOMAIN x : t.node = x[k]
    BY <1>1, <1>6, BranchShape
  <2>2. \A j \in k .. Len(x) : ran[Parent][x[j]] = 0
    BY <1>1, <2>1 DEF OnceIn
  <2>3. k \in k .. Len(x) /\ ran[Parent][x[k]] = 0 /\ ran'[Parent][x[k]] = 1
    <3>1. k \in k .. Len(x)
      BY <1>1, BranchShape
    <3>2. QED
      BY <2>1, <2>2, <3>1
  <2>4. \A n \in ToSet(x) : ran'[Parent][n] < 2
    <3>1. \A n \in ToSet(x) : n # t.node => ran'[Parent][n] = ran[Parent][n]
      BY SyncShape
    <3>2. QED
      BY <1>1, <2>1, <2>3, <3>1 DEF OnceIn
  <2>5. \A u \in at'[Parent] : u.node \in ToSet(x) => k + 1 \in DOMAIN x /\ u = Fresh(x[k + 1])
    <3>1. ASSUME NEW u \in at'[Parent], u.node \in ToSet(x)
          PROVE  k + 1 \in DOMAIN x /\ u = Fresh(x[k + 1])
      <4>1. ~(u \in at[Parent] /\ u # t)
        BY <1>1, <1>6, <3>1 DEF OnceIn
      <4>2. PICK m \in Succ(Parent, t.node) : u = Fresh(m)
        BY <4>1
      <4>3. m \in ToSet(x)
        BY <1>3, <3>1, <4>2
      <4>4. PICK l \in DOMAIN x : t.node = x[l] /\ l + 1 \in DOMAIN x /\ m = x[l + 1]
        BY <1>1, <4>2, <4>3, SuccWithin
      <4>5. l = k
        <5>1. x[l] = x[k]
          BY <2>1, <4>4
        <5>2. QED
          BY <1>1, <5>1, OneBranch
      <4>6. QED
        BY <4>2, <4>4, <4>5
    <3>2. QED
      BY <3>1
  <2>6. \A u \in at'[Parent] : \A l \in DOMAIN x : u.node = x[l] =>
          u = Fresh(x[l]) /\ \A j \in l .. Len(x) : ran'[Parent][x[j]] = 0
    <3>1. ASSUME NEW u \in at'[Parent], NEW l \in DOMAIN x, u.node = x[l]
          PROVE  u = Fresh(x[l]) /\ \A j \in l .. Len(x) : ran'[Parent][x[j]] = 0
      <4>1. k + 1 \in DOMAIN x /\ u = Fresh(x[k + 1])
        BY <1>2, <2>5, <3>1
      <4>2. x[l] = x[k + 1]
        BY <1>3, <3>1, <4>1
      <4>3. l = k + 1
        BY <1>1, <4>1, <4>2, OneBranch
      <4>4. ASSUME NEW j \in l .. Len(x)
            PROVE  ran'[Parent][x[j]] = 0
        <5>1. j \in k .. Len(x) /\ j \in DOMAIN x /\ j # k
          BY <1>1, <4>3, BranchShape
        <5>2. x[j] # t.node
          BY <1>1, <2>1, <5>1, OneBranch
        <5>3. QED
          BY <1>2, <2>2, <5>1, <5>2
      <4>5. QED
        BY <4>1, <4>3, <4>4
    <3>2. QED
      BY <3>1
  <2>7. \A u, v \in at'[Parent] : u.node \in ToSet(x) /\ v.node \in ToSet(x) => u = v
    BY <2>5
  <2>8. QED
    BY <2>4, <2>6, <2>7 DEF OnceIn, Fresh
<1>7. QED
  BY <1>5, <1>6

(* No node of a branch that never waits is driven on its own: the node of  *)
(* a fork some branch of which waits resumes the branches that do.         *)
LEMMA DriveNodeElsewhere ==
  ASSUME Fits, Shaped, NEW n \in Node, DriveNode(Parent, n), Waited, NEW x \in Sync
  PROVE  n \notin ToSet(x)
<1>. SUFFICES ASSUME n \in ToSet(x)
              PROVE  FALSE
  OBVIOUS
<1>1. flow \in Flows /\ x \in flow.branches /\ Suspends(x) = {}
  BY DEF Fits, Sync
<1>2. PICK y \in flow.branches : Suspends(y) # {} /\ flow.gateway = "fork"
  BY DEF Waited
<1>3. Cardinality(flow.branches) >= 2 /\ Cardinality(flow.branches) \in Nat
  <2>1. IsFiniteSet(flow.branches) /\ {x, y} \subseteq flow.branches /\ x # y
    BY <1>1, <1>2, FlowShape, ParentFlow
  <2>2. IsFiniteSet({x}) /\ Cardinality({x}) = 1
    BY FS_Singleton
  <2>3. Cardinality({x} \cup {y}) = 2
    <3>1. y \notin {x}
      BY <2>1
    <3>2. Cardinality({x} \cup {y}) = Cardinality({x}) + 1
      BY <2>2, <3>1, FS_AddElement
    <3>3. QED
      BY <2>2, <3>2
  <2>4. {x} \cup {y} \subseteq flow.branches
    BY <2>1
  <2>5. Cardinality({x} \cup {y}) <= Cardinality(flow.branches)
    BY <2>1, <2>4, FS_Subset
  <2>6. Cardinality(flow.branches) \in Nat
    BY <2>1, FS_CardinalityType
  <2>7. QED
    BY <2>3, <2>5, <2>6
<1>4. PICK b \in BranchesOf(Parent, n) : ~Resumes(Parent, n, b)
  BY <1>3, ParentFlow DEF DriveNode
<1>5. b = x
  <2>1. b \in flow.branches /\ n \in ToSet(b)
    BY <1>1, ParentFlow DEF BranchesOf
  <2>2. QED
    BY <1>1, <2>1 DEF Shaped, Plain
<1>6. y \in Exits(Parent)
  BY <1>2, ParentFlow DEF Exits, Activated
<1>7. QED
  BY <1>1, <1>4, <1>5, <1>6 DEF Resumes, GoesOn

LEMMA StartedOnce ==
  ASSUME Fits, Shaped, Once, Unbegun, Start(Parent)
  PROVE  Once'
<1>1. PICK bs \in SUBSET flow.branches :
           /\ Drives(Parent, {Head(b) : b \in bs}, bs)
           /\ \A n \in Node : ~Touched(n)
           /\ ran' = ran
  BY StartIs
<1>. SUFFICES ASSUME Waited, NEW x \in Sync
              PROVE  OnceIn(x)'
  BY DEF Once, Waited, Sync, Start
<1>2. flow \in Flows /\ x \in flow.branches
  BY DEF Fits, Sync
<1>3. \A j \in DOMAIN x : x[j] \in ToSet(x) /\ x[j] \in Node
  BY <1>2, BranchShape
<1>4. \A n \in Node : ran'[Parent][n] = 0
  BY <1>1, ParentFlow DEF Touched, Shows, Fits, CountsFit
<1>5. \A u \in at'[Parent] : \E b \in bs : u = Fresh(Head(b)) /\ u.node = Head(b)
  BY <1>1, ParentFlow, DrivesTokens DEF Fresh
<1>6. \A u \in at'[Parent] : \A k \in DOMAIN x : u.node = x[k] => k = 1 /\ u = Fresh(x[k])
  <2>1. ASSUME NEW u \in at'[Parent], NEW k \in DOMAIN x, u.node = x[k]
        PROVE  k = 1 /\ u = Fresh(x[k])
    <3>1. PICK b \in bs : u = Fresh(Head(b)) /\ u.node = Head(b)
      BY <1>5
    <3>2. x[k] \in {Head(c) : c \in bs}
      BY <2>1, <3>1
    <3>3. QED
      BY <1>2, <2>1, <3>1, <3>2, RootIn
  <2>2. QED
    BY <2>1
<1>7. \A n \in ToSet(x) : ran'[Parent][n] < 2
  BY <1>4, SyncShape
<1>8. \A k \in DOMAIN x : \A j \in k .. Len(x) : ran'[Parent][x[j]] = 0
  BY <1>2, <1>3, <1>4, BranchShape
<1>9. \A u, v \in at'[Parent] : u.node \in ToSet(x) /\ v.node \in ToSet(x) => u = v
  BY <1>2, <1>6, BranchShape
<1>10. QED
  BY <1>6, <1>7, <1>8, <1>9 DEF OnceIn, Fresh

LEMMA OnMsgOnce ==
  ASSUME Fits, Shaped, Once, NEW i \in Instance, OnMsg(i)
  PROVE  Once'
<1>1. PICK t \in at[i] :
         \/ UserOnMsg(i, t) \/ AutoOnMsg(i, t)
         \/ SubEnter(i, t) \/ SubTerminated(i, t) \/ SubActive(i, t) \/ SubCompleted(i, t)
         \/ SubParent(i, t) \/ SubCreate(i, t) \/ SubFail(i, t)
         \/ EndEnter(i, t) \/ EndCommit(i, t)
  BY DEF OnMsg
<1>2. CASE UserOnMsg(i, t)
  BY <1>2, UserOnMsgCalm, QuietOnce, OnwardOnce DEF UserOnMsg, Onward
<1>3. CASE AutoOnMsg(i, t)
  BY <1>3, AutoOnMsgCalm, QuietOnce, AutoOnce DEF AutoOnMsg
<1>4. CASE SubCompleted(i, t)
  BY <1>4, SubCompletedCalm, QuietOnce, OnwardOnce DEF SubCompleted, Onward
<1>5. QED
  BY <1>1, <1>2, <1>3, <1>4, QuietOnce, SubEnterQuiet, SubReadQuiet,
     SubCreateQuiet, SubFailQuiet, EndEnterQuiet, EndCommitQuiet

LEMMA NextOnce ==
  ASSUME Fits, Unbegun, Shaped, Once, [Next]_vars
  PROVE  Once'
<1>1. CASE UNCHANGED vars
  <2>1. Still(Automatic \ {}) /\ flow' = flow
    BY <1>1 DEF vars, Still
  <2>2. QED
    BY <2>1, StillOnce
<1>2. ASSUME NEW i \in Instance, Start(i)
      PROVE  Once'
  BY <1>2, StartCalm, StartedOnce, QuietOnce
<1>3. ASSUME NEW i \in Instance, NEW n \in Node, DriveNode(i, n)
      PROVE  Once'
  <2>1. CASE i # Parent
    BY <1>3, <2>1, DriveNodeCalm, QuietOnce DEF Quiet
  <2>2. CASE i = Parent
    <3>1. Still(Automatic \ {n}) /\ flow' = flow
      BY <1>3, <2>2, DriveNodeCalm DEF Calm
    <3>2. QED
      BY <1>3, <2>2, <3>1, StillOnce, DriveNodeElsewhere
  <2>3. QED
    BY <2>1, <2>2
<1>4. ASSUME NEW i \in Instance, NEW n \in Node, DriveBranches(i, n)
      PROVE  Once'
  <2>1. CASE Quiet
    BY <2>1, QuietOnce
  <2>2. CASE /\ i = Parent /\ ran' = ran
             /\ Drives(Parent, {FirstSuspend(b) : b \in Exits(Parent)}, Exits(Parent))
    <3>. DEFINE M == {FirstSuspend(b) : b \in Exits(Parent)}
    <3>1. M \subseteq UserTask /\ flow' = flow
      BY <1>4, ParentFlow, FirstSuspendsInside DEF Exits, DriveBranches
    <3>. HIDE DEF M
    <3>2. Drives(Parent, M, Exits(Parent)) /\ Automatic \cap M = {}
      BY <2>2, <3>1, NodeAssumption DEF M
    <3>3. Still(Automatic)
      BY <2>2, <3>2, ParentFlow, DrivesTokens
    <3>4. Still(Automatic \ {})
      BY <3>3
    <3>5. QED
      BY <3>1, <3>4, StillOnce
  <2>3. QED
    BY <1>4, <2>1, <2>2, DriveBranchesCalm
<1>5. ASSUME NEW i \in Instance, ForceResume(i)
      PROVE  Once'
  <2>1. CASE Quiet
    BY <2>1, QuietOnce
  <2>2. CASE i = Parent
    <3>1. \A b \in flow.branches : Suspends(b) # {}
      BY <1>5, <2>2, ParentFlow DEF ForceResume
    <3>2. flow' = flow
      BY <1>5 DEF ForceResume
    <3>3. QED
      BY <3>1, <3>2 DEF Once, Waited, Sync
  <2>3. QED
    BY <1>5, <2>1, <2>2, ForceResumeCalm
<1>6. ASSUME NEW i \in Instance, Restore(i)
      PROVE  Once'
  <2>1. i # Parent
    BY <1>6, ParentFlow DEF Restore, Fits, RestoreFit, Shaped, Plain
  <2>2. QED
    BY <1>6, <2>1, RestoreQuiet, QuietOnce
<1>7. ASSUME NEW i \in Instance, Drive(i)
      PROVE  Once'
  BY <1>2, <1>3, <1>4, <1>7, RefuseQuiet, QuietOnce, OnMsgOnce DEF Drive
<1>8. QED
  BY <1>1, <1>5, <1>6, <1>7, ApproveQuiet, TerminateProcessInstanceQuiet, SuspendQuiet, ReDriveQuiet,
     CrashQuiet, QuietOnce DEF Next

-----------------------------------------------------------------------------
(* The theorems.                                                           *)
IInv == Fits /\ Unbegun /\ (Shaped => Core /\ Once)

LEMMA InitIInv ==
  ASSUME Init
  PROVE  IInv
<1>1. Fits
  BY InitFits
<1>2. /\ \A n \in Node : ~Touched(n)
      /\ Toks = {} /\ asks[Parent] = {} /\ at[Parent] = {} /\ ~Begot /\ status[Parent] = "active"
      /\ expect[Parent] = {} /\ got[Parent] = {} /\ \A n \in Node : ran[Parent][n] = 0
      /\ current[Parent] = NoNode /\ restore = {}
  <2>1. /\ \A n \in Node : row[Parent][n] = "none" /\ ran[Parent][n] = 0
        /\ asks[Parent] = {} /\ at[Parent] = {} /\ current[Parent] = NoNode
        /\ status[Parent] = "active" /\ expect[Parent] = {} /\ got[Parent] = {} /\ restore = {}
    BY ParentFlow DEF Init
  <2>2. ~Begot
    BY ParentAssumption DEF Init, Begot, Instance
  <2>3. Toks = {}
    BY <2>1 DEF Toks
  <2>4. \A n \in Node : ~Touched(n)
    BY <2>1, <2>3, NodeAssumption DEF Touched, Shows
  <2>5. QED
    BY <2>1, <2>2, <2>3, <2>4
<1>3. Unbegun
  BY <1>2 DEF Unbegun
<1>4. ASSUME Shaped
      PROVE  Core /\ Once
  <2>1. flow \in Flows
    BY DEF Init
  <2>2. \A x \in flow.branches : /\ \A k \in DOMAIN x : x[k] \in Node
                                 /\ \A n \in ToSet(x) : n \in Node
    BY <1>4, <2>1, BranchShape
  <2>3. InTurn
    BY <1>2, <2>2 DEF InTurn
  <2>4. GotDone /\ Expects
    BY <1>2 DEF GotDone, Expects
  <2>5. AskedOf
    BY <1>2, <2>2, NodeAssumption DEF AskedOf
  <2>6. ~Past
    BY <1>2, <2>1, TailShape DEF Past
  <2>7. BehindJoin
    BY <2>6 DEF BehindJoin
  <2>8. Once
    BY <1>2, <2>2 DEF Once, OnceIn, Sync
  <2>9. QED
    BY <2>3, <2>4, <2>5, <2>7, <2>8 DEF Core
<1>5. QED
  BY <1>1, <1>3, <1>4 DEF IInv

LEMMA NextIInv ==
  ASSUME IInv, [Next]_vars
  PROVE  IInv'
<1>1. Fits'
  BY NextFits DEF IInv
<1>2. Unbegun'
  BY NextCore DEF IInv
<1>3. flow' = flow
  <2>1. ASSUME NEW i \in Instance, OnMsg(i)
        PROVE  flow' = flow
    BY <2>1 DEF OnMsg, UserOnMsg, AutoOnMsg, SubEnter, SubTerminated, SubActive, SubCompleted,
       SubParent, SubCreate, SubFail, EndEnter, EndCommit
  <2>2. ASSUME NEW i \in Instance, Drive(i)
        PROVE  flow' = flow
    BY <2>1, <2>2 DEF Drive, Start, Refuse, DriveNode, DriveBranches
  <2>3. QED
    BY <2>2 DEF Next, Approve, TerminateProcessInstance, SuspendProcessInstance,
       ActivateProcessInstance, ReDrive, Restore, ForceResume, Crash, vars
<1>4. Shaped' = Shaped
  BY <1>3 DEF Shaped
<1>5. Shaped => Core' /\ Once'
  BY NextCore, NextOnce DEF IInv
<1>6. QED
  BY <1>1, <1>2, <1>4, <1>5 DEF IInv

LEMMA IInvJoinComplete ==
  ASSUME IInv, Plain(flow)
  PROVE  JoinComplete
<1>. SUFFICES ASSUME NEW i \in Instance, JoinPassed(i), NEW b \in FlowOf(i).branches,
                     FlowOf(i).gateway = "fork" \/ HasTask(i, b),
                     NEW n \in ToSet(b) \cap UserTask
              PROVE  row[i][n] = "done"
  BY DEF JoinComplete
<1>1. i = Parent
  BY ChildAssumption, ParentAssumption DEF JoinPassed, FlowOf, Instance
<1>2. flow \in Flows /\ Shaped /\ b \in flow.branches
  BY <1>1, ParentFlow DEF JoinPassed, Shaped, IInv, Fits
<1>3. Past
  <2>1. Visited(Parent, Head(flow.tail))
    BY <1>1, ParentFlow DEF JoinPassed
  <2>2. Touched(Head(flow.tail)) \/ status[Parent] = "completed"
    BY <2>1 DEF Visited, Touched, Shows, Toks
  <2>3. QED
    BY <1>2, <2>2, TailShape DEF Past
<1>4. Entered(b)
  BY <1>1, ParentFlow DEF Entered, HasTask, Shown, Shows
<1>5. DoneUpTo(b, Len(b))
  BY <1>2, <1>3, <1>4 DEF IInv, Core, BehindJoin
<1>6. QED
  BY <1>1, <1>2, <1>5, BranchShape DEF DoneUpTo

LEMMA IInvSyncOnce ==
  ASSUME IInv, Plain(flow), \E x \in flow.branches : Waits(x)
  PROVE  SyncOnce
<1>. SUFFICES ASSUME NEW i \in Instance, FlowOf(i).gateway = "fork", NEW b \in FlowOf(i).branches,
                     ~Waits(b), NEW n \in ToSet(b)
              PROVE  ran[i][n] < 2
  BY DEF SyncOnce
<1>1. i = Parent
  BY ChildAssumption, ParentAssumption DEF FlowOf, Instance
<1>2. flow \in Flows /\ Shaped /\ b \in flow.branches /\ flow.gateway = "fork"
  BY <1>1, ParentFlow DEF Shaped, IInv, Fits
<1>3. \A x : Waits(x) <=> Suspends(x) # {}
  BY DEF Waits, Suspends, ToSet
<1>4. Waited /\ b \in Sync
  BY <1>2, <1>3 DEF Waited, Sync
<1>5. OnceIn(b)
  BY <1>2, <1>4 DEF IInv, Once
<1>6. QED
  BY <1>1, <1>5 DEF OnceIn

(* Nothing behind the join of a gateway runs before every branch the       *)
(* message entered has its tasks settled, for every plain definition.      *)
THEOREM FlowJoinComplete == Spec => [](Plain(flow) => JoinComplete)
<1>1. Init => IInv
  BY InitIInv
<1>2. IInv /\ [Next]_vars => IInv'
  BY NextIInv
<1>3. IInv => (Plain(flow) => JoinComplete)
  BY IInvJoinComplete
<1>4. QED
  BY <1>1, <1>2, <1>3, PTL DEF Spec

(* In a fork some branch of which waits for a user, a branch that does not *)
(* runs once, whatever resumes or rescues the instance.                    *)
THEOREM FlowSyncOnce == Spec => [](Plain(flow) /\ (\E x \in flow.branches : Waits(x)) => SyncOnce)
<1>1. Init => IInv
  BY InitIInv
<1>2. IInv /\ [Next]_vars => IInv'
  BY NextIInv
<1>3. IInv => (Plain(flow) /\ (\E x \in flow.branches : Waits(x)) => SyncOnce)
  BY IInvSyncOnce
<1>4. QED
  BY <1>1, <1>2, <1>3, PTL DEF Spec

=============================================================================
