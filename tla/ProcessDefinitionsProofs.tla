---------------------- MODULE ProcessDefinitionsProofs ----------------------
(***************************************************************************)
(* Definitions of any number of replicas, requests, rows and instances:    *)
(* two versions of a family are active together only if they were deployed *)
(* together, and the chain an instance was started on is the one that      *)
(* drives it as long as nobody writes its row.                             *)
(***************************************************************************)
EXTENDS ProcessDefinitions, FiniteSetTheorems, WellFoundedInduction, TLAPS

USE HomeAssumption, BoundAssumption

-----------------------------------------------------------------------------
(* Types.                                                                  *)

(* Finitely many numbers have a largest one: a smallest set without one    *)
(* would have one after all, the larger of an element and the largest of   *)
(* the others.                                                             *)
LEMMA MaxExists ==
  ASSUME NEW S, S \subseteq Nat, IsFiniteSet(S), S # {}
  PROVE  Max(S) \in S /\ \A y \in S : Max(S) >= y
<1>. DEFINE HasMax(T) == \E x \in T : \A y \in T : x >= y
            Bad == {T \in FiniteSubsetsOf(S) : T # {} /\ ~HasMax(T)}
<1>1. Bad = {}
  <2>. SUFFICES ASSUME Bad # {} PROVE FALSE
    OBVIOUS
  <2>1. PICK T \in Bad : \A U \in Bad : ~(<<U, T>> \in StrictSubsetOrdering(S))
    <3>. HIDE DEF Bad
    <3>1. Bad \subseteq FiniteSubsetsOf(S)
      BY DEF Bad
    <3>. QED BY <3>1, FS_StrictSubsetOrderingWellFounded, WFMin
  <2>2. T \subseteq S /\ IsFiniteSet(T) /\ T # {} /\ ~HasMax(T)
    BY DEF FiniteSubsetsOf
  <2>3. PICK x : x \in T
    BY <2>2
  <2>. DEFINE U == T \ {x}
  <2>4. U # {}
    BY <2>2, <2>3
  <2>5. IsFiniteSet(U) /\ U \subseteq S
    BY <2>2, FS_RemoveElement
  <2>6. <<U, T>> \in StrictSubsetOrdering(S)
    BY <2>2, <2>3 DEF StrictSubsetOrdering
  <2>7. PICK m \in U : \A y \in U : m >= y
    BY <2>1, <2>4, <2>5, <2>6 DEF FiniteSubsetsOf
  <2>8. \E z \in {x, m} : \A y \in T : z >= y
    BY <2>2, <2>3, <2>7
  <2>. QED BY <2>2, <2>3, <2>7, <2>8
<1>2. HasMax(S)
  BY <1>1 DEF FiniteSubsetsOf
<1>. QED BY <1>2 DEF Max

Row == [version : Nat, status : {"none", "active", "draft", "retired"}, content : Nat, writes : Nat,
        knew : Nat]
Steps == {"idle", "version", "write", "invalidate", "latest", "insert", "commit", "preload",
          "status", "delete", "load", "create", "drive"}
Op == [step : Steps, row : RowId \cup {0}, was : Row, to : {"none", "active", "draft", "start"},
       content : Nat, version : Nat, tries : Nat, prev : RowId \cup {0},
       retires : SUBSET RowId, seen : Nat,
       inst : Instance \cup {0}]
Instances == [status : {"none", "active", "suspended"}, row : RowId \cup {0}, seen : Int,
              driven : SUBSET Nat]
RowsShape == rows \in [RowId -> Row]
OpsShape == op \in [Caller -> Op]
InstsShape == inst \in [Instance -> Instances]
PoolShape == pool \in [Replica -> [RowId -> Nat]]
Shapes == RowsShape /\ OpsShape /\ InstsShape /\ PoolShape /\ asks \in Nat

(* What a request is about exists.                                         *)
Bounded(o) ==
  /\ o.step \in {"version", "write", "invalidate", "preload", "status", "delete", "load", "create", "drive"}
       => o.row \in RowId
  /\ o.step \in {"load", "create", "drive"} => o.inst \in Instance
  /\ o.step \in {"latest", "insert"} => o.to \in {"active", "draft"}
Targets == \A c \in Caller : Bounded(op[c])

LEMMA NoRowShape == NoRow \in Row
BY DEF Row, NoRow
LEMMA IdleShape == Idle \in Op
BY NoRowShape DEF Op, Idle, Steps

LEMMA InitShapes == Init => Shapes /\ Targets
<1>. SUFFICES ASSUME Init PROVE Shapes /\ Targets
  OBVIOUS
<1>1. RowsShape
  BY NoRowShape DEF Init, RowsShape, Row
<1>2. OpsShape /\ Targets
  <2>1. 1 \in RowId
    BY DEF RowId
  <2>2. [Idle EXCEPT !.step = "delete", !.row = 1] \in Op
    BY <2>1, IdleShape DEF Op, Steps
  <2>3. CASE op = [c \in Caller |-> Idle]
    BY <2>3, IdleShape DEF OpsShape, Targets, Bounded, Idle
  <2>4. ASSUME NEW d \in Caller, op = AboutToDelete(d) PROVE OpsShape /\ Targets
    BY <2>1, <2>2, <2>4, IdleShape DEF OpsShape, AboutToDelete, Targets, Bounded, Idle
  <2>. QED BY <2>3, <2>4 DEF Init
<1>3. InstsShape
  BY DEF Init, InstsShape, Instances, NoInst
<1>4. PoolShape /\ asks \in Nat
  BY DEF Init, PoolShape
<1>. QED BY <1>1, <1>2, <1>3, <1>4 DEF Shapes

(* One request moves on, the others stay where they are.                   *)
LEMMA OneOp ==
  ASSUME OpsShape, Targets, NEW c \in Caller, NEW o, o \in Op, Bounded(o), op' = [op EXCEPT ![c] = o]
  PROVE  OpsShape' /\ Targets' /\ op'[c] = o /\ \A d \in Caller \ {c} : op'[d] = op[d]
<1>1. op'[c] = o /\ \A d \in Caller \ {c} : op'[d] = op[d]
  BY DEF OpsShape
<1>2. OpsShape'
  <2>1. op' = [d \in Caller |-> op'[d]]
    BY DEF OpsShape
  <2>2. \A d \in Caller : op'[d] \in Op
    BY <1>1 DEF OpsShape
  <2>. QED BY <2>1, <2>2 DEF OpsShape
<1>3. \A d \in Caller : Bounded(op'[d])
  BY <1>1 DEF Targets
<1>. QED BY <1>1, <1>2, <1>3 DEF Targets, Bounded, RowId

LEMMA RowsStay == ASSUME RowsShape, rows' = rows PROVE RowsShape'
BY DEF RowsShape, RowId
LEMMA InstsStay == ASSUME InstsShape, inst' = inst PROVE InstsShape'
BY DEF InstsShape
LEMMA OpsStay == ASSUME OpsShape, Targets, op' = op PROVE OpsShape' /\ Targets'
BY DEF OpsShape, Targets, Bounded, RowId

LEMMA OneRow ==
  ASSUME RowsShape, NEW p \in RowId, NEW row, row \in Row, rows' = [rows EXCEPT ![p] = row]
  PROVE  RowsShape' /\ rows'[p] = row /\ \A q \in RowId \ {p} : rows'[q] = rows[q]
<1>1. rows'[p] = row /\ \A q \in RowId \ {p} : rows'[q] = rows[q]
  BY DEF RowsShape
<1>2. rows' = [q \in RowId |-> rows'[q]]
  BY DEF RowsShape
<1>. QED BY <1>1, <1>2 DEF RowsShape, RowId

LEMMA OneInst ==
  ASSUME InstsShape, NEW i \in Instance, NEW x, x \in Instances, inst' = [inst EXCEPT ![i] = x]
  PROVE  InstsShape' /\ inst'[i] = x /\ \A j \in Instance \ {i} : inst'[j] = inst[j]
<1>1. inst'[i] = x /\ \A j \in Instance \ {i} : inst'[j] = inst[j]
  BY DEF InstsShape
<1>2. inst' = [j \in Instance |-> inst'[j]]
  BY DEF InstsShape
<1>. QED BY <1>1, <1>2 DEF InstsShape

(* What a step does to the chains of one replica, and what it drops. *)
LEMMA DroppedPool ==
  ASSUME PoolShape, NEW r \in Replica, NEW ps, pool' = Dropped(r, ps)
  PROVE  /\ PoolShape'
         /\ \A q \in Replica, p \in RowId : pool'[q][p] \in {0, pool[q][p]}
BY DEF PoolShape, Dropped, RowId

LEMMA LoadedPool ==
  ASSUME PoolShape, NEW r \in Replica, NEW p \in RowId, NEW content \in Nat, LoadAt(r, p, content)
  PROVE  /\ PoolShape'
         /\ Loaded(r, p, content) \in Nat
         /\ \A q \in Replica, o \in RowId :
              pool'[q][o] = IF q = r /\ o = p THEN Loaded(r, p, content) ELSE pool[q][o]
BY DEF PoolShape, LoadAt, Loaded, RowId

-----------------------------------------------------------------------------
(* The invariant. A row is written at most once while it is active: by its *)
(* insertion. So as long as it is not written again, whatever was read of  *)
(* it, loaded from it or taken in hand has its content.                    *)
Contiguous == \E k \in 0 .. MaxRow : Filled = 1 .. k
ActiveUnwritten == \A p \in RowId : Active(p) => rows[p].writes = 0
Rows == Contiguous /\ ActiveUnwritten /\ ActiveTogether

Matches(p, content) == p \in Filled /\ (rows[p].writes = 0 => content = rows[p].content)
Chains == \A r \in Replica, p \in RowId : pool[r][p] # 0 => Matches(p, pool[r][p])

(* What a request has in hand. A transaction that has inserted an active   *)
(* version retires whatever was active when it looked and still is.        *)
Starting(o) == o.step = "create" \/ (o.step = "load" /\ o.to = "start")
Driving(o) == o.step = "drive" \/ (o.step = "load" /\ o.to # "start")
Retiring(o) ==
  /\ o.was.writes = 0 /\ o.was.status \in {"active", "draft"}
  /\ \A p \in RowId : p <= o.was.knew =>
       p \in Filled /\ (o.was.status = "active" /\ rows[p].status = "active" => p \in o.retires)
Hand(o) ==
  /\ o.step = "commit" => Retiring(o)
  /\ o.step \in {"load", "preload"} => Matches(o.row, o.was.content)
  /\ o.step \in {"create", "drive"} => Matches(o.row, o.content)
  /\ o.step = "load" /\ o.to = "start" => o.was.writes = 0
  /\ o.step = "create" => o.seen = 0
Hands == \A c \in Caller : Hand(op[c])

(* An instance that runs, and the requests that are about it.              *)
Runs(x) ==
  /\ x.status \in {"active", "suspended"}
  /\ x.seen = 0
  /\ x.row \in Filled
  /\ \A content \in x.driven : Matches(x.row, content)
Insts == \A i \in Instance : inst[i] = NoInst \/ Runs(inst[i])
Claim(o) ==
  /\ Starting(o) => inst[o.inst] = NoInst
  /\ Driving(o) => inst[o.inst] = NoInst \/ inst[o.inst].row = o.row
Claims == \A c \in Caller : Claim(op[c])
Apart(o, e) == Starting(o) /\ (Starting(e) \/ Driving(e)) => o.inst # e.inst
ClaimsApart == \A c, d \in Caller : c # d => Apart(op[c], op[d])

DInv == /\ Shapes /\ Targets /\ Rows /\ Chains
        /\ Hands /\ Insts /\ Claims /\ ClaimsApart

(* A row that is there stays known, and if it is unwritten after a step it *)
(* was before, with the same content. None becomes active again.           *)
RowKept(p) ==
  p \in Filled => /\ p \in Filled'
                  /\ rows'[p].status = "active" => rows[p].status = "active"
                  /\ rows'[p].writes = 0 => /\ rows[p].writes = 0
                                            /\ rows'[p].content = rows[p].content
RowsKept == \A p \in RowId : RowKept(p)

LEMMA MatchKept ==
  ASSUME RowsKept, NEW p, NEW content, Matches(p, content)
  PROVE  Matches(p, content)'
BY DEF RowsKept, RowKept, Matches, Filled

LEMMA HandKept ==
  ASSUME RowsKept, NEW o, Hand(o)
  PROVE  /\ (o.step = "commit" => Retiring(o)')
         /\ (o.step \in {"load", "preload"} => Matches(o.row, o.was.content)')
         /\ (o.step \in {"create", "drive"} => Matches(o.row, o.content)')
<1>1. ASSUME o.step \in {"load", "preload"} PROVE Matches(o.row, o.was.content)'
  BY <1>1, MatchKept DEF Hand
<1>2. ASSUME o.step \in {"create", "drive"} PROVE Matches(o.row, o.content)'
  BY <1>2, MatchKept DEF Hand
<1>3. ASSUME o.step = "commit" PROVE Retiring(o)'
  <2>1. Retiring(o)
    BY <1>3 DEF Hand
  <2>2. ASSUME NEW p \in RowId, p <= o.was.knew
        PROVE  p \in Filled' /\ (rows'[p].status = "active" => rows[p].status = "active")
    BY <2>1, <2>2 DEF Retiring, RowsKept, RowKept
  <2>. QED BY <2>1, <2>2 DEF Retiring, RowId
<1>. QED BY <1>1, <1>2, <1>3

LEMMA ChainsFrom ==
  ASSUME RowsKept, \A q \in Replica, p \in RowId : pool'[q][p] # 0 => Matches(p, pool'[q][p])
  PROVE  Chains'
<1>1. ASSUME NEW r \in Replica, NEW p \in RowId, NEW x, x = pool'[r][p], x # 0
      PROVE  Matches(p, x)'
  BY <1>1, MatchKept
<1>2. ASSUME NEW r \in Replica, NEW p \in RowId, pool'[r][p] # 0
      PROVE  Matches(p, pool[r][p])'
  BY <1>1, <1>2 DEF Matches
<1>. QED BY <1>2 DEF Chains, RowId

LEMMA FewerChains ==
  ASSUME Chains, RowsKept, \A q \in Replica, p \in RowId : pool'[q][p] \in {0, pool[q][p]}
  PROVE  Chains'
<1>1. ASSUME NEW q \in Replica, NEW p \in RowId, pool'[q][p] # 0 PROVE Matches(p, pool'[q][p])
  <2>1. pool'[q][p] = pool[q][p]
    BY <1>1
  <2>. QED BY <1>1, <2>1 DEF Chains
<1>. QED BY <1>1, ChainsFrom

LEMMA ChainsKept == ASSUME Chains, RowsKept, pool' = pool PROVE Chains'
BY FewerChains

LEMMA RunsKept ==
  ASSUME RowsKept, NEW x, Runs(x)
  PROVE  Runs(x)'
<1>1. x.row \in Filled'
  BY DEF Runs, RowsKept, RowKept, Filled
<1>2. \A content \in x.driven : Matches(x.row, content)'
  BY MatchKept DEF Runs
<1>. QED BY <1>1, <1>2 DEF Runs

LEMMA InstsKept == ASSUME Insts, RowsKept, inst' = inst PROVE Insts'
<1>1. ASSUME NEW i \in Instance, NEW x, x = inst[i], Runs(x) PROVE Runs(x)'
  BY <1>1, RunsKept
<1>2. ASSUME NEW i \in Instance, Runs(inst[i]) PROVE Runs(inst[i])'
  BY <1>1, <1>2 DEF Runs, Matches
<1>. QED BY <1>2 DEF Insts

LEMMA SameRows == ASSUME rows' = rows PROVE RowsKept /\ (Rows => Rows')
<1>1. Filled' = Filled
  BY DEF Filled, Exists, RowId
<1>2. RowsKept
  BY <1>1 DEF RowsKept, RowKept
<1>3. ASSUME Rows PROVE Rows'
  BY <1>1, <1>3 DEF Rows, Contiguous, ActiveUnwritten, ActiveTogether, Active, RowId
<1>. QED BY <1>2, <1>3

-----------------------------------------------------------------------------
(* A step of one request: what it has in hand fits the rows as they are    *)
(* now, and nobody else is about the instance it starts.                   *)
Alone(c, o) == \A d \in Caller \ {c} : Apart(o, op[d]) /\ Apart(op[d], o)
Fits(c, o) == o \in Op /\ Bounded(o) /\ Claim(o) /\ Alone(c, o)

LEMMA OpsMove ==
  ASSUME DInv, NEW c \in Caller, NEW o, op' = [op EXCEPT ![c] = o],
         o \in Op, Bounded(o), Alone(c, o), Hand(o)', RowsKept
  PROVE  /\ OpsShape' /\ Targets' /\ Hands' /\ ClaimsApart'
         /\ op'[c] = o /\ \A d \in Caller \ {c} : op'[d] = op[d]
<1>1. OpsShape' /\ Targets' /\ op'[c] = o /\ \A d \in Caller \ {c} : op'[d] = op[d]
  BY OneOp DEF DInv, Shapes
<1>2. Hands'
  <2>1. ASSUME NEW d \in Caller, NEW x, x = op'[d] PROVE Hand(x)'
    <3>1. CASE d = c
      BY <1>1, <2>1, <3>1
    <3>2. CASE d # c
      <4>1. x = op[d] /\ Hand(x)
        BY <1>1, <2>1, <3>2 DEF DInv, Hands
      <4>. QED BY <4>1, HandKept DEF Hand
    <3>. QED BY <3>1, <3>2
  <2>2. ASSUME NEW d \in Caller PROVE Hand(op[d])'
    BY <2>1 DEF Hand, Matches
  <2>. QED BY <2>2 DEF Hands
<1>3. ClaimsApart'
  <2>1. ASSUME NEW d \in Caller, NEW e \in Caller, d # e PROVE Apart(op'[d], op'[e])
    <3>1. CASE d = c
      BY <1>1, <2>1, <3>1 DEF Alone
    <3>2. CASE e = c
      BY <1>1, <2>1, <3>2 DEF Alone
    <3>3. CASE d # c /\ e # c
      BY <1>1, <2>1, <3>3 DEF DInv, ClaimsApart
    <3>. QED BY <3>1, <3>2, <3>3
  <2>. QED BY <2>1 DEF ClaimsApart, Apart, Starting, Driving
<1>. QED BY <1>1, <1>2, <1>3

(* A step that moves no request.                                           *)
LEMMA OpsHold ==
  ASSUME DInv, op' = op, RowsKept
  PROVE  OpsShape' /\ Targets' /\ Hands' /\ ClaimsApart'
<1>1. OpsShape' /\ Targets'
  BY OpsStay DEF DInv, Shapes
<1>2. Hands'
  <2>1. ASSUME NEW d \in Caller, NEW x, x = op[d] PROVE Hand(x)'
    <3>1. Hand(x)
      BY <2>1 DEF DInv, Hands
    <3>. QED BY <3>1, HandKept DEF Hand
  <2>2. ASSUME NEW d \in Caller PROVE Hand(op[d])'
    BY <2>1 DEF Hand, Matches
  <2>. QED BY <2>2 DEF Hands
<1>3. ClaimsApart'
  BY DEF DInv, ClaimsApart, Apart, Starting, Driving
<1>. QED BY <1>1, <1>2, <1>3

(* A step of one request that leaves the instances alone.                  *)
LEMMA OpsStep ==
  ASSUME DInv, NEW c \in Caller, NEW o, op' = [op EXCEPT ![c] = o], Fits(c, o), Hand(o)',
         RowsKept, inst' = inst
  PROVE  OpsShape' /\ Targets' /\ Hands' /\ Claims' /\ ClaimsApart' /\ InstsShape' /\ Insts'
<1>1. /\ OpsShape' /\ Targets' /\ Hands' /\ ClaimsApart'
      /\ op'[c] = o /\ \A d \in Caller \ {c} : op'[d] = op[d]
  BY OpsMove DEF Fits
<1>2. InstsShape' /\ Insts'
  BY InstsStay, InstsKept DEF DInv, Shapes
<1>3. \A d \in Caller : Claim(op'[d])
  BY <1>1 DEF DInv, Claims, Fits
<1>4. Claims'
  BY <1>3 DEF Claims, Claim, Starting, Driving
<1>. QED BY <1>1, <1>2, <1>4

(* The same where the rows are as they were, and where the chains are too. *)
LEMMA PoolStep ==
  ASSUME DInv, NEW c \in Caller, NEW o, op' = [op EXCEPT ![c] = o], Fits(c, o), Hand(o),
         rows' = rows, inst' = inst, asks' \in Nat, PoolShape', Chains'
  PROVE  DInv'
<1>1. RowsKept /\ Rows' /\ RowsShape'
  BY SameRows, RowsStay DEF DInv, Shapes
<1>2. Hand(o)'
  BY <1>1, HandKept DEF Hand
<1>3. OpsShape' /\ Targets' /\ Hands' /\ Claims' /\ ClaimsApart' /\ InstsShape' /\ Insts'
  BY <1>1, <1>2, OpsStep
<1>. QED BY <1>1, <1>3 DEF DInv, Shapes

LEMMA OpStep ==
  ASSUME DInv, NEW c \in Caller, NEW o, op' = [op EXCEPT ![c] = o], Fits(c, o), Hand(o),
         rows' = rows, pool' = pool, inst' = inst, asks' \in Nat
  PROVE  DInv'
<1>1. Chains' /\ PoolShape'
  BY SameRows, ChainsKept DEF DInv, Shapes, PoolShape, RowId
<1>. QED BY <1>1, PoolStep

(* A request that neither loads nor starts nor drives is about no instance *)
(* and has nothing in hand that must fit.                                  *)
Quiet(o) == o.step \in {"idle", "version", "write", "invalidate", "latest", "insert", "status", "delete"}
LEMMA QuietFits ==
  ASSUME NEW c \in Caller, NEW o, Quiet(o), o \in Op, Bounded(o)
  PROVE  Fits(c, o) /\ Hand(o) /\ Hand(o)'
<1>1. o.step \notin {"load", "preload", "create", "drive", "commit"}
  BY DEF Quiet
<1>. QED BY <1>1 DEF Fits, Alone, Hand, Claim, Apart, Starting, Driving

-----------------------------------------------------------------------------
(* Requests that only read and decide.                                     *)
LEMMA RowShapes == ASSUME DInv, NEW p \in RowId PROVE rows[p] \in Row
BY DEF DInv, Shapes, RowsShape
LEMMA OpShapes == ASSUME DInv, NEW c \in Caller PROVE op[c] \in Op /\ Bounded(op[c]) /\ Hand(op[c])
BY DEF DInv, Shapes, OpsShape, Targets, Hands

LEMMA QuietStep ==
  ASSUME DInv, NEW c \in Caller, NEW o, op' = [op EXCEPT ![c] = o],
         Quiet(o), o \in Op, Bounded(o),
         rows' = rows, pool' = pool, inst' = inst, asks' \in Nat
  PROVE  DInv'
BY QuietFits, OpStep

LEMMA UpdateLookKeeps ==
  ASSUME DInv, NEW c \in Caller, NEW p \in RowId, UpdateLook(c, p)
  PROVE  DInv'
<1>. DEFINE o == [Idle EXCEPT !.step = "version", !.row = p, !.was = rows[p], !.content = Fresh]
<1>1. o \in Op /\ Quiet(o) /\ Bounded(o)
  <2>1. rows[p] \in Row /\ Fresh \in Nat
    BY RowShapes DEF Fresh, DInv, Shapes
  <2>. QED BY <2>1 DEF Op, Steps, Idle, Quiet, Bounded
<1>2. op' = [op EXCEPT ![c] = o] /\ asks' \in Nat
  BY DEF UpdateLook, Begin, DInv, Shapes
<1>. QED BY <1>1, <1>2, QuietStep DEF UpdateLook, tables

(* The family's latest version, which is that of a stored row.             *)
LEMMA LatestNat ==
  ASSUME RowsShape
  PROVE  /\ LatestVersion \in Nat
         /\ Stored # {} => \E p \in Stored : IsLatest(p)
<1>. DEFINE f == [p \in Stored |-> rows[p].version]
<1>1. IsFiniteSet(Stored)
  <2>1. IsFiniteSet(RowId)
    BY FS_Interval DEF RowId
  <2>2. Stored \in SUBSET RowId
    BY DEF Stored
  <2>. QED BY <2>1, <2>2, FS_Subset
<1>2. f \in Surjection(Stored, Versions)
  BY DEF Surjection, Versions
<1>3. IsFiniteSet(Versions)
  BY <1>1, <1>2, FS_Surjection
<1>4. Versions \subseteq Nat
  BY DEF RowsShape, Row, Versions, Stored
<1>5. CASE Stored = {}
  BY <1>5 DEF LatestVersion
<1>6. CASE Stored # {}
  <2>1. Versions # {}
    BY <1>6 DEF Versions
  <2>2. Max(Versions) \in Versions
    BY <1>3, <1>4, <2>1, MaxExists
  <2>3. LatestVersion = Max(Versions)
    BY <1>6 DEF LatestVersion
  <2>4. PICK p \in Stored : rows[p].version = Max(Versions)
    BY <2>2 DEF Versions
  <2>. QED BY <1>4, <2>2, <2>3, <2>4 DEF IsLatest, Stored
<1>. QED BY <1>5, <1>6

LEMMA LargerNat == \A a, b \in Nat : Max({a, b}) \in Nat
<1>. TAKE a, b \in Nat
<1>1. IsFiniteSet({a} \cup {b})
  BY FS_Singleton, FS_AddElement
<1>2. {a} \cup {b} = {a, b}
  OBVIOUS
<1>3. IsFiniteSet({a, b})
  BY <1>1, <1>2
<1>4. Max({a, b}) \in {a, b}
  BY <1>3, MaxExists
<1>. QED BY <1>4

LEMMA UpdateVersionKeeps ==
  ASSUME DInv, NEW c \in Caller, UpdateVersion(c)
  PROVE  DInv'
<1>. DEFINE v == Max({op[c].was.version, LatestVersion}) + 1
            o == [op[c] EXCEPT !.step = "write", !.version = v]
<1>1. v \in Nat
  <2>1. op[c].was.version \in Nat /\ LatestVersion \in Nat
    BY OpShapes, LatestNat DEF Op, Row, DInv, Shapes
  <2>2. Max({op[c].was.version, LatestVersion}) \in Nat
    BY <2>1, LargerNat
  <2>. QED BY <2>2
<1>2. op' = [op EXCEPT ![c] = o]
  BY DEF UpdateVersion
<1>. HIDE DEF v
<1>3. o \in Op /\ Quiet(o) /\ Bounded(o)
  BY <1>1, OpShapes, ZenonT(60) DEF Op, Steps, Quiet, Bounded, UpdateVersion
<1>. QED BY <1>2, <1>3, QuietStep DEF UpdateVersion, tables, DInv, Shapes

LEMMA AskKeeps ==
  ASSUME DInv, NEW c \in Caller, NEW status \in {"active", "draft"}, NEW content \in Nat,
         Begin(c), Ask(c, status, content), UNCHANGED <<tables, pool, sent, inst>>
  PROVE  DInv'
<1>. DEFINE o == [Idle EXCEPT !.step = "latest", !.to = status, !.content = content]
<1>1. o \in Op /\ Quiet(o) /\ Bounded(o)
  BY IdleShape DEF Op, Steps, Idle, Quiet, Bounded
<1>2. op' = [op EXCEPT ![c] = o] /\ asks' \in Nat
  BY DEF Ask, Begin, DInv, Shapes
<1>. QED BY <1>1, <1>2, QuietStep DEF tables

LEMMA DeployKeeps ==
  ASSUME DInv, NEW c \in Caller, NEW status \in {"active", "draft"}, Deploy(c, status)
  PROVE  DInv'
<1>1. Fresh \in Nat
  BY DEF Fresh, DInv, Shapes
<1>. QED BY <1>1, AskKeeps DEF Deploy

LEMMA ActivateKeeps ==
  ASSUME DInv, NEW c \in Caller, NEW p \in RowId, Activate(c, p)
  PROVE  DInv'
<1>1. rows[p].content \in Nat
  BY RowShapes DEF Row
<1>. QED BY <1>1, AskKeeps DEF Activate

LEMMA CreateLookKeeps ==
  ASSUME DInv, NEW c \in Caller, CreateLook(c)
  PROVE  DInv'
<1>. DEFINE v == LatestVersion + 1
            q == IF Stored = {} THEN 0 ELSE CHOOSE p \in Stored : IsLatest(p)
            o == [op[c] EXCEPT !.step = "insert", !.version = v, !.prev = q]
<1>1. v \in Nat
  BY LatestNat DEF DInv, Shapes
<1>2. q \in RowId \cup {0}
  BY LatestNat DEF DInv, Shapes, Stored
<1>3. op' = [op EXCEPT ![c].step = "insert", ![c].version = v, ![c].prev = q]
  BY DEF CreateLook
<1>4. op[c].step = "latest" /\ UNCHANGED <<rows, pool, inst, asks>>
  BY DEF CreateLook, tables
<1>. HIDE DEF v, q
<1>5. op' = [op EXCEPT ![c] = o]
  BY <1>3
<1>6. o \in Op /\ Quiet(o) /\ Bounded(o)
  <2>1. op[c] \in Op /\ op[c].to \in {"active", "draft"}
    BY <1>4, OpShapes DEF Bounded
  <2>2. o \in Op
    BY <1>1, <1>2, <2>1 DEF Op, Steps
  <2>3. o.step = "insert" /\ o.to = op[c].to
    BY <2>1 DEF Op
  <2>. QED BY <2>1, <2>2, <2>3 DEF Quiet, Bounded
<1>. QED BY <1>4, <1>5, <1>6, QuietStep DEF DInv, Shapes

LEMMA StatusLookKeeps ==
  ASSUME DInv, NEW c \in Caller, NEW p \in RowId, StatusLook(c, p)
  PROVE  DInv'
<1>. DEFINE o == [Idle EXCEPT !.step = "status", !.row = p, !.was = rows[p]]
<1>1. o \in Op /\ Quiet(o) /\ Bounded(o)
  BY IdleShape, RowShapes DEF Op, Steps, Idle, Quiet, Bounded
<1>2. op' = [op EXCEPT ![c] = o] /\ asks' \in Nat
  BY DEF StatusLook, Begin, DInv, Shapes
<1>. QED BY <1>1, <1>2, QuietStep DEF StatusLook, tables

LEMMA DeleteLookKeeps ==
  ASSUME DInv, NEW c \in Caller, NEW p \in RowId, DeleteLook(c, p)
  PROVE  DInv'
<1>. DEFINE o == [Idle EXCEPT !.step = "delete", !.row = p]
<1>1. o \in Op /\ Quiet(o) /\ Bounded(o)
  BY IdleShape DEF Op, Steps, Idle, Quiet, Bounded
<1>2. op' = [op EXCEPT ![c] = o] /\ asks' \in Nat
  BY DEF DeleteLook, Begin, DInv, Shapes
<1>. QED BY <1>1, <1>2, QuietStep DEF DeleteLook, tables

(* Only an active row starts an instance, so it is unwritten.              *)
LEMMA StartLookKeeps ==
  ASSUME DInv, NEW c \in Caller, NEW p \in RowId, NEW i \in Instance, StartLook(c, p, i)
  PROVE  DInv'
<1>. DEFINE o == [Idle EXCEPT !.step = "load", !.row = p, !.was = rows[p], !.inst = i, !.to = "start"]
<1>1. o \in Op /\ Bounded(o)
  BY IdleShape, RowShapes DEF Op, Steps, Idle, Bounded
<1>2. Hand(o)
  <2>1. p \in Filled /\ rows[p].writes = 0
    BY DEF StartLook, DInv, Rows, ActiveUnwritten, Active, Filled, Exists
  <2>. QED BY <2>1 DEF Hand, Matches, Idle
<1>3. Claim(o)
  BY DEF StartLook, Unused, DInv, Insts, Runs, Claim, Starting, Driving, Idle
<1>4. Alone(c, o)
  BY DEF StartLook, Unused, Alone, Apart, Idle
<1>5. op' = [op EXCEPT ![c] = o]
  BY DEF StartLook
<1>. QED BY <1>1, <1>2, <1>3, <1>4, <1>5, OpStep DEF Fits, StartLook, tables, DInv, Shapes

(* A drive of an instance that runs; no request is still starting it.      *)
LEMMA GetExecutionKeeps ==
  ASSUME DInv, NEW c \in Caller, NEW i \in Instance, GetExecution(c, i)
  PROVE  DInv'
<1>. DEFINE p == inst[i].row
            r == Home[c]
<1>1. Runs(inst[i]) /\ inst[i] # NoInst
  BY DEF GetExecution, DInv, Insts, NoInst
<1>2. p \in Filled /\ p \in RowId /\ r \in Replica
  BY <1>1 DEF Runs, Filled
<1>3. ASSUME NEW d \in Caller, Starting(op[d]) PROVE op[d].inst # i
  BY <1>1, <1>3 DEF DInv, Claims, Claim
<1>4. ASSUME NEW o, o \in Op, Bounded(o), Hand(o), Driving(o), ~Starting(o), o.inst = i, o.row = p,
             op' = [op EXCEPT ![c] = o]
      PROVE  DInv'
  <2>1. Claim(o) /\ Alone(c, o)
    BY <1>3, <1>4 DEF Claim, Alone, Apart
  <2>. QED BY <1>4, <2>1, OpStep DEF Fits, GetExecution, tables, DInv, Shapes
<1>5. CASE pool[r][p] # 0 /\ op' = [op EXCEPT ![c] = [Idle EXCEPT !.step = "drive", !.row = p,
                                                        !.content = pool[r][p], !.inst = i]]
  <2>. DEFINE o == [Idle EXCEPT !.step = "drive", !.row = p, !.content = pool[r][p], !.inst = i]
  <2>1. Matches(p, pool[r][p]) /\ pool[r][p] \in Nat
    BY <1>2, <1>5 DEF DInv, Chains, Shapes, PoolShape
  <2>2. o \in Op /\ Bounded(o) /\ Driving(o) /\ ~Starting(o)
    BY <1>2, <2>1, IdleShape DEF Op, Steps, Idle, Bounded, Driving, Starting
  <2>3. Hand(o)
    BY <2>1 DEF Hand, Idle
  <2>4. o.inst = i /\ o.row = p
    BY DEF Idle
  <2>. QED BY <1>4, <1>5, <2>2, <2>3, <2>4
<1>6. CASE pool[r][p] = 0 /\ op' = [op EXCEPT ![c] = [Idle EXCEPT !.step = "load", !.row = p,
                                                        !.was = rows[p], !.inst = i]]
  <2>. DEFINE o == [Idle EXCEPT !.step = "load", !.row = p, !.was = rows[p], !.inst = i]
  <2>1. o \in Op /\ Bounded(o) /\ Driving(o) /\ ~Starting(o)
    BY <1>2, IdleShape, RowShapes DEF Op, Steps, Idle, Bounded, Driving, Starting
  <2>2. Hand(o)
    BY <1>2 DEF Hand, Idle, Matches
  <2>3. o.inst = i /\ o.row = p
    BY DEF Idle
  <2>. QED BY <1>4, <1>6, <2>1, <2>2, <2>3
<1>. QED BY <1>5, <1>6 DEF GetExecution

(* Loading a chain: one that is loaded already matches, and so does the    *)
(* one built from what the request read.                                   *)
LEMMA LoadChainKeeps ==
  ASSUME DInv, NEW c \in Caller, LoadChain(c)
  PROVE  DInv'
<1>. DEFINE r == Home[c]
            p == op[c].row
            chain == Loaded(r, p, op[c].was.content)
<1>1. /\ op[c] \in Op /\ op[c].step = "load"
      /\ p \in RowId /\ op[c].inst \in Instance /\ r \in Replica
  BY OpShapes DEF LoadChain, Bounded
<1>2. op[c].was.content \in Nat /\ op[c].was.writes \in Nat
  BY <1>1 DEF Op, Row
<1>3. /\ PoolShape' /\ chain \in Nat
      /\ \A q \in Replica, n \in RowId :
           pool'[q][n] = IF q = r /\ n = p THEN chain ELSE pool[q][n]
  <2>1. LoadAt(r, p, op[c].was.content) /\ PoolShape
    BY DEF LoadChain, DInv, Shapes
  <2>. QED BY <1>1, <1>2, <2>1, LoadedPool
<1>4. Matches(p, op[c].was.content)
  BY <1>1, OpShapes DEF Hand
<1>5. Matches(p, chain)
  BY <1>1, <1>4 DEF Loaded, DInv, Chains
<1>6. /\ RowsKept /\ rows' = rows /\ inst' = inst /\ asks' = asks /\ asks \in Nat
  BY SameRows DEF LoadChain, tables, DInv, Shapes
<1>7. op' = [op EXCEPT ![c] =
               IF op[c].to = "start"
                 THEN [[Idle EXCEPT !.row = p, !.inst = op[c].inst, !.content = chain]
                         EXCEPT !.step = "create", !.seen = op[c].was.writes]
                 ELSE [[Idle EXCEPT !.row = p, !.inst = op[c].inst, !.content = chain]
                         EXCEPT !.step = "drive"]]
  BY DEF LoadChain
<1>8. Claim(op[c]) /\ \A d \in Caller \ {c} : Apart(op[c], op[d]) /\ Apart(op[d], op[c])
  BY DEF DInv, Claims, ClaimsApart
<1>9. op[c].to = "start" => op[c].was.writes = 0
  BY <1>1, OpShapes DEF Hand
<1>10. Chains'
  <2>. HIDE DEF chain
  <2>1. ASSUME NEW q \in Replica, NEW n \in RowId, pool'[q][n] # 0 PROVE Matches(n, pool'[q][n])
    <3>1. CASE q = r /\ n = p
      BY <1>3, <1>5, <3>1
    <3>2. CASE ~(q = r /\ n = p)
      BY <1>3, <2>1, <3>2 DEF DInv, Chains
    <3>. QED BY <3>1, <3>2
  <2>. QED BY <1>6, <2>1, ChainsFrom
<1>. HIDE DEF chain, p, r
<1>11. CASE op[c].to = "start"
  <2>. DEFINE o == [[Idle EXCEPT !.row = p, !.inst = op[c].inst, !.content = chain]
                         EXCEPT !.step = "create", !.seen = op[c].was.writes]
  <2>1. op' = [op EXCEPT ![c] = o]
    BY <1>7, <1>11, Zenon
  <2>2. o \in Op
    BY <1>1, <1>2, <1>3, IdleShape DEF Op, Steps
  <2>3. o.step = "create" /\ o.row = p /\ o.inst = op[c].inst /\ o.content = chain /\ o.seen = op[c].was.writes
    BY DEF Idle
  <2>. HIDE DEF o
  <2>4. Bounded(o)
    BY <1>1, <2>3 DEF Bounded
  <2>5. Hand(o)
    BY <1>5, <1>9, <1>11, <2>3 DEF Hand
  <2>6. Starting(o) /\ Starting(op[c])
    BY <1>1, <1>11, <2>3 DEF Starting
  <2>7. Claim(o) /\ Alone(c, o)
    BY <1>8, <2>3, <2>6 DEF Claim, Alone, Apart, Driving, Starting
  <2>. QED BY <1>3, <1>6, <1>10, <2>1, <2>2, <2>4, <2>5, <2>7, PoolStep DEF Fits
<1>12. CASE op[c].to # "start"
  <2>. DEFINE o == [[Idle EXCEPT !.row = p, !.inst = op[c].inst, !.content = chain]
                         EXCEPT !.step = "drive"]
  <2>1. op' = [op EXCEPT ![c] = o]
    BY <1>7, <1>12, Zenon
  <2>2. o \in Op
    BY <1>1, <1>2, <1>3, IdleShape DEF Op, Steps
  <2>3. o.step = "drive" /\ o.row = p /\ o.inst = op[c].inst /\ o.content = chain
    BY DEF Idle
  <2>. HIDE DEF o
  <2>4. Bounded(o)
    BY <1>1, <2>3 DEF Bounded
  <2>5. Hand(o)
    BY <1>5, <2>3 DEF Hand
  <2>6. Driving(o) /\ ~Starting(o) /\ Driving(op[c])
    BY <1>1, <1>12, <2>3 DEF Starting, Driving
  <2>7. p = op[c].row
    BY DEF p
  <2>8. Claim(o) /\ Alone(c, o)
    BY <1>8, <2>3, <2>6, <2>7 DEF Claim, Alone, Apart
  <2>. QED BY <1>3, <1>6, <1>10, <2>1, <2>2, <2>4, <2>5, <2>8, PoolStep DEF Fits
<1>. QED BY <1>11, <1>12

(* A request that is done, whatever it has dropped from the pools.         *)
LEMMA DoneKeeps ==
  ASSUME DInv, NEW c \in Caller, Done(c), rows' = rows, inst' = inst, asks' = asks,
         PoolShape', Chains'
  PROVE  DInv'
<1>1. Idle \in Op /\ Quiet(Idle) /\ Bounded(Idle)
  BY IdleShape DEF Idle, Quiet, Bounded
<1>2. Fits(c, Idle) /\ Hand(Idle)
  BY <1>1, QuietFits
<1>. QED BY <1>2, PoolStep DEF Done, DInv, Shapes

LEMMA InvalidateKeeps ==
  ASSUME DInv, NEW c \in Caller, Invalidate(c)
  PROVE  DInv'
<1>1. pool' = Dropped(Home[c], {op[c].row}) /\ Home[c] \in Replica
  BY DEF Invalidate
<1>2. rows' = rows /\ inst' = inst /\ asks' = asks /\ Done(c)
  BY DEF Invalidate, tables
<1>3. PoolShape' /\ \A q \in Replica, p \in RowId : pool'[q][p] \in {0, pool[q][p]}
  BY <1>1, DroppedPool DEF DInv, Shapes
<1>4. Chains'
  BY <1>2, <1>3, SameRows, FewerChains DEF DInv
<1>. QED BY <1>2, <1>3, <1>4, DoneKeeps

(* After a deploy: the new version is loaded, the one before it dropped.   *)
LEMMA PreloadKeeps ==
  ASSUME DInv, NEW c \in Caller, Preload(c)
  PROVE  DInv'
<1>. DEFINE r == Home[c]
            new == op[c].row
            chain == Loaded(r, new, op[c].was.content)
            old == {p \in {op[c].prev} \cap Stored : Evictable(p)}
<1>1. r \in Replica /\ new \in RowId /\ op[c].was.content \in Nat /\ Matches(new, op[c].was.content)
  BY OpShapes DEF Preload, Bounded, Hand, Op, Row
<1>2. chain \in Nat /\ (chain # 0 => Matches(new, chain))
  BY <1>1 DEF Loaded, DInv, Chains, Shapes, PoolShape
<1>3. pool' = [pool EXCEPT ![r] = [p \in RowId |-> CASE p = new -> chain
                                                    [] p \in old -> 0
                                                    [] OTHER -> @[p]]]
  BY DEF Preload
<1>4. rows' = rows /\ inst' = inst /\ asks' = asks /\ Done(c) /\ PoolShape
  BY DEF Preload, tables, DInv, Shapes
<1>. HIDE DEF old, chain, new, r
<1>5. /\ \A n \in RowId : pool'[r][n] = CASE n = new -> chain [] n \in old -> 0 [] OTHER -> pool[r][n]
      /\ \A q \in Replica \ {r} : pool'[q] = pool[q]
  BY <1>1, <1>3, <1>4 DEF PoolShape
<1>6. ASSUME NEW q \in Replica, NEW n \in RowId
      PROVE  pool'[q][n] = pool[q][n] \/ pool'[q][n] = 0 \/ (n = new /\ pool'[q][n] = chain)
  BY <1>5
<1>7. PoolShape'
  <2>1. pool' \in [Replica -> [RowId -> Nat]]
    BY <1>1, <1>2, <1>3, <1>4 DEF PoolShape
  <2>. QED BY <2>1 DEF PoolShape, RowId
<1>8. Chains'
  <2>1. ASSUME NEW q \in Replica, NEW n \in RowId, pool'[q][n] # 0 PROVE Matches(n, pool'[q][n])
    <3>1. CASE pool'[q][n] = pool[q][n]
      BY <2>1, <3>1 DEF DInv, Chains
    <3>2. CASE n = new /\ pool'[q][n] = chain
      BY <1>2, <2>1, <3>2
    <3>. QED BY <1>6, <2>1, <3>1, <3>2
  <2>. QED BY <1>4, <2>1, SameRows, ChainsFrom
<1>. QED BY <1>4, <1>7, <1>8, DoneKeeps

(* The host's side.                                                        *)
LEMMA HostKeeps ==
  ASSUME DInv, rows' = rows, inst' = inst, op' = op, asks' = asks,
         NEW r \in Replica, NEW ps, pool' = Dropped(r, ps)
  PROVE  DInv'
<1>1. RowsKept /\ Rows' /\ RowsShape'
  BY SameRows, RowsStay DEF DInv, Shapes
<1>2. PoolShape' /\ \A q \in Replica, p \in RowId : pool'[q][p] \in {0, pool[q][p]}
  BY DroppedPool DEF DInv, Shapes
<1>3. Chains'
  BY <1>1, <1>2, FewerChains DEF DInv
<1>4. OpsShape' /\ Targets' /\ Hands' /\ ClaimsApart'
  BY <1>1, OpsHold
<1>5. InstsShape' /\ Insts'
  BY <1>1, InstsStay, InstsKept DEF DInv, Shapes
<1>6. Claims'
  BY DEF DInv, Claims, Claim, Starting, Driving
<1>. QED BY <1>1, <1>2, <1>3, <1>4, <1>5, <1>6 DEF DInv, Shapes

LEMMA DeliverKeeps ==
  ASSUME DInv, NEW r \in Replica, NEW p \in RowId, Deliver(r, p)
  PROVE  DInv'
BY HostKeeps DEF Deliver, tables

LEMMA PatrolKeeps ==
  ASSUME DInv, NEW r \in Replica, Patrol(r)
  PROVE  DInv'
BY HostKeeps DEF Patrol

-----------------------------------------------------------------------------
(* Steps of one instance.                                                  *)
LEMMA InstMove ==
  ASSUME DInv, NEW i \in Instance, NEW x, x \in Instances, x = NoInst \/ Runs(x),
         inst' = [inst EXCEPT ![i] = x], rows' = rows
  PROVE  /\ InstsShape' /\ Insts' /\ RowsKept /\ Rows' /\ RowsShape'
         /\ inst'[i] = x /\ \A j \in Instance \ {i} : inst'[j] = inst[j]
<1>1. InstsShape' /\ inst'[i] = x /\ \A j \in Instance \ {i} : inst'[j] = inst[j]
  BY OneInst DEF DInv, Shapes
<1>2. RowsKept /\ Rows' /\ RowsShape'
  BY SameRows, RowsStay DEF DInv, Shapes
<1>3. ASSUME NEW j \in Instance, NEW y, y = inst'[j] PROVE y = NoInst \/ Runs(y)'
  <2>1. y = NoInst \/ Runs(y)
    BY <1>1, <1>3 DEF DInv, Insts
  <2>. QED BY <1>2, <2>1, RunsKept
<1>4. ASSUME NEW j \in Instance PROVE inst'[j] = NoInst \/ Runs(inst[j])'
  BY <1>3 DEF Runs, Matches
<1>5. Insts'
  BY <1>4 DEF Insts, NoInst
<1>. QED BY <1>1, <1>2, <1>5

(* One that neither starts nor ends by the step, or ends by it.            *)
LEMMA InstStep ==
  ASSUME DInv, NEW i \in Instance, NEW x, x \in Instances, inst[i] # NoInst,
         x = NoInst \/ (Runs(x) /\ x.row = inst[i].row),
         inst' = [inst EXCEPT ![i] = x], rows' = rows, op' = op, asks' = asks,
         PoolShape', Chains'
  PROVE  DInv'
<1>1. /\ InstsShape' /\ Insts' /\ RowsKept /\ Rows' /\ RowsShape'
      /\ inst'[i] = x /\ \A j \in Instance \ {i} : inst'[j] = inst[j]
  BY InstMove
<1>2. OpsShape' /\ Targets' /\ Hands' /\ ClaimsApart'
  BY <1>1, OpsHold
<1>3. ASSUME NEW d \in Caller
      PROVE  /\ Starting(op[d]) => inst'[op[d].inst] = NoInst
             /\ Driving(op[d]) => inst'[op[d].inst] = NoInst \/ inst'[op[d].inst].row = op[d].row
  <2>1. Claim(op[d]) /\ (Starting(op[d]) \/ Driving(op[d]) => op[d].inst \in Instance)
    BY OpShapes DEF DInv, Claims, Bounded, Starting, Driving
  <2>. QED BY <1>1, <2>1 DEF Claim
<1>4. Claims'
  BY <1>3 DEF Claims, Claim, Starting, Driving
<1>. QED BY <1>1, <1>2, <1>4 DEF DInv, Shapes

LEMMA InstShapes ==
  ASSUME DInv, NEW i \in Instance, inst[i].status \in {"active", "suspended"}
  PROVE  inst[i] \in Instances /\ inst[i] # NoInst /\ Runs(inst[i])
BY DEF DInv, Shapes, InstsShape, Insts, NoInst

LEMMA PoolStays ==
  ASSUME DInv, rows' = rows, pool' = pool
  PROVE  PoolShape' /\ Chains'
BY SameRows, ChainsKept DEF DInv, Shapes, PoolShape, RowId

LEMMA SuspendKeeps ==
  ASSUME DInv, NEW i \in Instance, Suspend(i)
  PROVE  DInv'
<1>. DEFINE x == [inst[i] EXCEPT !.status = "suspended"]
<1>1. inst[i] \in Instances /\ inst[i] # NoInst /\ Runs(inst[i])
  BY InstShapes DEF Suspend
<1>2. x \in Instances /\ x.row = inst[i].row /\ Runs(x)
  BY <1>1 DEF Instances, Runs
<1>. QED BY <1>1, <1>2, InstStep, PoolStays DEF Suspend, tables

LEMMA ResumeKeeps ==
  ASSUME DInv, NEW i \in Instance, Resume(i)
  PROVE  DInv'
<1>. DEFINE x == [inst[i] EXCEPT !.status = "active"]
<1>1. inst[i] \in Instances /\ inst[i] # NoInst /\ Runs(inst[i])
  BY InstShapes DEF Resume
<1>2. x \in Instances /\ x.row = inst[i].row /\ Runs(x)
  BY <1>1 DEF Instances, Runs
<1>. QED BY <1>1, <1>2, InstStep, PoolStays DEF Resume, tables

LEMMA EndKeeps ==
  ASSUME DInv, NEW r \in Replica, NEW i \in Instance, End(r, i)
  PROVE  DInv'
<1>1. inst[i] # NoInst
  BY InstShapes DEF End
<1>2. NoInst \in Instances
  BY DEF NoInst, Instances
<1>3. inst' = [inst EXCEPT ![i] = NoInst] /\ rows' = rows /\ op' = op /\ asks' = asks
  BY DEF End, tables
<1>4. PoolShape' /\ Chains'
  <2>1. CASE pool' = pool
    BY <1>3, <2>1, PoolStays
  <2>2. CASE pool' = Dropped(r, {inst[i].row})
    <3>1. PoolShape' /\ \A q \in Replica, p \in RowId : pool'[q][p] \in {0, pool[q][p]}
      BY <2>2, DroppedPool DEF DInv, Shapes
    <3>. QED BY <1>3, <3>1, SameRows, FewerChains DEF DInv
  <2>. QED BY <2>1, <2>2 DEF End
<1>. QED BY <1>1, <1>2, <1>3, <1>4, InstStep

(* The instance a start creates: nobody else is about it, and the row has  *)
(* not been written since the start read it, or not in a way that counts.  *)
LEMMA CreateInstanceKeeps ==
  ASSUME DInv, NEW c \in Caller, CreateInstance(c)
  PROVE  DInv'
<1>. DEFINE i == op[c].inst
            x == [inst[i] EXCEPT !.status = "active", !.row = op[c].row, !.seen = op[c].seen]
<1>. SUFFICES ASSUME NEW o, o = [op[c] EXCEPT !.step = "drive", !.seen = 0]
              PROVE  DInv'
  OBVIOUS
<1>1. /\ op[c] \in Op /\ op[c].step = "create" /\ Starting(op[c])
      /\ i \in Instance /\ op[c].row \in RowId
  BY OpShapes DEF CreateInstance, Bounded, Starting
<1>2. Matches(op[c].row, op[c].content) /\ op[c].seen = 0
  BY <1>1, OpShapes DEF Hand
<1>3. inst[i] = NoInst
  BY <1>1 DEF DInv, Claims, Claim
<1>4. x \in Instances /\ Runs(x) /\ x.row = op[c].row
  <2>1. inst[i] \in Instances
    BY <1>1 DEF DInv, Shapes, InstsShape
  <2>2. x \in Instances
    <3>1. ASSUME NEW n \in RowId, NEW s \in Int, NEW y \in Instances
          PROVE  [y EXCEPT !.status = "active", !.row = n, !.seen = s] \in Instances
      BY DEF Instances
    <3>2. op[c].seen \in Int
      BY <1>2
    <3>. QED BY <1>1, <2>1, <3>1, <3>2
  <2>3. x.status = "active" /\ x.row = op[c].row /\ x.seen = 0 /\ x.driven = {}
    BY <1>2, <1>3, <2>1 DEF Instances, NoInst
  <2>. HIDE DEF x
  <2>. QED BY <1>2, <2>2, <2>3 DEF Runs, Matches
<1>5. inst' = [inst EXCEPT ![i] = x] /\ op' = [op EXCEPT ![c] = o]
  BY DEF CreateInstance
<1>6. rows' = rows /\ pool' = pool /\ asks' = asks
  BY DEF CreateInstance, tables
<1>7. /\ o \in Op /\ o.step = "drive" /\ o.row = op[c].row
      /\ o.inst = i /\ o.content = op[c].content
  BY <1>1 DEF Op, Steps
<1>8. \A d \in Caller \ {c} : Apart(op[c], op[d]) /\ Apart(op[d], op[c]) /\ Claim(op[d])
  BY DEF DInv, ClaimsApart, Claims
<1>. HIDE DEF x
<1>9. Driving(o) /\ ~Starting(o) /\ Bounded(o) /\ Hand(o)
  BY <1>1, <1>2, <1>7 DEF Driving, Starting, Bounded, Hand
<1>10. Alone(c, o)
  BY <1>1, <1>7, <1>8, <1>9 DEF Alone, Apart
<1>11. /\ InstsShape' /\ Insts' /\ RowsKept /\ Rows' /\ RowsShape'
       /\ inst'[i] = x /\ \A j \in Instance \ {i} : inst'[j] = inst[j]
  BY <1>1, <1>4, <1>5, <1>6, InstMove
<1>12. Hand(o)'
  BY <1>9, <1>11, HandKept DEF Hand
<1>13. /\ OpsShape' /\ Targets' /\ Hands' /\ ClaimsApart'
       /\ op'[c] = o /\ \A d \in Caller \ {c} : op'[d] = op[d]
  BY <1>5, <1>7, <1>9, <1>10, <1>11, <1>12, OpsMove
<1>14. Claims'
  <2>1. ASSUME NEW d \in Caller, NEW e, e = op'[d]
        PROVE  /\ Starting(e) => inst'[e.inst] = NoInst
               /\ Driving(e) => inst'[e.inst] = NoInst \/ inst'[e.inst].row = e.row
    <3>1. CASE d = c
      <4>1. e = o
        BY <1>13, <2>1, <3>1
      <4>. QED BY <1>4, <1>7, <1>9, <1>11, <4>1
    <3>2. CASE d # c
      <4>1. e = op[d] /\ Claim(e) /\ Apart(op[c], e) /\ Bounded(e)
        BY <1>8, <1>13, <2>1, <3>2, OpShapes
      <4>2. Starting(e) \/ Driving(e) => e.inst \in Instance \ {i}
        BY <1>1, <4>1 DEF Apart, Bounded, Starting, Driving
      <4>. QED BY <1>11, <4>1, <4>2 DEF Claim
    <3>. QED BY <3>1, <3>2
  <2>2. ASSUME NEW d \in Caller PROVE Claim(op[d])'
    BY <2>1 DEF Claim, Starting, Driving
  <2>. QED BY <2>2 DEF Claims
<1>. QED BY <1>6, <1>11, <1>13, <1>14, PoolStays DEF DInv, Shapes

(* A drive leaves its content on the instance if that still runs.          *)
LEMMA DriveKeeps ==
  ASSUME DInv, NEW c \in Caller, Drive(c)
  PROVE  DInv'
<1>. DEFINE i == op[c].inst
<1>1. /\ op[c] \in Op /\ op[c].step = "drive" /\ Driving(op[c])
      /\ i \in Instance /\ op[c].row \in RowId /\ Matches(op[c].row, op[c].content)
  BY OpShapes DEF Drive, Bounded, Driving, Hand
<1>2. Claim(op[c])
  BY DEF DInv, Claims
<1>3. Done(c) /\ rows' = rows /\ pool' = pool /\ asks' = asks
  BY DEF Drive, tables
<1>4. PoolShape' /\ Chains'
  BY <1>3, PoolStays
<1>5. CASE inst[i].status # "active"
  BY <1>3, <1>4, <1>5, DoneKeeps DEF Drive
<1>6. CASE inst[i].status = "active"
  <2>. DEFINE x == [inst[i] EXCEPT !.driven = @ \cup {op[c].content}]
  <2>1. inst[i] \in Instances /\ inst[i] # NoInst /\ Runs(inst[i])
    BY <1>1, <1>6, InstShapes
  <2>2. inst[i].row = op[c].row /\ op[c].content \in Nat
    BY <1>1, <1>2, <2>1 DEF Claim, Op
  <2>3. x \in Instances /\ x.row = inst[i].row /\ Runs(x)
    BY <1>1, <2>1, <2>2 DEF Instances, Runs
  <2>4. inst' = [inst EXCEPT ![i] = x]
    BY <1>6 DEF Drive
  <2>. HIDE DEF x
  <2>5. Idle \in Op /\ Quiet(Idle) /\ Bounded(Idle)
    BY IdleShape DEF Idle, Quiet, Bounded
  <2>6. Fits(c, Idle) /\ Hand(Idle)'
    BY <2>5, QuietFits
  <2>7. /\ InstsShape' /\ Insts' /\ RowsKept /\ Rows' /\ RowsShape'
        /\ inst'[i] = x /\ \A j \in Instance \ {i} : inst'[j] = inst[j]
    BY <1>1, <1>3, <2>3, <2>4, InstMove
  <2>8. /\ OpsShape' /\ Targets' /\ Hands' /\ ClaimsApart'
        /\ op'[c] = Idle /\ \A d \in Caller \ {c} : op'[d] = op[d]
    BY <1>3, <2>5, <2>6, <2>7, OpsMove DEF Done, Fits
  <2>9. Claims'
    <3>1. ASSUME NEW d \in Caller, NEW e, e = op'[d]
          PROVE  /\ Starting(e) => inst'[e.inst] = NoInst
                 /\ Driving(e) => inst'[e.inst] = NoInst \/ inst'[e.inst].row = e.row
      <4>1. CASE d = c
        BY <2>8, <3>1, <4>1 DEF Starting, Driving, Idle
      <4>2. CASE d # c
        <5>1. e = op[d] /\ Claim(e) /\ Bounded(e)
          BY <2>8, <3>1, <4>2, OpShapes DEF DInv, Claims
        <5>2. Starting(e) \/ Driving(e) => e.inst \in Instance
          BY <5>1 DEF Bounded, Starting, Driving
        <5>. QED BY <2>1, <2>3, <2>7, <5>1, <5>2 DEF Claim
      <4>. QED BY <4>1, <4>2
    <3>2. ASSUME NEW d \in Caller PROVE Claim(op[d])'
      BY <3>1 DEF Claim, Starting, Driving
    <3>. QED BY <3>2 DEF Claims
  <2>. QED BY <1>3, <1>4, <2>7, <2>8, <2>9 DEF DInv, Shapes
<1>. QED BY <1>5, <1>6

-----------------------------------------------------------------------------
(* Steps that write rows.                                                  *)
LEMMA RowsStep ==
  ASSUME DInv, NEW c \in Caller, NEW o, op' = [op EXCEPT ![c] = o], Fits(c, o), Hand(o)',
         RowsShape', Rows', RowsKept, pool' = pool, inst' = inst, asks' = asks
  PROVE  DInv'
<1>1. OpsShape' /\ Targets' /\ Hands' /\ Claims' /\ ClaimsApart' /\ InstsShape' /\ Insts'
  BY OpsStep
<1>2. Chains' /\ PoolShape'
  BY ChainsKept DEF DInv, Shapes, PoolShape, RowId
<1>. QED BY <1>1, <1>2 DEF DInv, Shapes

LEMMA QuietWrite ==
  ASSUME DInv, NEW c \in Caller, NEW o, op' = [op EXCEPT ![c] = o], Quiet(o), o \in Op, Bounded(o),
         RowsShape', Rows', RowsKept, pool' = pool, inst' = inst, asks' = asks
  PROVE  DInv'
BY QuietFits, RowsStep

(* A row written over is not active afterwards, and known to be written.   *)
LEMMA Overwritten ==
  ASSUME DInv, NEW p \in RowId, NEW row, row \in Row, row.writes > 0, row.status # "active",
         Exists(p), rows' = [rows EXCEPT ![p] = row]
  PROVE  RowsShape' /\ Rows' /\ RowsKept
<1>1. RowsShape' /\ rows'[p] = row /\ \A q \in RowId \ {p} : rows'[q] = rows[q]
  BY OneRow DEF DInv, Shapes
<1>2. Filled' = Filled
  <2>1. p \in Filled /\ p \in Filled'
    BY <1>1 DEF Filled, RowId
  <2>2. \A q \in RowId \ {p} : q \in Filled' <=> q \in Filled
    BY <1>1 DEF Filled, Exists, RowId
  <2>. QED BY <2>1, <2>2 DEF Filled, RowId
<1>3. RowsKept
  <2>1. ASSUME NEW q \in RowId, q \in Filled, rows'[q].writes = 0
        PROVE  rows[q].writes = 0 /\ rows'[q].content = rows[q].content
    BY <1>1, <2>1
  <2>2. \A q \in RowId : rows'[q].status = "active" => rows[q].status = "active"
    BY <1>1
  <2>. QED BY <1>2, <2>1, <2>2 DEF RowsKept, RowKept, Filled
<1>4. \A q \in RowId : rows'[q].status = "active" => q # p /\ rows'[q] = rows[q]
  BY <1>1
<1>5. Contiguous' /\ ActiveUnwritten' /\ ActiveTogether'
  <2>1. Contiguous'
    BY <1>2 DEF DInv, Rows, Contiguous
  <2>2. ActiveUnwritten'
    BY <1>4 DEF DInv, Rows, ActiveUnwritten, Active, RowId
  <2>3. ActiveTogether'
    BY <1>4 DEF DInv, Rows, ActiveTogether, Active, RowId
  <2>. QED BY <2>1, <2>2, <2>3
<1>. QED BY <1>1, <1>3, <1>5 DEF Rows

LEMMA RewrittenRow ==
  ASSUME DInv, NEW p \in RowId, NEW row, row \in Row, row.status # "active",
         Exists(p), Rewritten(p, row)
  PROVE  RowsShape' /\ Rows' /\ RowsKept
<1>. DEFINE new == [row EXCEPT !.writes = rows[p].writes + 1]
<1>1. rows[p].writes \in Nat
  BY RowShapes DEF Row
<1>2. new \in Row /\ new.writes > 0 /\ new.status # "active"
  BY <1>1 DEF Row
<1>3. rows' = [rows EXCEPT ![p] = new]
  BY DEF Rewritten
<1>. QED BY <1>2, <1>3, Overwritten

LEMMA SameRowsStay ==
  ASSUME DInv, rows' = rows
  PROVE  RowsShape' /\ Rows' /\ RowsKept
BY SameRows, RowsStay DEF DInv, Shapes

LEMMA UpdateWriteKeeps ==
  ASSUME DInv, NEW c \in Caller, UpdateWrite(c)
  PROVE  DInv'
<1>. DEFINE p == op[c].row
<1>1. op[c] \in Op /\ op[c].step = "write" /\ p \in RowId
  BY OpShapes DEF UpdateWrite, Bounded
<1>2. pool' = pool /\ inst' = inst /\ asks' = asks
  BY DEF UpdateWrite
<1>3. Idle \in Op /\ Quiet(Idle) /\ Bounded(Idle)
  BY IdleShape DEF Idle, Quiet, Bounded
<1>4. CASE Done(c) /\ UNCHANGED tables
  BY <1>2, <1>3, <1>4, SameRowsStay, QuietWrite DEF Done, tables
<1>5. CASE UNCHANGED tables /\ op' = [op EXCEPT ![c].step = "version", ![c].tries = @ + 1]
  <2>. SUFFICES ASSUME NEW n, n = op[c].tries + 1 PROVE DInv'
    OBVIOUS
  <2>. DEFINE o == [op[c] EXCEPT !.step = "version", !.tries = n]
  <2>1. o \in Op
    <3>1. n \in Nat
      BY <1>1 DEF Op
    <3>. QED BY <1>1, <3>1 DEF Op, Steps
  <2>2. o.step = "version" /\ o.row = p
    BY <1>1 DEF Op
  <2>3. Quiet(o) /\ Bounded(o)
    BY <1>1, <2>2 DEF Quiet, Bounded
  <2>4. op' = [op EXCEPT ![c] = o]
    BY <1>5
  <2>. QED BY <1>2, <1>5, <2>1, <2>3, <2>4, SameRowsStay, QuietWrite DEF tables
<1>6. CASE /\ Exists(p)
           /\ Rewritten(p, [version |-> op[c].version, status |-> UpdatedStatus(op[c].was),
                            content |-> op[c].content, writes |-> 0, knew |-> 0])
           /\ op' = [op EXCEPT ![c] = [Idle EXCEPT !.step = "invalidate", !.row = p]]
  <2>. DEFINE o == [Idle EXCEPT !.step = "invalidate", !.row = p]
              row == [version |-> op[c].version, status |-> UpdatedStatus(op[c].was),
                      content |-> op[c].content, writes |-> 0, knew |-> 0]
  <2>1. o \in Op /\ Quiet(o) /\ Bounded(o)
    BY <1>1, IdleShape DEF Op, Steps, Idle, Quiet, Bounded
  <2>2. UpdatedStatus(op[c].was) \in {"none", "draft", "retired"}
    BY <1>1 DEF Op, Row, UpdatedStatus
  <2>3. row \in Row /\ row.status # "active"
    BY <1>1, <2>2 DEF Op, Row
  <2>4. RowsShape' /\ Rows' /\ RowsKept
    BY <1>1, <1>6, <2>3, RewrittenRow
  <2>. QED BY <1>2, <1>6, <2>1, <2>4, QuietWrite
<1>. QED BY <1>4, <1>5, <1>6 DEF UpdateWrite

LEMMA StatusWriteKeeps ==
  ASSUME DInv, NEW c \in Caller, StatusWrite(c)
  PROVE  DInv'
<1>. DEFINE p == op[c].row
            row == [op[c].was EXCEPT !.status = "retired"]
<1>1. op[c] \in Op /\ p \in RowId
  BY OpShapes DEF StatusWrite, Bounded
<1>2. pool' = pool /\ inst' = inst /\ asks' = asks /\ Done(c)
  BY DEF StatusWrite
<1>3. Idle \in Op /\ Quiet(Idle) /\ Bounded(Idle)
  BY IdleShape DEF Idle, Quiet, Bounded
<1>4. row \in Row /\ row.status # "active"
  BY <1>1 DEF Op, Row
<1>5. RowsShape' /\ Rows' /\ RowsKept
  <2>1. CASE UNCHANGED tables
    BY <2>1, SameRowsStay DEF tables
  <2>2. CASE Exists(p) /\ Rewritten(p, row)
    BY <1>1, <1>4, <2>2, RewrittenRow
  <2>. QED BY <2>1, <2>2 DEF StatusWrite
<1>. QED BY <1>2, <1>3, <1>5, QuietWrite DEF Done

LEMMA DeleteRowKeeps ==
  ASSUME DInv, NEW c \in Caller, DeleteRow(c)
  PROVE  DInv'
<1>. DEFINE p == op[c].row
<1>1. op[c] \in Op /\ op[c].step = "delete" /\ p \in RowId
  BY OpShapes DEF DeleteRow, Bounded
<1>2. pool' = pool /\ inst' = inst /\ asks' = asks
  BY DEF DeleteRow
<1>3. CASE Exists(p)
  <2>. DEFINE row == [NoRow EXCEPT !.writes = rows[p].writes + 1]
              o == [op[c] EXCEPT !.step = "invalidate"]
  <2>1. rows[p].writes \in Nat
    BY <1>1, RowShapes DEF Row
  <2>2. row \in Row /\ row.writes > 0 /\ row.status # "active"
    BY <2>1, NoRowShape DEF Row, NoRow
  <2>3. rows' = [rows EXCEPT ![p] = row] /\ op' = [op EXCEPT ![c] = o]
    BY <1>3 DEF DeleteRow, Goto
  <2>4. o \in Op /\ Quiet(o) /\ Bounded(o)
    BY <1>1 DEF Op, Steps, Quiet, Bounded
  <2>5. RowsShape' /\ Rows' /\ RowsKept
    BY <1>1, <1>3, <2>2, <2>3, Overwritten
  <2>. QED BY <1>2, <2>3, <2>4, <2>5, QuietWrite
<1>4. CASE ~Exists(p)
  <2>1. Idle \in Op /\ Quiet(Idle) /\ Bounded(Idle)
    BY IdleShape DEF Idle, Quiet, Bounded
  <2>. QED BY <1>2, <1>4, <2>1, SameRowsStay, QuietWrite DEF DeleteRow, Done, tables
<1>. QED BY <1>3, <1>4

LEMMA BornNat ==
  ASSUME DInv
  PROVE  Born \in Nat /\ Filled = 1 .. Born
<1>1. PICK k \in 0 .. MaxRow : Filled = 1 .. k
  BY DEF DInv, Rows, Contiguous
<1>2. k \in Nat
  BY <1>1
<1>3. Cardinality(1 .. k) = k
  <2>1. 1 \in Int /\ k \in Int
    BY <1>2
  <2>2. Cardinality(1 .. k) = IF 1 > k THEN 0 ELSE k - 1 + 1
    BY <2>1, FS_Interval, Zenon
  <2>. QED BY <1>2, <2>2
<1>. QED BY <1>1, <1>2, <1>3 DEF Born

(* The transaction of a new version has seen what is committed by now.     *)
LEMMA CreateInsertKeeps ==
  ASSUME DInv, NEW c \in Caller, CreateInsert(c)
  PROVE  DInv'
<1>1. op[c] \in Op /\ op[c].step = "insert" /\ op[c].to \in {"active", "draft"}
  BY OpShapes DEF CreateInsert, Bounded
<1>2. rows' = rows /\ pool' = pool /\ inst' = inst /\ asks' = asks
  BY DEF CreateInsert, tables
<1>3. Idle \in Op /\ Quiet(Idle) /\ Bounded(Idle)
  BY IdleShape DEF Idle, Quiet, Bounded
<1>4. CASE Done(c)
  BY <1>2, <1>3, <1>4, QuietStep DEF Done, DInv, Shapes
<1>5. CASE ~Done(c)
  <2>. SUFFICES ASSUME NEW row, row = [version |-> op[c].version, status |-> op[c].to,
                                       content |-> op[c].content, writes |-> 0, knew |-> Born],
                       NEW ps, ps = (IF row.status = "active" THEN Actives ELSE {})
                PROVE  DInv'
    OBVIOUS
  <2>. DEFINE o == [Idle EXCEPT !.step = "commit", !.was = row, !.prev = op[c].prev, !.retires = ps]
  <2>1. op' = [op EXCEPT ![c] = o]
    BY <1>5 DEF CreateInsert
  <2>2. row \in Row /\ row.writes = 0 /\ row.status \in {"active", "draft"} /\ row.knew = Born
    BY <1>1, BornNat DEF Op, Row
  <2>3. ps \in SUBSET RowId
    BY DEF Actives
  <2>4. o \in Op
    <3>1. op[c].prev \in RowId \cup {0}
      BY <1>1 DEF Op
    <3>2. "commit" \in Steps
      BY DEF Steps
    <3>. QED BY <2>2, <2>3, <3>1, <3>2, IdleShape DEF Op
  <2>5. o.step = "commit" /\ o.was = row /\ o.retires = ps
    BY DEF Idle
  <2>. HIDE DEF o
  <2>6. \A p \in RowId : p <= Born => p \in Filled
    BY BornNat DEF RowId
  <2>7. row.status = "active" => \A p \in RowId : rows[p].status = "active" => p \in ps
    BY DEF Actives
  <2>8. Hand(o)
    BY <2>2, <2>5, <2>6, <2>7 DEF Hand, Retiring
  <2>9. Fits(c, o)
    BY <2>4, <2>5 DEF Fits, Bounded, Claim, Alone, Apart, Starting, Driving
  <2>. QED BY <1>2, <2>1, <2>8, <2>9, OpStep DEF DInv, Shapes
<1>. QED BY <1>4, <1>5

LEMMA CreateRollbackKeeps ==
  ASSUME DInv, NEW c \in Caller, CreateRollback(c)
  PROVE  DInv'
<1>1. Idle \in Op /\ Quiet(Idle) /\ Bounded(Idle)
  BY IdleShape DEF Idle, Quiet, Bounded
<1>. QED BY <1>1, QuietStep DEF CreateRollback, Done, tables, DInv, Shapes

(* The new version takes a row nobody has used, and of the active ones     *)
(* those stay that were committed after its transaction had looked.        *)
LEMMA CommittedRows ==
  ASSUME DInv, NEW new, new = Born + 1, new \in RowId, NEW row, row \in Row, row.writes = 0,
         row.status \in {"active", "draft"}, NEW ps,
         \A p \in RowId : p <= row.knew /\ row.status = "active" /\ Active(p) => p \in ps,
         rows' = [p \in RowId |-> CASE p = new -> row
                                    [] p # new /\ p \in ps -> Retired(rows[p])
                                    [] OTHER -> rows[p]]
  PROVE  RowsShape' /\ Rows' /\ RowsKept /\ Matches(new, row.content)'
<1>1. PICK k \in Nat : k = Born /\ Filled = 1 .. k
  BY BornNat

<1>2. Born = k
  BY <1>1
<1>3. new = k + 1 /\ new \notin Filled
  BY <1>1, <1>2
<1>4. /\ rows'[new] = row
      /\ \A q \in RowId \ {new} :
           rows'[q] = IF q \in ps THEN Retired(rows[q]) ELSE rows[q]
  OBVIOUS
<1>5. \A q \in RowId :
        /\ Retired(rows[q]) \in Row /\ Retired(rows[q]).status # "active"
        /\ Retired(rows[q]).content = rows[q].content
        /\ Retired(rows[q]).writes = rows[q].writes
        /\ Retired(rows[q]).status = "none" <=> rows[q].status = "none"
  BY RowShapes DEF Retired, Row
<1>. HIDE DEF Retired
<1>6. \A q \in RowId \ {new} :
        /\ rows'[q] \in Row
        /\ rows'[q].content = rows[q].content /\ rows'[q].writes = rows[q].writes
        /\ rows'[q].status = "none" <=> rows[q].status = "none"
        /\ rows'[q].status = "active" => q \notin ps /\ rows'[q] = rows[q]
  BY <1>4, <1>5, RowShapes
<1>7. RowsShape'
  <2>1. rows' = [q \in RowId |-> rows'[q]]
    OBVIOUS
  <2>2. \A q \in RowId : rows'[q] \in Row
    BY <1>4, <1>6
  <2>. QED BY <2>1, <2>2 DEF RowsShape, RowId
<1>8. Filled' = 1 .. (k + 1)
  <2>1. \A q \in RowId : q \in Filled' <=> q = new \/ q \in Filled
    BY <1>3, <1>4, <1>6 DEF Filled, Exists, RowId
  <2>2. Filled' \subseteq RowId
    BY DEF Filled, RowId
  <2>3. ASSUME NEW q \in RowId PROVE q \in Filled' <=> q \in 1 .. (k + 1)
    <3>1. q \in Filled <=> q \in 1 .. k
      BY <1>1
    <3>. QED BY <1>3, <2>1, <2>3, <3>1 DEF RowId
  <2>4. 1 .. (k + 1) \subseteq RowId
    BY <1>3 DEF RowId
  <2>. QED BY <2>2, <2>3, <2>4
<1>9. RowsKept
  <2>1. ASSUME NEW q \in Filled PROVE q \in Filled' /\ q \in RowId \ {new}
    <3>1. q \in 1 .. k /\ q \in RowId
      BY <1>1 DEF Filled
    <3>. QED BY <1>3, <1>8, <3>1
  <2>. QED BY <1>6, <2>1 DEF RowsKept, RowKept
<1>10. Contiguous'
  <2>1. k + 1 \in 0 .. MaxRow
    BY <1>3 DEF RowId
  <2>. QED BY <1>8, <2>1 DEF Contiguous
<1>11. ActiveUnwritten'
  <2>1. ASSUME NEW q \in RowId, rows'[q].status = "active" PROVE rows'[q].writes = 0
    <3>1. CASE q = new
      BY <1>4, <3>1
    <3>2. CASE q # new
      BY <1>6, <2>1, <3>2 DEF DInv, Rows, ActiveUnwritten, Active
    <3>. QED BY <3>1, <3>2
  <2>. QED BY <2>1 DEF ActiveUnwritten, Active, RowId
<1>12. ActiveTogether'
  <2>1. ASSUME NEW p \in RowId, NEW q \in RowId, p < q,
               rows'[p].status = "active", rows'[q].status = "active"
        PROVE  rows'[q].knew < p
    <3>1. CASE q = new
      <4>1. p # new /\ p \notin ps /\ rows[p].status = "active"
        BY <1>6, <2>1, <3>1 DEF RowId
      <4>2. ~(p <= row.knew)
        BY <1>4, <2>1, <3>1, <4>1 DEF Active
      <4>. QED BY <1>4, <3>1, <4>2 DEF Row, RowId
    <3>2. CASE q # new
      <4>1. rows'[q] = rows[q] /\ rows[q].status = "active"
        BY <1>6, <2>1, <3>2
      <4>2. q \in Filled
        BY <4>1 DEF Filled, Exists
      <4>3. p # new
        BY <1>1, <1>3, <2>1, <4>2 DEF RowId
      <4>. QED BY <1>6, <2>1, <4>1, <4>3 DEF DInv, Rows, ActiveTogether, Active
    <3>. QED BY <3>1, <3>2
  <2>. QED BY <2>1 DEF ActiveTogether, Active, RowId
<1>13. Matches(new, row.content)'
  <2>1. new \in Filled'
    BY <1>3, <1>8, <1>2, <1>1
  <2>. QED BY <1>4, <2>1 DEF Matches
<1>. QED BY <1>7, <1>9, <1>10, <1>11, <1>12, <1>13 DEF Rows

LEMMA CreateCommitKeeps ==
  ASSUME DInv, NEW c \in Caller, CreateCommit(c)
  PROVE  DInv'
<1>. SUFFICES ASSUME NEW new, new = Born + 1, NEW row, row = op[c].was
              PROVE  DInv'
  OBVIOUS
<1>1. op[c] \in Op /\ op[c].step = "commit" /\ Retiring(op[c])
  BY OpShapes DEF CreateCommit, Hand
<1>2. pool' = pool /\ inst' = inst /\ asks' = asks
  BY DEF CreateCommit
<1>3. Idle \in Op /\ Quiet(Idle) /\ Bounded(Idle)
  BY IdleShape DEF Idle, Quiet, Bounded
<1>4. /\ new \in RowId
      /\ rows' = [p \in RowId |-> CASE p = new -> row
                                    [] p # new /\ p \in op[c].retires -> Retired(rows[p])
                                    [] OTHER -> rows[p]]
      /\ IF row.status = "active"
           THEN op' = [op EXCEPT ![c] = [Idle EXCEPT !.step = "preload", !.row = new,
                                                    !.was = row, !.prev = op[c].prev]]
           ELSE Done(c)
  BY DEF CreateCommit
<1>5. row \in Row /\ row.writes = 0 /\ row.status \in {"active", "draft"}
  BY <1>1 DEF Op, Retiring
<1>6. \A p \in RowId : p <= row.knew /\ row.status = "active" /\ Active(p) => p \in op[c].retires
  BY <1>1 DEF Retiring, Active
<1>7. RowsShape' /\ Rows' /\ RowsKept /\ Matches(new, row.content)'
  BY <1>4, <1>5, <1>6, CommittedRows
<1>8. CASE Done(c)
  BY <1>2, <1>3, <1>7, <1>8, QuietWrite DEF Done
<1>9. CASE op' = [op EXCEPT ![c] = [Idle EXCEPT !.step = "preload", !.row = new,
                                               !.was = row, !.prev = op[c].prev]]
  <2>. SUFFICES ASSUME NEW o, o = [Idle EXCEPT !.step = "preload", !.row = new,
                                               !.was = row, !.prev = op[c].prev]
                PROVE  DInv'
    OBVIOUS
  <2>1. o \in Op
    <3>1. op[c].prev \in RowId \cup {0}
      BY <1>1 DEF Op
    <3>2. "preload" \in Steps
      BY DEF Steps
    <3>. QED BY <1>4, <1>5, <3>1, <3>2, IdleShape DEF Op
  <2>2. o.step = "preload" /\ o.row = new /\ o.was = row
    BY DEF Idle
  <2>3. Fits(c, o)
    BY <1>4, <2>1, <2>2 DEF Fits, Bounded, Claim, Alone, Apart, Starting, Driving
  <2>4. Hand(o)'
    BY <1>7, <2>2 DEF Hand
  <2>. QED BY <1>2, <1>7, <1>9, <2>3, <2>4, RowsStep
<1>. QED BY <1>4, <1>8, <1>9

-----------------------------------------------------------------------------
(* The invariant and the properties.                                       *)
LEMMA InitInv == Init => DInv
<1>. SUFFICES ASSUME Init PROVE DInv
  OBVIOUS
<1>1. Shapes /\ Targets
  BY InitShapes
<1>2. Filled = 1 .. 1
  BY DEF Init, Filled, Exists, NoRow, RowId
<1>3. Rows
  BY <1>2 DEF Init, Rows, Contiguous, ActiveUnwritten, ActiveTogether, Active, NoRow, RowId
<1>4. Chains /\ Insts
  BY DEF Init, Chains, Insts
<1>5. Hands /\ Claims /\ ClaimsApart
  <2>1. \A c \in Caller : op[c].step \in {"idle", "delete"}
    <3>1. Idle.step = "idle" /\ [Idle EXCEPT !.step = "delete", !.row = 1].step = "delete"
      BY DEF Idle
    <3>. QED BY <3>1 DEF Init, AboutToDelete
  <2>. QED BY <2>1 DEF Hands, Hand, Claims, Claim, ClaimsApart, Apart, Starting, Driving
<1>. QED BY <1>1, <1>3, <1>4, <1>5 DEF DInv

LEMMA StayKeeps == DInv /\ UNCHANGED vars => DInv'
<1>. SUFFICES ASSUME DInv, UNCHANGED vars PROVE DInv'
  OBVIOUS
<1>1. UNCHANGED <<rows, pool, inst, op, asks>>
  BY DEF vars
<1>2. RowsKept /\ Rows' /\ RowsShape'
  BY <1>1, SameRowsStay
<1>3. OpsShape' /\ Targets' /\ Hands' /\ ClaimsApart'
  BY <1>1, <1>2, OpsHold
<1>4. InstsShape' /\ Insts'
  BY <1>1, <1>2, InstsStay, InstsKept DEF DInv, Shapes
<1>5. Claims'
  BY <1>1 DEF DInv, Claims, Claim, Starting, Driving
<1>6. PoolShape' /\ Chains'
  BY <1>1, PoolStays
<1>. QED BY <1>1, <1>2, <1>3, <1>4, <1>5, <1>6 DEF DInv, Shapes

LEMMA StepInv == DInv /\ [Next]_vars => DInv'
<1>. SUFFICES ASSUME DInv, Next PROVE DInv'
  BY StayKeeps
<1>1. ASSUME NEW c \in Caller, Request(c) PROVE DInv'
  <2>1. ASSUME NEW s \in {"active", "draft"}, Deploy(c, s) PROVE DInv'
    BY <2>1, DeployKeeps
  <2>2. ASSUME NEW p \in RowId, UpdateLook(c, p) \/ Activate(c, p) \/ StatusLook(c, p) \/ DeleteLook(c, p)
        PROVE  DInv'
    BY <2>2, UpdateLookKeeps, ActivateKeeps, StatusLookKeeps, DeleteLookKeeps
  <2>3. ASSUME NEW p \in RowId, NEW i \in Instance, StartLook(c, p, i) PROVE DInv'
    BY <2>3, StartLookKeeps
  <2>4. ASSUME NEW i \in Instance, GetExecution(c, i) PROVE DInv'
    BY <2>4, GetExecutionKeeps
  <2>. QED BY <1>1, <2>1, <2>2, <2>3, <2>4 DEF Request
<1>2. ASSUME NEW c \in Caller, Step(c) PROVE DInv'
  <2>1. CASE UpdateVersion(c) \/ UpdateWrite(c) \/ Invalidate(c)
    BY <2>1, UpdateVersionKeeps, UpdateWriteKeeps, InvalidateKeeps
  <2>2. CASE CreateLook(c) \/ CreateInsert(c) \/ CreateCommit(c) \/ CreateRollback(c) \/ Preload(c)
    BY <2>2, CreateLookKeeps, CreateInsertKeeps, CreateCommitKeeps, CreateRollbackKeeps, PreloadKeeps
  <2>3. CASE StatusWrite(c) \/ DeleteRow(c)
    BY <2>3, StatusWriteKeeps, DeleteRowKeeps
  <2>4. CASE LoadChain(c) \/ CreateInstance(c) \/ Drive(c)
    BY <2>4, LoadChainKeeps, CreateInstanceKeeps, DriveKeeps
  <2>. QED BY <1>2, <2>1, <2>2, <2>3, <2>4 DEF Step
<1>3. ASSUME NEW i \in Instance, Suspend(i) \/ Resume(i) PROVE DInv'
  BY <1>3, SuspendKeeps, ResumeKeeps
<1>4. ASSUME NEW r \in Replica, NEW i \in Instance, End(r, i) PROVE DInv'
  BY <1>4, EndKeeps
<1>5. ASSUME NEW r \in Replica, NEW p \in RowId, Deliver(r, p) PROVE DInv'
  BY <1>5, DeliverKeeps
<1>6. ASSUME NEW r \in Replica, Patrol(r) PROVE DInv'
  BY <1>6, PatrolKeeps
<1>. QED BY <1>1, <1>2, <1>3, <1>4, <1>5, <1>6 DEF Next

LEMMA Invariant == Spec => []DInv
BY InitInv, StepInv, PTL DEF Spec

(* However deploys, updates, status changes and deletions of a family      *)
(* overlap, of two active versions the one committed later had looked for  *)
(* others to retire before the earlier was committed.                      *)
THEOREM ActiveOnlyTogether == Spec => []ActiveTogether
<1>1. DInv => ActiveTogether
  BY DEF DInv, Rows
<1>. QED BY <1>1, Invariant, PTL

(* The content an instance was started from drives it for life on every    *)
(* replica unless its row was written after the start had read it,         *)
(* whatever broadcasts and patrols come or fail to come.                   *)
THEOREM ChainStays == Spec => []OneTopology
<1>1. DInv => OneTopology
  <2>. SUFFICES ASSUME DInv, NEW i \in Instance, inst[i].seen >= 0,
                       rows[inst[i].row].writes = inst[i].seen
                PROVE  inst[i].driven \subseteq {rows[inst[i].row].content}
    BY DEF OneTopology
  <2>1. inst[i] # NoInst
    BY DEF NoInst
  <2>2. Runs(inst[i])
    BY <2>1 DEF DInv, Insts
  <2>. QED BY <2>2 DEF Runs, Matches
<1>. QED BY <1>1, Invariant, PTL
=============================================================================
