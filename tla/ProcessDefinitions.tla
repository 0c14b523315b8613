------------------------- MODULE ProcessDefinitions -------------------------
(***************************************************************************)
(* One family of process definitions (one tenant, one process key), the    *)
(* chains each replica keeps loaded for them, and the instances that run   *)
(* on them: process_service_impl.go, runtime_enginepool.go and the ways    *)
(* runtime_service_impl.go takes a chain.                                  *)
(*                                                                         *)
(* A definition row keeps its id for life.  Its content is a number: every *)
(* Deploy and every Update brings one nobody has seen before.  A request   *)
(* runs on one replica and reads, writes and loads in separate steps, as   *)
(* the code does outside any lock.  The transaction that inserts a version *)
(* and retires the others is two: what it has written and what it has seen *)
(* at READ COMMITTED, and its commit.  rows holds what is committed,       *)
(* numbered in the order of the commits.                                   *)
(*                                                                         *)
(* writes, knew, seen and driven are history: how often a row was written  *)
(* after its insertion, how many rows were committed when the transaction  *)
(* that inserted it looked for others to retire, how often a row had been  *)
(* written when an instance's start read it, and the contents that drove   *)
(* the instance.  owes says at which replicas the host's patrol must still *)
(* look at a written row before the row drops out of its time window.      *)
(***************************************************************************)
EXTENDS Integers, FiniteSets, FiniteSetsExt

CONSTANTS Caller,        \* requests that run at a time
          Replica,
          Home,          \* the replica a caller runs on
          Instance,
          MaxRow,        \* rows ever inserted
          MaxAsk         \* requests of administrators

ASSUME HomeAssumption == Home \in [Caller -> Replica]
ASSUME BoundAssumption == MaxRow \in Nat \ {0} /\ MaxAsk \in Nat

VARIABLES rows, pool, sent, owes, inst, op, asks
vars == <<rows, pool, sent, owes, inst, op, asks>>
tables == <<rows, owes>>

RowId == 1 .. MaxRow
NoRow == [version |-> 0, status |-> "none", content |-> 0, writes |-> 0, knew |-> 0]
Idle == [step |-> "idle", row |-> 0, was |-> NoRow, to |-> "none",
         content |-> 0, version |-> 0, tries |-> 0, prev |-> 0,
         retires |-> {}, seen |-> 0, inst |-> 0]

NoInst == [status |-> "none", row |-> 0, seen |-> -1, driven |-> {}]

Exists(p) == rows[p].status # "none"
Stored == {p \in RowId : Exists(p)}
Filled == {p \in RowId : Exists(p) \/ rows[p].writes > 0}
Born == Cardinality(Filled)
Versions == {rows[p].version : p \in Stored}
TakenBy(v, p) == \E q \in Stored \ {p} : rows[q].version = v   \* uq_process_key_version

(* A row not yet committed keeps its version: whoever wants the same waits. *)
Reserved(v) == \E c \in Caller : op[c].step = "commit" /\ op[c].was.version = v

(* GetLatestByKey. *)
LatestVersion == IF Stored = {} THEN 0 ELSE Max(Versions)
IsLatest(p) == Exists(p) /\ rows[p].version = LatestVersion

Live(p) == {i \in Instance : inst[i].row = p /\ inst[i].status \in {"active", "suspended"}}

(* CountActiveByProcessID: suspended instances (and drafts) do not count. *)
CountActive(p) == Cardinality({i \in Live(p) : inst[i].status = "active"})

-----------------------------------------------------------------------------
(* The pools.  New leaves a chain that is already loaded alone.            *)
Loaded(r, p, content) == IF pool[r][p] # 0 THEN pool[r][p] ELSE content
LoadAt(r, p, content) == pool' = [pool EXCEPT ![r][p] = Loaded(r, p, content)]
Dropped(r, ps) == [pool EXCEPT ![r] = [p \in RowId |-> IF p \in ps THEN 0 ELSE @[p]]]

(* EvictStaleChain: a version that is neither the latest nor in use.       *)
Evictable(p) == Exists(p) /\ ~IsLatest(p) /\ CountActive(p) = 0

Goto(c, step) == op' = [op EXCEPT ![c].step = step]
(* An administrator's request; its number is the content it may bring. *)
Begin(c) == op[c] = Idle /\ asks < MaxAsk /\ asks' = asks + 1
Fresh == asks + 2
Done(c) == op' = [op EXCEPT ![c] = Idle]

(* A row written after its insertion: updated_at brings it into the        *)
(* patrol's window.                                                        *)
RewrittenUnstamped(p, row) ==                                          \* slip
  /\ rows' = [rows EXCEPT ![p] = [row EXCEPT !.writes = rows[p].writes + 1]]
  /\ owes' = owes
Rewritten(p, row) ==
  /\ rows' = [rows EXCEPT ![p] = [row EXCEPT !.writes = rows[p].writes + 1]]
  /\ owes' = [owes EXCEPT ![p] = Replica]

-----------------------------------------------------------------------------
(* Update: refused while an active instance runs on the row; then up to    *)
(* three attempts to write the row under a version above the family's.     *)
UpdateLook(c, p) ==
  /\ Begin(c) /\ Exists(p)
  /\ CountActive(p) = 0
  /\ op' = [op EXCEPT ![c] = [Idle EXCEPT !.step = "version", !.row = p, !.was = rows[p],
                                          !.content = Fresh]]
  /\ UNCHANGED <<tables, pool, sent, inst>>

UpdateVersion(c) ==
  /\ op[c].step = "version"
  /\ op' = [op EXCEPT ![c].step = "write",
                      ![c].version = Max({op[c].was.version, LatestVersion}) + 1]
  /\ UNCHANGED <<tables, pool, sent, inst, asks>>

UpdatedStatusKept(was) == was.status                                   \* slip
UpdatedStatus(was) == IF was.status = "active" THEN "retired" ELSE was.status

MaxUpdateAttempts == 3
UpdateWrite(c) ==
  LET p == op[c].row IN
  /\ op[c].step = "write" /\ ~Reserved(op[c].version)
  /\ \/ /\ ~Exists(p)
        /\ Done(c) /\ UNCHANGED tables
     \/ /\ Exists(p) /\ TakenBy(op[c].version, p)
        /\ IF op[c].tries + 1 = MaxUpdateAttempts
             THEN Done(c)
             ELSE op' = [op EXCEPT ![c].step = "version", ![c].tries = @ + 1]
        /\ UNCHANGED tables
     \/ /\ Exists(p) /\ ~TakenBy(op[c].version, p)
        /\ Rewritten(p, [version |-> op[c].version, status |-> UpdatedStatus(op[c].was),
                         content |-> op[c].content, writes |-> 0, knew |-> 0])
        /\ op' = [op EXCEPT ![c] = [Idle EXCEPT !.step = "invalidate", !.row = p]]
  /\ UNCHANGED <<pool, sent, inst, asks>>

(* InvalidateExecutionCache: this replica's pools at once, the others by   *)
(* the host's broadcast.                                                   *)
Invalidate(c) ==
  LET p == op[c].row
      r == Home[c] IN
  /\ op[c].step = "invalidate"
  /\ pool' = Dropped(r, {p})
  /\ sent' = sent \cup {p}
  /\ Done(c)
  /\ UNCHANGED <<tables, inst, asks>>

-----------------------------------------------------------------------------
(* Create and Deploy, and Activate, which deploys a stored content again.  *)
Ask(c, status, content) ==
  op' = [op EXCEPT ![c] = [Idle EXCEPT !.step = "latest", !.to = status, !.content = content]]

Deploy(c, status) ==
  /\ Begin(c)
  /\ Ask(c, status, Fresh)
  /\ UNCHANGED <<tables, pool, sent, inst>>

Activate(c, p) ==
  /\ Begin(c) /\ Exists(p)
  /\ Ask(c, "active", rows[p].content)
  /\ UNCHANGED <<tables, pool, sent, inst>>

CreateLook(c) ==
  /\ op[c].step = "latest"
  /\ op' = [op EXCEPT ![c].step = "insert", ![c].version = LatestVersion + 1,
                      ![c].prev = IF Stored = {} THEN 0 ELSE CHOOSE p \in Stored : IsLatest(p)]
  /\ UNCHANGED <<tables, pool, sent, inst, asks>>

(* The transaction takes no lock on the family.  Its insertion waits for   *)
(* another of the same version and fails on one that is committed; its     *)
(* update finds the active rows that are committed by now, and its own it  *)
(* leaves out.  It writes those that still are active when it commits.     *)
Actives == {p \in RowId : rows[p].status = "active"}

CreateInsert(c) ==
  LET row == [version |-> op[c].version, status |-> op[c].to,
              content |-> op[c].content, writes |-> 0, knew |-> Born] IN
  /\ op[c].step = "insert" /\ ~Reserved(op[c].version)
  /\ IF TakenBy(op[c].version, 0)
       THEN Done(c)
       ELSE op' = [op EXCEPT ![c] = [Idle EXCEPT !.step = "commit", !.was = row, !.prev = op[c].prev,
                                       !.retires = IF row.status = "active" THEN Actives ELSE {}]]
  /\ UNCHANGED <<tables, pool, sent, inst, asks>>

NotRetired(row) == row                                                 \* slip
Retired(row) == IF row.status = "active" THEN [row EXCEPT !.status = "retired"] ELSE row
CreateCommit(c) ==
  LET new == Born + 1
      row == op[c].was IN
  /\ op[c].step = "commit" /\ new \in RowId
  /\ rows' = [p \in RowId |-> CASE p = new -> row
                                [] p # new /\ p \in op[c].retires -> Retired(rows[p])
                                [] OTHER -> rows[p]]
  /\ IF row.status = "active"
       THEN op' = [op EXCEPT ![c] = [Idle EXCEPT !.step = "preload", !.row = new,
                                                !.was = row, !.prev = op[c].prev]]
       ELSE Done(c)
  /\ UNCHANGED <<owes, pool, sent, inst, asks>>

(* One of its statements fails, or the two wait for each other's rows.     *)
CreateRollback(c) ==
  /\ op[c].step = "commit"
  /\ Done(c)
  /\ UNCHANGED <<tables, pool, sent, inst, asks>>

(* PreloadChain on this replica, then EvictStaleChain of the version that  *)
(* was the latest.                                                         *)
Preload(c) ==
  LET r == Home[c]
      new == op[c].row
      old == {p \in {op[c].prev} \cap Stored : Evictable(p)} IN
  /\ op[c].step = "preload"
  /\ pool' = [pool EXCEPT ![r] = [p \in RowId |-> CASE p = new -> Loaded(r, new, op[c].was.content)
                                                    [] p \in old -> 0
                                                    [] OTHER -> @[p]]]
  /\ Done(c)
  /\ UNCHANGED <<tables, sent, inst, asks>>

-----------------------------------------------------------------------------
(* UpdateStatus, UpdateStatusByKey and Retire: the row that was read is    *)
(* written back whole, content and version included, and nothing is        *)
(* invalidated.  Any status may be asked for but active, which deploys; to *)
(* be a draft again is no different here from being retired.               *)
StatusLook(c, p) ==
  /\ Begin(c) /\ Exists(p)
  /\ op' = [op EXCEPT ![c] = [Idle EXCEPT !.step = "status", !.row = p, !.was = rows[p]]]
  /\ UNCHANGED <<tables, pool, sent, inst>>

StatusWrite(c) ==
  LET p == op[c].row IN
  /\ op[c].step = "status" /\ ~Reserved(op[c].was.version)
  /\ IF Exists(p) /\ ~TakenBy(op[c].was.version, p)
       THEN Rewritten(p, [op[c].was EXCEPT !.status = "retired"])
       ELSE UNCHANGED tables
  /\ Done(c)
  /\ UNCHANGED <<pool, sent, inst, asks>>

(* Delete: refused while any instance is in the live table.                *)
DeleteLook(c, p) ==
  /\ Begin(c) /\ Exists(p) /\ Live(p) = {}
  /\ op' = [op EXCEPT ![c] = [Idle EXCEPT !.step = "delete", !.row = p]]
  /\ UNCHANGED <<tables, pool, sent, inst>>

DeleteRow(c) ==
  LET p == op[c].row IN
  /\ op[c].step = "delete"
  /\ IF Exists(p)
       THEN /\ rows' = [rows EXCEPT ![p] = [NoRow EXCEPT !.writes = rows[p].writes + 1]]
            /\ owes' = [owes EXCEPT ![p] = {}]
            /\ Goto(c, "invalidate")
       ELSE UNCHANGED tables /\ Done(c)
  /\ UNCHANGED <<pool, sent, inst, asks>>

-----------------------------------------------------------------------------
(* Starting an instance.  By key the latest version is read first and then *)
(* the row by its id; only an active one may start.                        *)
Unused(i) == inst[i].status = "none" /\ \A c \in Caller : op[c].inst # i

StartLook(c, p, i) ==
  /\ op[c] = Idle /\ Unused(i)
  /\ rows[p].status = "active"
  /\ op' = [op EXCEPT ![c] = [Idle EXCEPT !.step = "load", !.row = p, !.was = rows[p], !.inst = i,
                                          !.to = "start"]]
  /\ UNCHANGED <<tables, pool, sent, inst, asks>>

(* initExecution; the chain it returns stays in the request's hand.  A     *)
(* drive that found no chain continues here as well.                       *)
LoadChain(c) ==
  LET r == Home[c]
      p == op[c].row IN
  /\ op[c].step = "load"
  /\ LoadAt(r, p, op[c].was.content)
  /\ LET held == [Idle EXCEPT !.row = p, !.inst = op[c].inst,
                              !.content = Loaded(r, p, op[c].was.content)] IN
     op' = [op EXCEPT ![c] =
              IF op[c].to = "start"
                THEN [held EXCEPT !.step = "create", !.seen = op[c].was.writes]
                ELSE [held EXCEPT !.step = "drive"]]
  /\ UNCHANGED <<tables, sent, inst, asks>>

CreateInstance(c) ==
  /\ op[c].step = "create"
  /\ inst' = [inst EXCEPT ![op[c].inst] = [@ EXCEPT !.status = "active", !.row = op[c].row,
                                                    !.seen = op[c].seen]]
  /\ op' = [op EXCEPT ![c].step = "drive", ![c].seen = 0]
  /\ UNCHANGED <<tables, pool, sent, asks>>

(* GetExecution for a drive: the loaded chain without a look at the        *)
(* database, or else the row.                                              *)
GetExecution(c, i) ==
  LET p == inst[i].row
      chain == pool[Home[c]][p] IN
  /\ op[c] = Idle /\ inst[i].status = "active"
  /\ \/ /\ chain # 0
        /\ op' = [op EXCEPT ![c] = [Idle EXCEPT !.step = "drive", !.row = p, !.content = chain,
                                                !.inst = i]]
     \/ /\ chain = 0 /\ Exists(p)
        /\ op' = [op EXCEPT ![c] = [Idle EXCEPT !.step = "load", !.row = p, !.was = rows[p],
                                                !.inst = i]]
  /\ UNCHANGED <<tables, pool, sent, inst, asks>>

(* OnMsg on the chain in hand.  A node finds the instance active or stops. *)
Drive(c) ==
  LET i == op[c].inst IN
  /\ op[c].step = "drive"
  /\ inst' = IF inst[i].status = "active"
               THEN [inst EXCEPT ![i].driven = @ \cup {op[c].content}]
               ELSE inst
  /\ Done(c)
  /\ UNCHANGED <<tables, pool, sent, asks>>

Suspend(i) ==
  /\ inst[i].status = "active"
  /\ inst' = [inst EXCEPT ![i].status = "suspended"]
  /\ UNCHANGED <<tables, pool, sent, op, asks>>

Resume(i) ==
  /\ inst[i].status = "suspended"
  /\ inst' = [inst EXCEPT ![i].status = "active"]
  /\ UNCHANGED <<tables, pool, sent, op, asks>>

(* Completion, termination and deletion archive the instance and evict a   *)
(* chain that is no longer needed.                                         *)
End(r, i) ==
  LET p == inst[i].row IN
  /\ inst[i].status \in {"active", "suspended"}
  /\ inst' = [inst EXCEPT ![i] = NoInst]
  /\ pool' = IF Exists(p) /\ ~IsLatest(p)
                /\ \A j \in Live(p) \ {i} : inst[j].status # "active"
               THEN Dropped(r, {p}) ELSE pool
  /\ UNCHANGED <<tables, sent, op, asks>>

-----------------------------------------------------------------------------
(* The host's side.  A broadcast arrives late or never (or again, which    *)
(* only drops a chain that loads anew).                                    *)
Deliver(r, p) ==
  /\ p \in sent /\ pool[r][p] # 0
  /\ pool' = Dropped(r, {p})
  /\ UNCHANGED <<tables, sent, inst, op, asks>>

(* The patrol drops what RecentlyUpdatedProcessIDs lists.  The window is   *)
(* longer than a patrol's period and a load together, so a row leaves it   *)
(* only after every replica has looked once with no older load under way.  *)
Recent == {p \in RowId : Exists(p) /\ owes[p] # {}}
OldLoad(r, p) == \E c \in Caller : /\ Home[c] = r /\ op[c].row = p
                                   /\ op[c].step \in {"load", "preload"} /\ op[c].was.writes < rows[p].writes
Patrol(r) ==
  /\ Recent # {}
  /\ pool' = Dropped(r, Recent)
  /\ owes' = [p \in RowId |-> IF OldLoad(r, p) THEN owes[p] ELSE owes[p] \ {r}]
  /\ UNCHANGED <<rows, sent, inst, op, asks>>

-----------------------------------------------------------------------------
(* A first version is deployed and no replica has loaded it yet; one       *)
(* request more than MaxAsk may be about to delete it.                     *)
AboutToDelete(d) == [c \in Caller |-> IF c = d THEN [Idle EXCEPT !.step = "delete", !.row = 1] ELSE Idle]

Init ==
  /\ rows = [p \in RowId |-> IF p = 1 THEN [version |-> 1, status |-> "active", content |-> 1, writes |-> 0,
                                                   knew |-> 0]
                                      ELSE NoRow]
  /\ pool = [r \in Replica |-> [p \in RowId |-> 0]]
  /\ sent = {}
  /\ owes = [p \in RowId |-> {}]
  /\ inst = [i \in Instance |-> NoInst]
  /\ op = [c \in Caller |-> Idle] \/ \E d \in Caller : op = AboutToDelete(d)
  /\ asks = 0

Request(c) ==
  \/ \E p \in RowId : UpdateLook(c, p) \/ Activate(c, p) \/ StatusLook(c, p) \/ DeleteLook(c, p)
  \/ \E s \in {"active", "draft"} : Deploy(c, s)
  \/ \E p \in RowId, i \in Instance : StartLook(c, p, i)
  \/ \E i \in Instance : GetExecution(c, i)

Step(c) == \/ UpdateVersion(c) \/ UpdateWrite(c) \/ Invalidate(c)
           \/ CreateLook(c) \/ CreateInsert(c) \/ CreateCommit(c) \/ CreateRollback(c) \/ Preload(c)
           \/ StatusWrite(c) \/ DeleteRow(c)
           \/ LoadChain(c) \/ CreateInstance(c) \/ Drive(c)

Next == \/ \E c \in Caller : Request(c) \/ Step(c)
        \/ \E i \in Instance : Suspend(i) \/ Resume(i)
        \/ \E r \in Replica, i \in Instance : End(r, i)
        \/ \E r \in Replica, p \in RowId : Deliver(r, p)
        \/ \E r \in Replica : Patrol(r)

Spec == Init /\ [][Next]_vars

(* The host's patrol comes round on every replica.  Nothing is assumed of  *)
(* the requests or of the broadcast.                                       *)
FairSpec == Spec /\ \A r \in Replica : WF_vars(Patrol(r))

-----------------------------------------------------------------------------
(* The content an instance was started from drives it for life, on every   *)
(* replica, whatever broadcasts are lost and however long a load takes,    *)
(* unless somebody wrote its row after the start had read it.  It rests on *)
(* a row that was once written never becoming active again: the status     *)
(* check of the start is also what keeps stale chains away from it.        *)
OneTopology ==
  \A i \in Instance :
    LET p == inst[i].row IN
    inst[i].seen >= 0 /\ rows[p].writes = inst[i].seen => inst[i].driven \subseteq {rows[p].content}

(* Two versions of a family are active together only if they were         *)
(* deployed together: the one committed later had looked for versions to   *)
(* retire before the other was committed.  So a deployment that overlaps   *)
(* no other one leaves its version alone active, whatever earlier ones and *)
(* the updates and status changes around it have left.                     *)
Active(p) == rows[p].status = "active"
ActiveTogether ==
  \A p, q \in RowId : p < q /\ Active(p) /\ Active(q) => rows[q].knew < p

(* A chain that no longer matches its row does not stay loaded, although   *)
(* the broadcast may be lost, a slow load may put it back after the        *)
(* invalidation, and a status change rewrites rows without invalidating.   *)
Stale(r, p) == Exists(p) /\ pool[r][p] \notin {0, rows[p].content}
StaleDropped == \A r \in Replica, p \in RowId : []<>~Stale(r, p)
=============================================================================
