------------------------------- MODULE MCInbox -------------------------------
(***************************************************************************)
(* What Inbox lists of small histories: one instance with up to two rows,  *)
(* two with one each, in every state the engine leaves them. Facts without *)
(* a state, evaluated before the run of the module that extends this one.  *)
(***************************************************************************)
EXTENDS Integers, FiniteSets, TLC

LOCAL Readers == {"ann", "bob"}
LOCAL EntitiesOfReaders == "ann" :> {"ann", "clerks"} @@ "bob" :> {"bob"}
Box == INSTANCE Inbox WITH EntitiesOf <- EntitiesOfReaders

(* Where an instance's row is follows from its status, and only what was   *)
(* terminated has a reason the tabs look at. A failed one is never written.*)
LOCAL Endings == [status : {"draft", "active", "suspended", "completed", "deleted"}, why : {"none"}]
                   \cup [status : {"terminated"}, why : {"none", "rejected", "withdrawn", "other"}]
LOCAL Running == {"draft", "active", "suspended"}
LOCAL InstanceOf(id, ending, starter) ==
  [id |-> id, home |-> IF ending.status \in Running THEN "run" ELSE "hist",
   status |-> ending.status, why |-> ending.why, starter |-> starter, process |-> id]
LOCAL InstancesOf(id) == {InstanceOf(id, e, s) : e \in Endings, s \in Readers}

(* A task while its instance runs: offered, held, answered, copied, handed *)
(* on (the row in the history, its holder before it) or sent back.         *)
LOCAL Task(home, holder, status) ==
  [inst |-> 1, home |-> home, holder |-> holder, status |-> status, type |-> "userTask",
   prev |-> "nobody", copy |-> FALSE, pool |-> {}]
LOCAL OpenRows ==
  {[Task("run", "nobody", "pending") EXCEPT !.pool = p] : p \in {{}, {"bob"}, {"clerks"}}}
    \cup {Task("run", u, "active") : u \in Readers}
LOCAL AnsweredRows ==
  {[Task("run", u, "completed") EXCEPT !.copy = c] : u \in Readers, c \in BOOLEAN}
LOCAL TraceRows ==
  {Box!ActionTraceRow(Task("run", u, "active"), type, "nobody") :
     u \in Readers, type \in {"forward", "reassign", "delegate"}}
LOCAL ReturnedRows == {Task("hist", u, "returned") : u \in Readers}
LOCAL Rows == OpenRows \cup AnsweredRows \cup TraceRows \cup ReturnedRows

LOCAL InArchive(row) ==
  [row EXCEPT !.home = "hist",
              !.status = IF row.status \in {"pending", "active"} THEN "cancelled" ELSE row.status,
              !.pool = {}]
LOCAL RowsIn(instance, rows) == IF instance.home = "run" THEN rows ELSE {InArchive(r) : r \in rows}
LOCAL RowsOfOne == {{r, s} : r, s \in Rows} \cup {{}}

(* One instance and what it holds; a draft has no task yet.                *)
LOCAL Worlds ==
  {[instances |-> {i}, tasks |-> RowsIn(i, IF i.status = "draft" THEN {} ELSE rows)] :
     i \in InstancesOf(1), rows \in RowsOfOne}
LOCAL TwoInstances == {{i, j} : i \in InstancesOf(1), j \in InstancesOf(2)}

(* What the tabs count is what each of them lists, and with a reason for   *)
(* every state the tabs part the whole list.                               *)
ASSUME DoneCountsAreLists ==
  \A w \in Worlds, u \in Readers :
    LET counts == Box!CountDoneByBuckets(u, w.instances, w.tasks)
        InTab(tab) == Box!GetDone(u, tab, w.instances, w.tasks) IN
    /\ \A tab \in DOMAIN counts : counts[tab] = Cardinality(InTab(tab))
    /\ \A tab, other \in DOMAIN counts : tab # other => InTab(tab) \cap InTab(other) = {}
    /\ UNION {InTab(tab) : tab \in DOMAIN counts} = InTab("all")
ASSUME ApplicationCountsAreLists ==
  \A instances \in TwoInstances, u \in Readers :
    LET counts == Box!CountMyApplicationsByBuckets(u, instances)
        InTab(tab) == Box!GetMyApplications(u, tab, instances) IN
    /\ \A tab \in DOMAIN counts : counts[tab] = Cardinality(InTab(tab))
    /\ \A tab, other \in DOMAIN counts : tab # other => InTab(tab) \cap InTab(other) = {}
    /\ UNION {InTab(tab) : tab \in DOMAIN counts} = InTab("all")
    /\ Box!CountMyApplications(u, instances)
         = Cardinality({i \in instances : i.starter = u /\ i.status # "deleted"})

(* Todo lists an instance exactly when it is active and has a running task *)
(* the user holds or may claim. A task offered to nobody in particular can *)
(* be claimed by anybody and is on nobody's list.                          *)
ASSUME TodoIsActionable ==
  \A w \in Worlds, u \in Readers :
    Box!GetTodo(u, w.instances, w.tasks) =
      {i \in w.instances :
         /\ i.status = "active"
         /\ \E t \in w.tasks : /\ t.home = "run" /\ t.status \in {"pending", "active"}
                               /\ t.holder = u \/ t.pool \cap EntitiesOfReaders[u] # {}}

(* Whoever hands a task on finds the instance among what he has done, at   *)
(* once and after the archive, whatever the next holders do; one who       *)
(* delegated does not. Neither keeps the task on the todo list.            *)
ASSUME HandedOnIsDone ==
  \A type \in {"forward", "reassign", "delegate"}, rest \in RowsOfOne,
     status \in {"active", "suspended"} :
    LET task == Task("run", "ann", "active")
        i == InstanceOf(1, [status |-> status, why |-> "none"], "bob")
        tasks == {[task EXCEPT !.holder = "bob"], Box!ActionTraceRow(task, type, "nobody")}
        archived == [i EXCEPT !.home = "hist", !.status = "completed"]
        without == Box!GetDone("ann", "all", {i}, rest) IN
    /\ Box!GetDone("ann", "all", {i}, tasks \cup rest)
         = IF type = "delegate" THEN without ELSE {i}
    /\ type # "delegate" =>
         Box!GetDone("ann", "all", {archived}, {InArchive(t) : t \in tasks \cup rest}) = {archived}
    /\ Box!GetTodo("ann", {i}, tasks \cup rest) = Box!GetTodo("ann", {i}, rest)

(* The archive takes nothing off the done list and adds only what was sent *)
(* back: until then nobody who returned a task finds it there.             *)
ASSUME ArchiveKeepsDone ==
  \A rows \in RowsOfOne, u \in Readers :
    LET i == InstanceOf(1, [status |-> "active", why |-> "none"], "ann")
        archived == [i EXCEPT !.home = "hist", !.status = "completed"]
        before == Box!GetDone(u, "all", {i}, rows)
        after == Box!GetDone(u, "all", {archived}, {InArchive(r) : r \in rows}) IN
    /\ before # {} => after # {}
    /\ before = {} /\ after # {} <=>
         /\ \E r \in rows : r.status = "returned" /\ r.holder = u
         /\ ~ \E r \in rows : \/ r.home = "run" /\ r.status = "completed" /\ r.holder = u
                              \/ Box!Trace(u, r)

(* A copy is on the list of copies and, as there is no filter against it,  *)
(* on the done list too.                                                   *)
ASSUME CopiesAreDone ==
  \A w \in Worlds, u \in Readers :
    Box!GetCc(u, w.instances, w.tasks) \subseteq Box!GetDone(u, "all", w.instances, w.tasks)

(* A deleted instance is on no list, unless one asks for the status.       *)
ASSUME DeletedIsHidden ==
  \A w \in Worlds, u \in Readers :
    \A i \in Box!GetTodo(u, w.instances, w.tasks) \cup Box!GetDone(u, "all", w.instances, w.tasks)
               \cup Box!GetCc(u, w.instances, w.tasks) \cup Box!GetMyApplications(u, "all", w.instances)
               \cup Box!GetProcessInstanceUnionList({}, {}, {}, {}, w.instances) :
      i.status # "deleted"

(* With a key and one of its definitions, all definitions of the key are   *)
(* listed; the two are taken together only to find that they do not match. *)
ASSUME KeyAndDefinition ==
  \A versions \in SUBSET {1, 2}, id \in 1 .. 3, instances \in TwoInstances :
    Box!GetProcessInstanceUnionList({"key"}, {id}, versions, {}, instances)
      = {i \in instances : i.status # "deleted" /\ id \in versions /\ i.process \in versions}
=============================================================================
