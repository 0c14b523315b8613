---------------------------- MODULE MCDetailPage ----------------------------
(***************************************************************************)
(* What InstanceView and Permits say of small instances: pages of up to    *)
(* nine rows, tables of up to three keys. Facts without a state, evaluated *)
(* before the run of the module that extends this one.                     *)
(***************************************************************************)
EXTENDS Integers, Sequences, FiniteSets

LOCAL INSTANCE SequencesExt
View == INSTANCE InstanceView WITH Nobody <- "nobody", NoForm <- [none |-> 0]
Permit == INSTANCE Permits

LOCAL Voters == {"ann", "bob"}
PageRow(id, created) ==
  [id |-> id, parent |-> 0, type |-> "userTask", status |-> "completed", assignee |-> "ann",
   node |-> 1, created |-> created, ended |-> created, by |-> "ann", prev |-> "nobody",
   form |-> [none |-> 0], human |-> TRUE]

(* The page works on with the rows of the running instance until a row of  *)
(* the history fits into their array: an odd number of rows from five on,  *)
(* and one row (a transfer leaves one) that is not the newest of all. Then *)
(* the newest running row is lost to the buttons (not to the timeline).    *)
ASSUME RunningRowsKept ==
  \A n \in 1 .. 9, k \in 0 .. 2, at \in 0 .. 20 :
    LET running == [i \in 1 .. n |-> PageRow(i, 2 * i)]
        history == [i \in 1 .. k |-> PageRow(20 + i, at)] IN
    View!IdsIn(View!RunningRows(running, history)) = View!IdsIn(running)
      <=> k = 0 \/ n + k > View!Room(n) \/ at >= 2 * n

(* Every row whose ancestors are there is in the timeline once, whatever   *)
(* the order of creation; one whose parent is gone is not.                 *)
RECURSIVE Listed(_)
Listed(forest) == FlattenSeq([i \in DOMAIN forest |-> <<forest[i].id>> \o Listed(forest[i].subs)])
ASSUME TimelineIsWhole ==
  \A parent \in {p \in [1 .. 4 -> {0, 1, 2, 3, 9}] : \A i \in 1 .. 4 : p[i] < i \/ p[i] = 9},
     created \in [1 .. 4 -> 1 .. 2] :
    LET rows == [i \in 1 .. 4 |-> [PageRow(i, created[i]) EXCEPT !.parent = parent[i]]]
        list == Listed(View!ApprovalList(View!OlderFirst(rows)))
        found[i \in 1 .. 4] == parent[i] = 0 \/ (parent[i] < i /\ found[parent[i]]) IN
    /\ IsInjective(list)
    /\ ToSet(list) = {i \in 1 .. 4 : found[i]}

(* No change of the form goes unmarked: if no row is marked, the form is   *)
(* the same on all that can be read; each is compared with one before it.  *)
ASSUME NoChangeUnseen ==
  \A form \in [1 .. 3 -> {[none |-> 0], [f |-> 1], [f |-> 2], [f |-> 1, g |-> 1]}],
     ended \in [1 .. 3 -> 0 .. 2] :
    LET rows == [i \in 1 .. 3 |-> [PageRow(i, i) EXCEPT !.form = form[i], !.ended = ended[i]]]
        chain == View!FormChain(rows)
        marks == View!FormModified(rows)
        changed == {i \in DOMAIN marks : marks[i].changed > 0}
        At(i) == IF ended[i] = 0 THEN i ELSE ended[i] IN
    /\ \A i \in DOMAIN marks : At(marks[i].before) <= At(i)
    /\ changed = {} => \A r, s \in ToSet(chain) : r.form = s.form
    /\ chain # <<>> /\ chain[1].form # Last(chain).form => changed # {}

(* What the page offers the starter is what the operations allow, but for  *)
(* a withdrawal one of the running nodes forbids, and for starting again   *)
(* a terminated instance, which is in the history by then.                 *)
LOCAL Switches == {"withdraw", "suspend", "terminate", "resubmit"}
ASSUME StarterOffersAllowed ==
  \A status \in {"draft", "active", "suspended"} \cup View!Archived,
     off \in SUBSET Switches, offAtNodes \in SUBSET SUBSET {"withdraw", "suspend"} :
    {action \in View!StarterActions(status, off) :
       ~View!Permitted(action, status, off, offAtNodes)}
      = ({"withdraw"} \cap (IF status = "active" THEN UNION offAtNodes \ off ELSE {}))
          \cup (IF status = "terminated" THEN {"resubmit"} \ off ELSE {})

(* Whoever is to act on a row of the page may open the page.               *)
ASSUME ActorSees ==
  \A status \in [1 .. 2 -> {"active", "suspended", "pending", "completed"}],
     node \in [1 .. 2 -> 1 .. 2], assignee \in [1 .. 2 -> Voters \cup {"nobody"}],
     pools \in [1 .. 2 -> [told : BOOLEAN, members : SUBSET Voters]], u \in Voters :
    LET rows == [i \in 1 .. 2 |-> [PageRow(i, i) EXCEPT !.status = status[i], !.node = node[i],
                                                        !.assignee = assignee[i]]] IN
    View!CurrentUserTask(rows, pools, u) # 0 => View!IsVisible(FALSE, "carl", rows, pools, u)

(* Every answer at a node is in its list of answers, that of a sub-task    *)
(* twice (it is of the node and of the task).                              *)
ASSUME AnswersListed ==
  \A parent \in [2 .. 3 -> {0, 1}], status \in [1 .. 3 -> {"active", "completed"}],
     node \in [2 .. 3 -> 1 .. 2] :
    LET rows == [i \in 1 .. 3 |->
                   IF i = 1 THEN [PageRow(i, i) EXCEPT !.status = status[i]]
                   ELSE [PageRow(i, i) EXCEPT !.parent = parent[i], !.status = status[i],
                                             !.node = IF parent[i] = 1 THEN 1 ELSE node[i]]]
        list == View!ApprovedList(rows[1], rows)
        Times(i) == Cardinality({k \in DOMAIN list : list[k].id = i}) IN
    \A i \in 1 .. 3 :
      Times(i) = IF rows[i].status # "completed" \/ rows[i].node # 1 THEN 0 ELSE 1 + rows[i].parent

-----------------------------------------------------------------------------
TablesOver(keys, values) == UNION {[some -> values] : some \in SUBSET keys}
LOCAL Reads ==
  [loaded : BOOLEAN, written : BOOLEAN, readable : BOOLEAN,
   table : TablesOver({"return", "urge"}, {"on", "off", "odd"})]

(* An action is refused by the operation, inside and outside its           *)
(* transaction alike, whenever the page does not offer it for being off,   *)
(* and never when the page offers it for being on.                         *)
ASSUME SwitchesAgree ==
  \A read \in Reads, inInstance \in BOOLEAN, key \in {"return", "urge"} :
    LET permitted == Permit!RequireActionEnabled(inInstance, read, key) IN
    /\ permitted = Permit!RequireActionEnabledInScope(inInstance, read, key)
    /\ Permit!DesignerEnabled(Permit!Table(read), key) => permitted
    /\ permitted /\ inInstance => ~Permit!DesignerDisabled(Permit!Table(read), key)

(* A field the page shows as not to be written is dropped from a submitted *)
(* form and refused when it is set by name, and no other is, if no two     *)
(* fields have one data key and the rights are strings ("the same          *)
(* criterion as the submission", comment of rejectFormPermissionWrite).    *)
LOCAL Names == {"f", "g", "h"}
LOCAL KeyMaps ==
  {m \in TablesOver(Names, Names) : \A x, y \in DOMAIN m : m[x] = m[y] => x = y}
ASSUME RightsAgree ==
  \A keyOf \in KeyMaps, table \in TablesOver(Names, Permit!Rights) :
    \A rights \in Permit!NormalizeFormPermissionKeys(table, keyOf),
       shown \in Permit!NormalizeDetailFormPermissions(table, keyOf), id \in DOMAIN keyOf :
      LET kept == keyOf[id] \in Permit!FilterVariables({keyOf[id]}, rights) IN
      /\ kept <=> ~(id \in DOMAIN shown /\ shown[id] \in {"r", "h"})
      /\ kept <=> Permit!MayWrite({keyOf[id]}, rights)

(* Whoever is copied in at several nodes writes nothing and sees a field   *)
(* only if every node that speaks of it lets it be seen.                   *)
ASSUME StrictestWins ==
  \A tables \in SUBSET TablesOver({"f", "g"}, Permit!Rights) : Cardinality(tables) <= 2 =>
    LET rights == Permit!CCFormPermissions(tables) IN
    \A k \in DOMAIN rights :
      /\ rights[k] # "w"
      /\ rights[k] = "h" <=> \E t \in tables : k \in DOMAIN t /\ t[k] = "h"
=============================================================================
