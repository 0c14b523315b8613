------------------------------- MODULE Permits -------------------------------
(***************************************************************************)
(* What the designer of a chain permits: the switches of a node's and of a *)
(* chain's actions, and the rights on the fields of a node's form, as they *)
(* are read for the detail page and as they are enforced:                  *)
(* service/task_service_action_permissions.go and runtime_instance_detail. *)
(* A switch is "on", "off" or something that is no switch; a right is "w", *)
(* "r", "h" or no string; a table is a function from keys.                 *)
(***************************************************************************)
EXTENDS Integers, SequencesExt, FiniteSetsExt

Nothing == [k \in {} |-> k]

(* What is read of a node, or of the chain: whether the instance, its      *)
(* definition, the chain and the node could all be loaded, whether a table *)
(* is written there, whether it is one, and its content.                   *)
Resolved(read) == read.loaded /\ (read.written => read.readable)

(* resolveNodeActionPermissions for the page: no table where it fails.     *)
Table(read) == IF read.written /\ Resolved(read) THEN read.table ELSE Nothing

DesignerDisabled(table, key) == key \in DOMAIN table /\ table[key] = "off"
DesignerEnabled(table, key) == key \in DOMAIN table /\ table[key] = "on"

(* requireActionEnabled: nothing is asked of a task outside any instance;  *)
(* for an operation, nothing is permitted where it cannot be told.         *)
RequireActionEnabled(inInstance, read, key) ==
  inInstance => Resolved(read) /\ ~DesignerDisabled(Table(read), key)

(* requireActionEnabledInScope: the same within the transaction, with the  *)
(* loading written out.                                                    *)
RequireActionEnabledInScope(inInstance, read, key) ==
  \/ ~inInstance
  \/ read.loaded /\ ~read.written
  \/ read.loaded /\ read.readable /\ ~DesignerDisabled(read.table, key)

(* requireProcessActionEnabled: the switches written on the chain itself.  *)
RequireProcessActionEnabled(read, key) == RequireActionEnabled(TRUE, read, key)

-----------------------------------------------------------------------------
(* collectFormSchemaKeys: a field may hold others (columns of a grid, a    *)
(* card, tabs, a table), which are visited after it in that order.         *)
RECURSIVE Flatten(_)
Flatten(fields) ==
  FlattenSeq([i \in DOMAIN fields |-> <<fields[i]>> \o Flatten(fields[i].inside)])

NoKey == "-"
(* formSchemaFieldKeyMap: from a field's id to the key of its data, the    *)
(* last of several fields with one id.                                     *)
FormSchemaFieldKeyMap(fields) ==
  LET named == SelectSeq(Flatten(fields), LAMBDA f : f.id # NoKey /\ f.field # NoKey) IN
  [id \in {f.id : f \in ToSet(named)} |->
     named[Max({i \in DOMAIN named : named[i].id = id})].field]

(* normalizeFormPermissionKeys: rights written by field id become rights   *)
(* on data keys and win over those written by data key. Two fields with    *)
(* one data key are taken in the order of a map: any of them may win.      *)
NormalizeFormPermissionKeys(table, keyOf) ==
  LET byId == DOMAIN table \cap DOMAIN keyOf
      renamed == {keyOf[id] : id \in byId}
      Given(k) == IF k \in renamed THEN {table[id] : id \in {d \in byId : keyOf[d] = k}}
                                   ELSE {table[k]}
      keys == (DOMAIN table \ byId) \cup renamed IN
  IF DOMAIN keyOf = {} THEN {table}
  ELSE {out \in [keys -> UNION {Given(k) : k \in keys}] : \A k \in keys : out[k] \in Given(k)}

(* resolveNodeFormPermissions: no rights are withheld where the table      *)
(* cannot be read.                                                         *)
ResolveNodeFormPermissions(read, keyOf) == NormalizeFormPermissionKeys(Table(read), keyOf)

(* normalizeDetailFormPermissions: for the page, rights by field id; keys  *)
(* of no field are dropped, and values that are no strings.                *)
Rights == {"w", "r", "h"}
FieldsOf(keyOf) ==
  {pick \in [{keyOf[id] : id \in DOMAIN keyOf} -> DOMAIN keyOf] :
     \A k \in DOMAIN pick : keyOf[pick[k]] = k}
NormalizeDetailFormPermissions(table, keyOf) ==
  LET rights == {k \in DOMAIN table : table[k] \in Rights}
      Shown(pick) ==
        LET byId == rights \cap DOMAIN keyOf
            byKey == {k \in rights \ DOMAIN keyOf : k \in DOMAIN pick}
            shown == byId \cup {pick[k] : k \in byKey} IN
        [id \in shown |-> IF id \in byId THEN table[id]
                          ELSE table[CHOOSE k \in byKey : pick[k] = id]] IN
  IF DOMAIN keyOf = {} THEN {[k \in rights |-> table[k]]}
  ELSE {Shown(pick) : pick \in FieldsOf(keyOf)}

Withheld(right) == right \in {"r", "h"}

(* filterVariablesByFormPermissions: what is kept of a submitted form.     *)
FilterVariables(submitted, rights) ==
  {k \in submitted : ~(k \in DOMAIN rights /\ Withheld(rights[k]))}

(* rejectFormPermissionWrite: whether variables named one by one may be    *)
(* set or removed.                                                         *)
MayWrite(keys, rights) == \A k \in keys : k \in DOMAIN rights => ~Withheld(rights[k])

(* resolveCCFormPermissions: a user copied in at several nodes sees of a   *)
(* field what the strictest of them lets be seen, and writes nothing.      *)
StrictnessRank(right) == CASE right = "h" -> 2 [] right = "r" -> 1 [] OTHER -> 0
ReadOnly(right) == IF right = "w" THEN "r" ELSE right
CCFormPermissions(tables) ==
  LET given(k) == {ReadOnly(t[k]) : t \in {s \in tables : k \in DOMAIN s}} IN
  [k \in UNION {DOMAIN t : t \in tables} |->
     CHOOSE right \in given(k) : \A other \in given(k) :
       StrictnessRank(other) <= StrictnessRank(right)]
=============================================================================
