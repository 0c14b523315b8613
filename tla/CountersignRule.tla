--------------------------- MODULE CountersignRule ---------------------------
(***************************************************************************)
(* The rules by which the votes on a countersign (all) or ballot (vote)    *)
(* task decide the node (service/task_service_countersign.go).  A rule is  *)
(* a type and a whole number; total, completed and approved count the      *)
(* sub-tasks that are not terminated, those that are completed, and those  *)
(* that are completed with end_reason approved.                            *)
(***************************************************************************)
EXTENDS Naturals

RuleType == {"all", "any", "majority", "percent", "count"}

(* Rules a validated node definition can store: a percentage is at most    *)
(* 100 and a count at least 1; the other types carry no value.             *)
ValidRule(r) == /\ r.type \in RuleType
                /\ r.value \in Nat
                /\ r.type = "percent" => r.value <= 100
                /\ r.type = "count" => r.value >= 1

AtLeastOne(n) == IF n < 1 THEN 1 ELSE n

(* Round up to the next whole hundredth. *)
Ceil(n) == (n + 99) \div 100

(* How many approvals a threshold rule needs among total voters. *)
HalfRequired(r, total) ==                                              \* slip
  CASE r.type = "majority" -> (total + 1) \div 2
    [] r.type = "percent" -> AtLeastOne(Ceil(total * r.value))
    [] r.type = "count" -> AtLeastOne(r.value)
Required(r, total) ==
  CASE r.type = "majority" -> (total \div 2) + 1
    [] r.type = "percent" -> AtLeastOne(Ceil(total * r.value))
    [] r.type = "count" -> AtLeastOne(r.value)

Approves(r, total, completed, approved) ==
  CASE r.type = "all" -> approved = completed
    [] r.type = "any" -> approved > 0
    [] OTHER -> approved >= Required(r, total)

WaitsForAll(r, total, completed, approved) == completed = total        \* slip
Decides(r, total, completed, approved) ==
  CASE r.type = "all" -> completed = total
    [] r.type = "any" -> approved > 0 \/ completed = total
    [] OTHER -> \/ approved >= Required(r, total)
                \/ approved + (total - completed) < Required(r, total)

(* What the rules mean: the result once all total votes are cast and       *)
(* approved of them approve.                                               *)
Outcome(r, total, approved) ==
  CASE r.type = "all" -> approved = total
    [] r.type = "any" -> approved > 0
    [] r.type = "majority" -> 2 * approved > total
    [] r.type = "percent" -> approved > 0 /\ 100 * approved >= total * r.value
    [] r.type = "count" -> approved >= r.value
=============================================================================
