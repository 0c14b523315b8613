------------------------------- MODULE Ballot -------------------------------
(***************************************************************************)
(* One countersign or vote node seen from its votes alone: sub-tasks are   *)
(* completed one after the other under the instance's row lock, the vote   *)
(* that decides closes the parent task and cancels what is still open, and *)
(* sub-tasks that were suspended at that moment may still vote later.      *)
(***************************************************************************)
EXTENDS CountersignRule

VARIABLES rule,        \* the approval rule stored on the sub-tasks
          yes,         \* sub-tasks completed with approved
          no,          \* sub-tasks completed with rejected
          left,        \* sub-tasks neither completed nor terminated
          verdict      \* end_reason of the parent task, "open" before

bvars == <<rule, yes, no, left, verdict>>

Verdict == {"open", "approved", "rejected", "void"}

BTypeOK == /\ ValidRule(rule)
           /\ yes \in Nat
           /\ no \in Nat
           /\ left \in Nat
           /\ verdict \in Verdict

BInit == /\ ValidRule(rule)
         /\ yes = 0
         /\ no = 0
         /\ left \in Nat \ {0}
         /\ verdict = "open"

(* Early veto: under the rule all, the first rejection closes the parent.  *)
BVetoesAny(approve) == ~approve                                        \* slip
BVetoes(approve) == rule.type = "all" /\ ~approve

(* The parent is still open; y and n are the counts with this vote.        *)
(* Cancelling the open sub-tasks spares the suspended ones.                *)
Settle(approve, y, n) ==
  LET total == y + n + left - 1
      completed == y + n
      done == BVetoes(approve) \/ Decides(rule, total, completed, y)
      approves == ~BVetoes(approve) /\ Approves(rule, total, completed, y)
  IN  /\ verdict' = IF done THEN (IF approves THEN "approved" ELSE "rejected") ELSE "open"
      /\ IF done THEN left' \in 0..(left - 1) ELSE left' = left - 1

Cast(approve) ==
  /\ verdict = "open"
  /\ left > 0
  /\ yes' = IF approve THEN yes + 1 ELSE yes
  /\ no' = IF approve THEN no ELSE no + 1
  /\ Settle(approve, yes', no')
  /\ UNCHANGED rule

(* A vote after the parent is completed is recorded and changes nothing. *)
CastLateReopens(approve) ==                                            \* slip
  /\ verdict \in {"approved", "rejected"}
  /\ left > 0
  /\ yes' = IF approve THEN yes + 1 ELSE yes
  /\ no' = IF approve THEN no ELSE no + 1
  /\ verdict' = IF approve THEN "approved" ELSE "rejected"
  /\ left' = left - 1
  /\ UNCHANGED rule
CastLateUnchecked(approve) ==                                          \* slip
  /\ verdict \in {"approved", "rejected"}
  /\ yes' = IF approve THEN yes + 1 ELSE yes
  /\ no' = IF approve THEN no ELSE no + 1
  /\ left' = left - 1
  /\ UNCHANGED <<rule, verdict>>
CastLate(approve) ==
  /\ verdict \in {"approved", "rejected"}
  /\ left > 0
  /\ yes' = IF approve THEN yes + 1 ELSE yes
  /\ no' = IF approve THEN no ELSE no + 1
  /\ left' = left - 1
  /\ UNCHANGED <<rule, verdict>>

(* The instance ends: an undecided parent and the open sub-tasks are       *)
(* terminated with it.                                                     *)
Abandon ==
  /\ left' = 0
  /\ verdict' = IF verdict = "open" THEN "void" ELSE verdict
  /\ UNCHANGED <<rule, yes, no>>

BNext == \/ \E approve \in BOOLEAN : Cast(approve)
         \/ \E approve \in BOOLEAN : CastLate(approve)
         \/ Abandon

BSpec == BInit /\ [][BNext]_bvars

-----------------------------------------------------------------------------
Total == yes + no + left

(* Nobody is outvoted by an early decision: whatever the voters left would *)
(* have said, all votes together give the verdict of the parent task.      *)
VerdictInevitable ==
  \A x \in 0..left : /\ verdict = "approved" => Outcome(rule, Total, yes + x)
                     /\ verdict = "rejected" => ~Outcome(rule, Total, yes + x)

(* Nobody is asked in vain: after the first vote the node stays open only  *)
(* while both results are still possible.                                  *)
OpenWhileUndecided ==
  (verdict = "open" /\ yes + no > 0) =>
     /\ \E x \in 0..left : Outcome(rule, Total, yes + x)
     /\ \E x \in 0..left : ~Outcome(rule, Total, yes + x)

(* When the decided node is driven again it counts the remaining rows anew *)
(* (UserTaskNode.OnMsg, checkTasksCompletion): cancelling the rest never   *)
(* makes a closed node look undecided, or decided the other way.           *)
RecountAgrees ==
  (verdict \in {"approved", "rejected"} /\ rule.type # "all") =>
     /\ Decides(rule, Total, yes + no, yes)
     /\ Approves(rule, Total, yes + no, yes) <=> verdict = "approved"

(* The verdict never changes once it is given. *)
VerdictFinal == [][verdict # "open" => verdict' = verdict]_bvars
=============================================================================
