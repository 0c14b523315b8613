----------------------------- MODULE MCTaskDesk -----------------------------
(***************************************************************************)
(* Definitions of one to three nodes, each with the people and operations  *)
(* that meet on it: a pool of administrators, a task that changes hands, a *)
(* countersign with signers, a vote with recalls and one with both, a      *)
(* single approver with signers, a chain that goes back, an or-sign, and   *)
(* nodes whose approvers are the starter's managers, the starter, or       *)
(* nobody.                                                                 *)
(***************************************************************************)
EXTENDS TaskDesk, MCDetailPage, MCInbox

CONSTANTS a, b, c, u1, u2, u3

MCUser == {u1, u2, u3}
MCBoss == u1 :> u2 @@ u2 :> u3 @@ u3 :> u2
MCChief == u1 :> u3 @@ u2 :> u3 @@ u3 :> Nobody

(* Nobody is asked twice by a list without duplicates, whoever takes the   *)
(* starter's place, and nobody but the starter is dropped (comment of      *)
(* replaceAssignee).                                                       *)
ASSUME
  \A policy \in SelfApproval, u \in User, ids \in SeqOf(User, 3) :
    LET asked == HandleSelfApproval(policy, u, Dedupe(ids))
    IN  /\ IsInjective(asked)
        /\ ToSet(ids) \ {u} \subseteq ToSet(asked)
        /\ ToSet(asked) \subseteq ToSet(ids) \cup {Boss[u], Chief[u]}
        /\ policy = "skip" => u \notin ToSet(asked)
(* All levels of managers are those that can be reached, each once, though *)
(* two of them are each other's manager, and one level is the last of so   *)
(* many where there are so many.                                           *)
ASSUME
  \A u \in User :
    LET all == MultiLevelManager(u, -1)
    IN  /\ IsInjective(all)
        /\ ToSet(all) = {v \in User \ {u} : \E k \in 1..3 : DirectManager(u, k) = <<v>>}
        /\ \A k \in 1..Len(all) :
             DirectManager(u, k) = <<all[k]>> /\ MultiLevelManager(u, k) = SubSeq(all, 1, k)

Of(type, ids, levels) == [type |-> type, ids |-> ids, levels |-> levels]
Users(ids) == Of("user", ids, 0)
Role(ids) == Of("role", ids, 0)
Rule(type, value) == [type |-> type, value |-> value]

Flow(nodes, mode, approver, reject, people, uses) ==
  [nodes |-> nodes, mode |-> mode, approver |-> approver, reject |-> reject,
   self |-> [n \in ToSet(nodes) |-> "none"],
   empty |-> [n \in ToSet(nodes) |-> "tenant_admin"],
   rule |-> [n \in ToSet(nodes) |-> IF mode[n] = "vote" THEN Rule("percent", 50) ELSE Rule("all", 0)],
   starter |-> u1, admins |-> {u1, u2, u3}, people |-> people, uses |-> uses]

Pool ==
  [Flow(<<a, b>>, a :> "single" @@ b :> "single", a :> Role(<<>>) @@ b :> Users(<<u1, u1>>),
        a :> "terminate" @@ b :> "toStarter",
        {u1, u2}, {"Claim", "Candidates", "SetAssignee", "Delegate", "Recall"})
     EXCEPT !.starter = u3]
Owner ==
  [Flow(<<a, b>>, a :> "single" @@ b :> "single", a :> Users(<<u1>>) @@ b :> Users(<<u2>>),
        a :> "toPrev" @@ b :> "toPrev",
        {u1, u2, u3}, {"Delegate", "Resolve", "Transfer", "SetOwner", "Return"})
     EXCEPT !.self = a :> "delegateToDeptManager" @@ b :> "none"]
Signers ==
  Flow(<<a>>, a :> "countersign", a :> Users(<<u1, u2>>), a :> "terminate",
       {u1, u2, u3}, {"AddSign", "ReduceSign"})
Voters ==
  Flow(<<a, b>>, a :> "vote" @@ b :> "single", a :> Users(<<u1, u2, u3>>) @@ b :> Users(<<u1>>),
       a :> "terminate" @@ b :> "toPrev", {u1, u2, u3}, {"Recall"})
Fellows ==
  Flow(<<a>>, a :> "vote", a :> Users(<<u1, u2>>), a :> "terminate",
       {u1, u2, u3}, {"AddSign", "Recall"})
(* One voter and the starter's vote, each with a signer who may be named   *)
(* twice.                                                                  *)
Twin ==
  Flow(<<a>>, a :> "countersign", a :> Users(<<u1>>), a :> "terminate",
       {u1, u2}, {"AddSign", "AddTwice", "ReduceSign"})
Stood ==
  [Flow(<<a>>, a :> "countersign", a :> Role(<<>>), a :> "terminate",
        {u1, u2, u3}, {"AddSign", "AddTwice"}) EXCEPT !.empty = a :> "auto_approve"]
Helped ==
  Flow(<<a, b>>, a :> "single" @@ b :> "single", a :> Users(<<u1>>) @@ b :> Users(<<u2>>),
       a :> "terminate" @@ b :> "toPrev", {u1, u2, u3}, {"AddSign", "Return"})
Back ==
  Flow(<<a, b, c>>, a :> "single" @@ b :> "countersign" @@ c :> "single",
       a :> Users(<<u1>>) @@ b :> Users(<<u2, u3>>) @@ c :> Users(<<u1>>),
       a :> "terminate" @@ b :> "toPrev" @@ c :> "toStarter",
       {u1, u2, u3}, {"Return", "Recall", "ProxyAudit", "Withdraw"})
OrSign ==
  Flow(<<a, b>>, a :> "any" @@ b :> "single", a :> Users(<<u1, u2>>) @@ b :> Users(<<u3>>),
       a :> "terminate" @@ b :> "toPrev", {u1, u2, u3}, {"Reassign", "Recall"})

(* The starter's managers; then the starter and a colleague, the starter's *)
(* vote being given automatically.                                         *)
Managers ==
  [Flow(<<a, b>>, a :> "countersign" @@ b :> "vote",
        a :> Of("multiLevelManager", <<>>, -1) @@ b :> Users(<<u1, u2>>),
        a :> "terminate" @@ b :> "toPrev", {u1, u2}, {"Return", "ProxyAudit"})
     EXCEPT !.self = a :> "none" @@ b :> "autoApprove"]
(* The starter's manager instead of the starter; a vote of a role without  *)
(* members, passed in the starter's name; a role claimed by its members.   *)
Stand ==
  [Flow(<<a, b, c>>, a :> "single" @@ b :> "vote" @@ c :> "any",
        a :> Of("initiatorSelf", <<>>, 0) @@ b :> Role(<<>>) @@ c :> Role(<<u1, u2>>),
        a :> "terminate" @@ b :> "toPrev" @@ c :> "toPrev", {u1, u2}, {"Claim", "Return", "Recall"})
     EXCEPT !.self = a :> "delegateToManager" @@ b :> "none" @@ c :> "none",
            !.empty = a :> "park" @@ b :> "auto_approve" @@ c :> "park",
            !.rule = a :> Rule("all", 0) @@ b :> Rule("count", 3) @@ c :> Rule("all", 0)]
(* Approvers the starter is taken out of, with no other left: parked, then *)
(* an administrator on a node of votes.                                    *)
Alone ==
  [Flow(<<a, b>>, a :> "single" @@ b :> "countersign",
        a :> Of("manager", <<>>, 2) @@ b :> Users(<<u1>>),
        a :> "terminate" @@ b :> "terminate", {u1, u2, u3}, {"SetAssignee"})
     EXCEPT !.starter = u3, !.admins = {},
            !.self = a :> "skip" @@ b :> "delegateToDeptManager"]
Lonely ==
  [Flow(<<a, b>>, a :> "single" @@ b :> "countersign", a :> Users(<<u1>>) @@ b :> Users(<<u1>>),
        a :> "toStarter" @@ b :> "toStarter", {u1, u2}, {"Claim", "Recall"})
     EXCEPT !.admins = {u1, u2}, !.self = a :> "autoApprove" @@ b :> "skip"]
Sole == [Lonely EXCEPT !.admins = {u1}]

MCFlows == {Pool, Owner, Signers, Voters, Fellows, Twin, Stood, Helped, Back, OrSign,
            Managers, Stand, Alone, Lonely, Sole}
(* What is proved of all definitions that satisfy Apart, Counted and       *)
(* Offered is so of these.                                                 *)
ASSUME \A f \in MCFlows : Apart(f) /\ Counted(f) /\ Offered(f)
=============================================================================
