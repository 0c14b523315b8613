----------------------------- MODULE ChainWalks -----------------------------
(***************************************************************************)
(* What the code asks of a chain by walking along its connections: whether *)
(* it can be deployed (service/config_validate.go), whether a rejection    *)
(* may jump (components/user_task_reject.go), whether an answer may be     *)
(* taken back (service/task_service_recall.go), where a branch begins      *)
(* (service/fork_aware_resume.go), and which approvals are ahead           *)
(* (service/forecast.go). The order of connections is not kept: where the  *)
(* code takes the first of several, any of them is taken.                  *)
(***************************************************************************)
EXTENDS ChainShape

TypeOf(chain, id) == (CHOOSE n \in ToSet(chain.nodes) : n.id = id).type
OfTypes(chain, types) == {n.id : n \in {m \in ToSet(chain.nodes) : m.type \in types}}

(* bfsSet: what is reached from some nodes along some connections. *)
RECURSIVE Reached(_, _)
Reached(found, edges) ==
  LET more == found \cup {e.to : e \in {d \in edges : d.from \in found}} IN
  IF more = found THEN found ELSE Reached(more, edges)
Backwards(edges) == {Edge(e.to, e.from, e.label) : e \in edges}
Downstream(chain, id) == Reached({id}, chain.edges)
Upstream(chain, id) == Reached({id}, Backwards(chain.edges))

-----------------------------------------------------------------------------
(* A deployment is refused when a node can be reached from itself.         *)
DetectChainCycle(chain) ==
  LET within == {e \in chain.edges : e.to \in Ids(chain)} IN
  \E id \in Ids(chain) : id \in Reached({e.to : e \in {d \in within : d.from = id}}, within)

(* findPrevUserTaskNodeID: an approval right before the node, else any     *)
(* node right before it that is no start; none where there is none.        *)
PrevUserTasks(chain, self) ==
  LET before == {e.from : e \in {d \in chain.edges : d.to = self}}
      asked == before \cap OfTypes(chain, {"userTask"}) IN
  IF asked # {} THEN asked ELSE before \ OfTypes(chain, {"start", "startTask"})

(* RollbackRegionForked, rejectRegionCrossesParallel: a parallel gateway   *)
(* among the nodes that are passed again; rejectRestartTouchesGateway: any *)
(* in the chain from its first node on.                                    *)
Parallel == {"fork", "join", "inclusive"}
UpstreamReachable(chain, from, target) == target \in Upstream(chain, from)
RollbackRegionForked(chain, target, self) ==
  Downstream(chain, target) \cap Upstream(chain, self) \cap OfTypes(chain, Parallel) # {}
RestartForked(chain) ==
  chain.nodes # <<>> /\ Downstream(chain, Head(chain.nodes).id) \cap OfTypes(chain, Parallel) # {}

(* validateUserTaskNodeConfig: where a node's rejections may lead. *)
RejectAccepted(chain, self, strategy, target) ==
  CASE strategy = "toStarter" -> ~RestartForked(chain)
    [] strategy \in {"toNode", "toPrev"} ->
         /\ target \in Ids(chain)
         /\ UpstreamReachable(chain, self, target)
         /\ ~RollbackRegionForked(chain, target, self)
    [] OTHER -> TRUE

(* handleRejection, jumpToNode: at run time a rejection is degraded to     *)
(* what the node provides for failures where it cannot be carried out.     *)
RejectDegraded(chain, self, strategy, target) ==
  CASE strategy = "toStarter" -> RestartForked(chain)
    [] strategy \in {"toNode", "toPrev"} ->
         RollbackRegionForked(chain, target, self) \/ target \notin Ids(chain)
    [] OTHER -> FALSE

-----------------------------------------------------------------------------
(* checkRecallPath: what followed the answer up to where the chain waits   *)
(* must be nodes that do nothing of their own. The first step is along     *)
(* Success, those from a node that does nothing along any connection.      *)
Transparent == {"switch", "jsSwitch", "msgTypeSwitch", "inclusive", "condition",
                "fork", "join", "ccTask", "start", "startTask"}
CheckRecallPath(chain, from) ==
  LET walked == {e \in chain.edges :
                   IF e.from = from THEN e.label = "Success"
                   ELSE e.from \in OfTypes(chain, Transparent)} IN
  /\ from \in Ids(chain)
  /\ Reached({from}, walked) \ {from}
       \subseteq OfTypes(chain, Transparent \cup {"userTask", "end"})

-----------------------------------------------------------------------------
(* hasNestedFork: a branching node among the branches of a fork, up to its *)
(* join; findBranchRoot: the first node of the branch a node is in.        *)
HasNestedFork(chain, fork) ==
  LET inside == {e \in chain.edges : e.to \notin OfTypes(chain, {"join"})} IN
  (Reached({fork}, inside) \ {fork}) \cap OfTypes(chain, {"fork", "inclusive"}) # {}
BranchRoots(chain, id, fork) ==
  LET roots == {e.to : e \in {d \in chain.edges : d.from = fork}} IN
  IF id = fork THEN {} ELSE IF id \in roots THEN {id} ELSE roots \cap Upstream(chain, id)

-----------------------------------------------------------------------------
(* resolveSwitchSuccessor: the first case that holds for the variables as  *)
(* they are decides, Default if none does; a case that is empty or cannot  *)
(* be evaluated leaves it open ("unclear"), and so do other gateways.      *)
Branching == {"switch", "condition", "jsSwitch", "msgTypeSwitch", "inclusive"}
ResolveSwitch(type, cases) ==
  LET decisive == {i \in DOMAIN cases : cases[i].holds # "no"} IN
  IF type \notin {"switch", "condition"} THEN "unclear"
  ELSE IF decisive = {} THEN "Default"
  ELSE IF cases[Min(decisive)].holds = "yes" THEN cases[Min(decisive)].then
  ELSE "unclear"

(* BuildUpcomingNodes: the approvals ahead of the running nodes, along     *)
(* Success and through the gateways whose way is clear.                    *)
BuildUpcomingNodes(chain, running, casesOf) ==
  LET Way(id) == IF TypeOf(chain, id) \in Branching
                 THEN ResolveSwitch(TypeOf(chain, id), casesOf[id]) ELSE "Success"
      ahead == {e \in chain.edges : /\ e.from \in Ids(chain) \ OfTypes(chain, {"end"})
                                    /\ e.label = Way(e.from)} IN
  (Reached(running, ahead) \cap OfTypes(chain, {"userTask"})) \ running
=============================================================================
