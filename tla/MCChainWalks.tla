---------------------------- MODULE MCChainWalks ----------------------------
(***************************************************************************)
(* What ChainShape and ChainWalks say of small chains. Facts without a     *)
(* state, evaluated before the run of the module that extends this one.    *)
(***************************************************************************)
EXTENDS Integers, SequencesExt

Shape == INSTANCE ChainShape
Walk == INSTANCE ChainWalks

(* Chains of n nodes of some types along some of the connections between   *)
(* two nodes; an end node leads nowhere.                                   *)
Connections(n, labels) ==
  {Shape!Edge(i, j, label) : i \in 1 .. n, j \in 1 .. n, label \in labels}
Forward(edges) == {e \in edges : e.from < e.to}
ChainsOf(n, types, edges) ==
  {Shape!Chain([i \in 1 .. n |-> Shape!Node(i, type[i])],
               {e \in used : e.from \in 1 .. n => type[e.from] # "end"}) :
     type \in [1 .. n -> types], used \in SUBSET edges}
Chains ==
  UNION {ChainsOf(n, {"task", "switch", "end"}, Forward(Connections(n, {"Success", "Default"}))) :
           n \in 1 .. 3}

(* A chain drawn without an end node never strands a message once it is    *)
(* normalised: this needs the end node added before the Default edges.     *)
ASSUME NormalisedGoesOn ==
  \A chain \in Chains : Shape!Ends(chain) = <<>> => Shape!GoesOn(Shape!Normalised(chain))

(* The stored definition was normalised when it was deployed and is        *)
(* normalised again whenever it is loaded: the second time adds nothing,   *)
(* so every replica runs the chain that is stored.                         *)
ASSUME NormalisedOnce ==
  \A chain \in Chains : Shape!Normalised(Shape!Normalised(chain)) = Shape!Normalised(chain)

(* A chain drawn without an end node that is accepted leads every message  *)
(* to an end whichever way it takes: from no node can one go on for ever.  *)
ASSUME AcceptedEnds ==
  \A chain \in ChainsOf(3, {"task", "switch"}, Connections(3, {"Success"})) :
    ~Walk!DetectChainCycle(chain) =>
      LET deployed == Shape!Normalised(chain)
          Dead[k \in 0 .. 4] ==  \* nodes whose ways all end within k steps
            IF k = 0 THEN {Shape!Ends(deployed)[1].id}
            ELSE {id \in Shape!Ids(deployed) :
                    \/ id \in Dead[0]
                    \/ /\ id \in Shape!Sources(deployed)
                       /\ \A e \in deployed.edges : e.from = id => e.to \in Dead[k - 1]} IN
      Dead[4] = Shape!Ids(deployed)

(* What is accepted when it is deployed is not degraded when it is run,    *)
(* though the chain was normalised in between, and comes to the node that  *)
(* rejected again.                                                         *)
ASSUME RejectionsCarriedOut ==
  \A chain \in ChainsOf(3, {"userTask", "fork", "switch", "end"}, Forward(Connections(3, {"Success"}))) :
    LET deployed == Shape!Normalised(chain) IN
    \A self \in Walk!OfTypes(chain, {"userTask"}) :
      /\ \A strategy \in {"terminate", "toStarter", "toNode"}, target \in 1 .. 4 :
           Walk!RejectAccepted(chain, self, strategy, target)
             => /\ ~Walk!RejectDegraded(deployed, self, strategy, target)
                /\ strategy = "toNode" => self \in Walk!Downstream(deployed, target)
      /\ Walk!PrevUserTasks(deployed, self) = Walk!PrevUserTasks(chain, self)
      /\ \A target \in Walk!PrevUserTasks(chain, self) :
           Walk!RejectAccepted(chain, self, "toPrev", target)
             => ~Walk!RejectDegraded(deployed, self, "toPrev", target)

(* An answer may be taken back exactly if no way on from it, up to the     *)
(* next approval, meets a node that does something of its own.             *)
Ways(chain, from) ==
  {way \in UNION {[1 .. k -> 0 .. 5] : k \in 2 .. 4} :
     /\ way[1] = from
     /\ \A i \in 1 .. Len(way) - 1 : \E e \in chain.edges :
          /\ e.from = way[i] /\ e.to = way[i + 1]
          /\ i = 1 => e.label = "Success"
          /\ i > 1 => way[i] \in Walk!OfTypes(chain, Walk!Transparent)}
ASSUME RecallPathClear ==
  \A chain \in ChainsOf(3, {"userTask", "switch", "http"},
                        {Shape!Edge(1, 2, "Success"), Shape!Edge(1, 3, "Failure"), Shape!Edge(1, 3, "Success"),
                         Shape!Edge(2, 3, "Default"), Shape!Edge(3, 4, "Success"), Shape!Edge(2, 4, "Success")}) :
    chain.nodes[1].type = "userTask" =>
      (Walk!CheckRecallPath(chain, 1) <=>
         \A way \in Ways(chain, 1) :
           Last(way) \in Walk!OfTypes(chain, Walk!Transparent \cup {"userTask", "end"}))

(* The forecast names no approval that the instance, with its variables as *)
(* they are and every approval given, might not come to, whatever the      *)
(* gateways decide that it cannot foresee ("rather missing than wrong",    *)
(* comment of resolveSwitchSuccessor); and all of them if there are none.  *)
Cases == {[holds |-> h, then |-> l] : h \in {"yes", "no", "fails"}, l \in {"left", "Default"}}
Failing == [holds |-> "no", then |-> "left"]
ASSUME ForecastNeverWrong ==
  \A chain \in ChainsOf(4, {"userTask", "switch", "jsSwitch"},
                        {Shape!Edge(1, 2, "Success"), Shape!Edge(2, 3, "Success"), Shape!Edge(2, 3, "left"),
                         Shape!Edge(2, 4, "Default"), Shape!Edge(3, 4, "left"), Shape!Edge(3, 4, "Success")}),
     cases \in {<<>>} \cup {<<c>> : c \in Cases} \cup {<<Failing, c>> : c \in Cases} :
    chain.nodes[1].type = "userTask" =>
    LET upcoming == Walk!BuildUpcomingNodes(chain, {1}, [id \in 1 .. 4 |-> cases])
        holding == SelectSeq(cases, LAMBDA c : c.holds # "no")
        Foreseeable(id) == /\ chain.nodes[id].type = "switch"
                           /\ holding # <<>> => holding[1].holds = "yes"
        Taken(id, choice) == CASE chain.nodes[id].type = "userTask" -> "Success"
                               [] Foreseeable(id) /\ holding = <<>> -> "Default"
                               [] Foreseeable(id) /\ holding # <<>> -> holding[1].then
                               [] OTHER -> choice[id]
        Met(choice) ==
          Walk!Reached({1}, {e \in chain.edges : e.label = Taken(e.from, choice)})
            \cap (Walk!OfTypes(chain, {"userTask"}) \ {1})
        Unforeseen == [2 .. 4 -> {"left", "Default", "Failure"}] IN
    /\ \A choice \in Unforeseen : upcoming \subseteq Met(choice)
    /\ (\A id \in 1 .. 4 : chain.nodes[id].type = "userTask" \/ Foreseeable(id)) =>
         \A choice \in Unforeseen : upcoming = Met(choice)
=============================================================================
