----------------------------- MODULE ChainShape -----------------------------
(***************************************************************************)
(* What a deployment, and every loading of a chain, adds to a definition   *)
(* so that no message runs out of it before an end node: model_func.go.    *)
(* A chain is the sequence of its nodes and the set of its connections.    *)
(***************************************************************************)
EXTENDS Integers, FiniteSets, SequencesExt

Chain(nodes, edges) == [nodes |-> nodes, edges |-> edges]
Node(id, type) == [id |-> id, type |-> type]
Edge(from, to, label) == [from |-> from, to |-> to, label |-> label]

Ends(chain) == SelectSeq(chain.nodes, LAMBDA n : n.type = "end")
Switches(chain) == {n \in ToSet(chain.nodes) : n.type = "switch"}
Ids(chain) == {n.id : n \in ToSet(chain.nodes)}
Sources(chain) == {e.from : e \in chain.edges}

(* An id of its own for the added end node. *)
EndId(chain) == CHOOSE id \in 0 .. Len(chain.nodes) : id \notin Ids(chain)

(* EnsureEndNode: a chain without an end node gets one, and every node     *)
(* without a connection of its own leads to it.                            *)
EnsureEndNode(chain) ==
  LET end == EndId(chain) IN
  IF chain.nodes = <<>> \/ Ends(chain) # <<>> THEN chain
  ELSE Chain(Append(chain.nodes, Node(end, "end")),
             chain.edges \cup {Edge(id, end, "Success") : id \in Ids(chain) \ Sources(chain)})

(* EnsureSwitchDefaultEdges: a gateway without a Default connection gets   *)
(* one to the last end node of the list.                                   *)
EnsureSwitchDefaultEdges(chain) ==
  LET ends == Ends(chain)
      bare == {n \in Switches(chain) : ~\E e \in chain.edges : e.from = n.id /\ e.label = "Default"} IN
  IF ends = <<>> THEN chain
  ELSE Chain(chain.nodes, chain.edges \cup {Edge(n.id, Last(ends).id, "Default") : n \in bare})

Normalised(chain) == EnsureSwitchDefaultEdges(EnsureEndNode(chain))

-----------------------------------------------------------------------------
(* A message at a node that is not an end goes on along some connection;   *)
(* at a gateway whose cases all fail, along Default.                       *)
GoesOn(chain) ==
  /\ \A n \in ToSet(chain.nodes) : n.type # "end" => n.id \in Sources(chain)
  /\ \A n \in Switches(chain) : \E e \in chain.edges : e.from = n.id /\ e.label = "Default"
=============================================================================
