--------------------------- MODULE LogicBackbone ---------------------------
(* The logic backbone: the computation graph a design document embeds, the   *)
(* defects the gate blocks it for, and the execution order and triggers that *)
(* the brief of a build session is given from its projection.                *)
(*                                                                           *)
(* A graph is a sequence of nodes [id, role] and a sequence of edges         *)
(* [from, to, kind], always from the producer to the consumer.               *)
EXTENDS Integers, FiniteSets, SequenceParts, SequencesExt

DrivingKinds == {"feeds", "serves", "triggers"}

Roles == {"input", "intermediate", "terminal_explanatory", "trigger", "hint"}
MustBeConsumed == {"input", "intermediate"}

Ids(graph) == {n.id : n \in ToSet(graph.nodes)}

\* The edges that make up the dependency graph: driving, between two nodes
\* that exist.
DrivingEdges(graph) ==
  {i \in DOMAIN graph.edges :
     LET e == graph.edges[i]
     IN  e.kind \in DrivingKinds /\ {e.from, e.to} \subseteq Ids(graph)}

---------------------------------------------------------------------------
(* The gate                                                                *)

DuplicateIds(graph) ==
  {[code |-> "duplicate_node_id", node |-> id] :
     id \in {id \in Ids(graph) :
       \E i, j \in DOMAIN graph.nodes :
         i # j /\ graph.nodes[i].id = id /\ graph.nodes[j].id = id}}

DanglingRefs(graph) ==
  {[code |-> "dangling_reference", node |-> end] :
     end \in (UNION {{e.from, e.to} : e \in ToSet(graph.edges)}) \ Ids(graph)}

\* Mutated form: only one kind of driving edge is followed.
CyclesOfFeeds(graph) ==
  {[code |-> "cycle_detected", node |-> id] :
     id \in UNION {C \in SUBSET Ids(graph) :
       \A x \in C : \E i \in DrivingEdges(graph) :
         LET e == graph.edges[i] IN e.kind = "feeds" /\ e.from = x /\ e.to \in C}}

\* The nodes from which the driving edges lead round for ever.
Cycles(graph) ==
  {[code |-> "cycle_detected", node |-> id] :
     id \in UNION {C \in SUBSET Ids(graph) :
       \A x \in C : \E i \in DrivingEdges(graph) :
         graph.edges[i].from = x /\ graph.edges[i].to \in C}}

\* An edge counts only when its target exists.
ConsumptionAndTriggers(graph) ==
  LET to(kinds) == {e.from : e \in {e \in ToSet(graph.edges) :
                                      e.to \in Ids(graph) /\ e.kind \in kinds}}
  IN  {[code |-> "orphan_node", node |-> n.id] :
         n \in {n \in ToSet(graph.nodes) :
                  n.role \in MustBeConsumed /\ n.id \notin to(DrivingKinds)}}
      \cup
      {[code |-> "unbound_trigger", node |-> n.id] :
         n \in {n \in ToSet(graph.nodes) :
                  n.role = "trigger" /\ n.id \notin to({"triggers"})}}

ValidateLogicBackbone(graph) ==
  DuplicateIds(graph) \cup DanglingRefs(graph) \cup Cycles(graph) \cup ConsumptionAndTriggers(graph)

---------------------------------------------------------------------------
(* The brief                                                               *)

\* How many edges each node waits for; those that wait for none are queued.
Start(graph) ==
  LET indeg == [id \in Ids(graph) |->
                  Cardinality({i \in DrivingEdges(graph) : graph.edges[i].to = id})]
  IN  [queue |-> Only([i \in DOMAIN graph.nodes |-> graph.nodes[i].id],
                      {id \in Ids(graph) : indeg[id] = 0}),
       order |-> <<>>, indeg |-> indeg]

\* One edge into id less.
Relax(s, id) ==
  [queue |-> IF s.indeg[id] = 1 THEN Append(s.queue, id) ELSE s.queue,
   order |-> s.order, indeg |-> [s.indeg EXCEPT ![id] = @ - 1]]

\* The first in the queue is next in the order, and its edges are relaxed.
Pop(graph, s) ==
  LET id == Head(s.queue)
      relaxed[k \in 0 .. Len(graph.edges)] ==
        IF k = 0 THEN [queue |-> Tail(s.queue), order |-> Append(s.order, id), indeg |-> s.indeg]
        ELSE IF k \in DrivingEdges(graph) /\ graph.edges[k].from = id
             THEN Relax(relaxed[k - 1], graph.edges[k].to)
             ELSE relaxed[k - 1]
  IN  relaxed[Len(graph.edges)]

\* No more pops than there are nodes: a node is queued once.
TopoOrder(graph) ==
  LET after[n \in 0 .. Len(graph.nodes)] ==
        IF n = 0 THEN Start(graph)
        ELSE IF after[n - 1].queue = <<>> THEN after[n - 1] ELSE Pop(graph, after[n - 1])
      order == after[Len(graph.nodes)].order
  IN  IF Len(order) = Len(graph.nodes) THEN order
      ELSE [i \in DOMAIN graph.nodes |-> graph.nodes[i].id]

Triggers(graph) == {e \in ToSet(graph.edges) : e.kind = "triggers"}

---------------------------------------------------------------------------
(* Property                                                                *)

Precedes(order, a, b) == \E i, j \in DOMAIN order : i < j /\ order[i] = a /\ order[j] = b

\* A graph the gate lets through orders itself: the order the build session is
\* given has every node once, each producer before its consumers, and every
\* value that must be consumed and every trigger comes before something that
\* consumes it or that it fires (logic-graph-summary.ts "Node ids in dependency
\* (topological) order"; the validator looks for cycles by depth first search,
\* the order is computed from the persisted graph alone).
GraphOrdersItself(graph) ==
  ValidateLogicBackbone(graph) = {} =>
    LET order == TopoOrder(graph)
    IN  /\ Len(order) = Len(graph.nodes) /\ ToSet(order) = Ids(graph)
        /\ \A e \in ToSet(graph.edges) :
             e.kind \in DrivingKinds => Precedes(order, e.from, e.to)
        /\ \A n \in ToSet(graph.nodes) :
             /\ n.role \in MustBeConsumed => \E e \in ToSet(graph.edges) :
                  e.kind \in DrivingKinds /\ e.from = n.id /\ Precedes(order, n.id, e.to)
             /\ n.role = "trigger" => \E e \in Triggers(graph) :
                  e.from = n.id /\ Precedes(order, n.id, e.to)
=============================================================================
