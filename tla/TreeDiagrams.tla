---------------------------- MODULE TreeDiagrams ----------------------------
(***************************************************************************)
(* How the fault tree editor of the console turns a fault tree into a      *)
(* diagram (faultTreeToFlow), lays that out and turns it back into a tree  *)
(* (flowToFaultTree): which event is a gate's output and which are its     *)
(* inputs is then decided by the heights at which the nodes were left.     *)
(*                                                                         *)
(* Heights count half rows downwards.  Columns, names, gate types and      *)
(* evaluators are left out: no tree depends on them.                       *)
(***************************************************************************)
EXTENDS Naturals, FiniteSets, SequencesExt

CONSTANTS
  Events, Gates,  \* ids of event and of gate nodes
  None

DiagramsAssumption == Events \cap Gates = {} /\ None \notin Events \cup Gates

(* The elements of s that are in S, in their order: SelectSeq for a set.   *)
Only(s, S) ==
  LET only[n \in 0..Len(s)] ==
        IF n = 0 THEN <<>>
        ELSE IF s[n] \in S THEN Append(only[n - 1], s[n]) ELSE only[n - 1]
  IN  only[Len(s)]

(* The distance of each id from root along next, 0 for one out of reach,   *)
(* which is what both breadth-first searches of the editor compute.        *)
Depths(ids, root, next) ==
  LET upTo[n \in 0..Cardinality(ids)] ==
        IF n = 0 THEN <<{root}>>
        ELSE LET w == upTo[n - 1]
             IN  Append(w, w[n] \cup UNION {next[i] : i \in w[n] \cap ids})
      within == upTo[Cardinality(ids)]
  IN  [i \in ids |->
         LET at == {n \in DOMAIN within : i \in within[n]}
         IN  IF at = {} THEN 0 ELSE (CHOOSE n \in at : \A k \in at : n <= k) - 1]

Highest(S) == CHOOSE n \in S : \A k \in S : k <= n

(* gateByOutput: of several gates with one output the last counts.         *)
GateInputs(tree, e) ==
  LET gs == {i \in DOMAIN tree.gates : tree.gates[i].output = e}
  IN  IF gs = {} THEN {} ELSE ToSet(tree.gates[Highest(gs)].inputs)

EventIds(tree) == {tree.events[i].id : i \in DOMAIN tree.events}

Distinct(s) == \A i, j \in DOMAIN s : s[i].id = s[j].id => i = j

(* A tree with a top event, unless it is empty, whose gates join events of *)
(* its own.                                                                *)
WellFormed(tree) ==
  /\ tree = [top |-> tree.top, events |-> tree.events, gates |-> tree.gates]
  /\ \/ tree.top \in EventIds(tree)
     \/ tree.events = <<>> /\ tree.top = None
  /\ Distinct(tree.events) /\ Distinct(tree.gates)
  /\ tree.events \in Seq([id : Events, top : BOOLEAN])
  /\ tree.gates \in
       Seq([id : Gates, output : EventIds(tree) \cup {None}, inputs : Seq(EventIds(tree))])

EventDepth(tree) ==
  Depths(EventIds(tree), tree.top, [e \in EventIds(tree) |-> GateInputs(tree, e)])

\* A plausible bug: a gate is drawn at the height of its inputs' parent.
GateHeightAtOutput(depth, g) ==
  IF g.output = None THEN 0 ELSE 2 * depth[g.output]

(* A gate stands halfway between its output and its deepest input.         *)
GateHeight(depth, g) ==
  LET output == IF g.output = None THEN 0 ELSE depth[g.output]
  IN  IF g.inputs = <<>> THEN 2 * output
      ELSE output + Highest({depth[e] : e \in ToSet(g.inputs)})

(* faultTreeToFlow *)
Flow(tree) ==
  IF tree = None THEN [nodes |-> <<>>, edges |-> <<>>] ELSE
  LET depth == EventDepth(tree) IN
  [nodes |->
     [i \in DOMAIN tree.events |->
        [id |-> tree.events[i].id, top |-> tree.events[i].top,
         y |-> 2 * depth[tree.events[i].id]]]
     \o [i \in DOMAIN tree.gates |->
          [id |-> tree.gates[i].id, top |-> FALSE, y |-> GateHeight(depth, tree.gates[i])]],
   edges |->
     FlattenSeq([i \in DOMAIN tree.gates |->
       LET g == tree.gates[i]
       IN  <<<<g.output, g.id>>>> \o [j \in DOMAIN g.inputs |-> <<g.id, g.inputs[j]>>]])]

NodeIds(d) == {d.nodes[i].id : i \in DOMAIN d.nodes}

Node(d, id) == d.nodes[CHOOSE i \in DOMAIN d.nodes : d.nodes[i].id = id]

Entered(d) == {d.edges[i][2] : i \in DOMAIN d.edges}

NodesOf(d, ids) == Only(d.nodes, {n \in ToSet(d.nodes) : n.id \in ids})

EventNodes(d) == NodesOf(d, Events)

(* The top event: the first marked so, else the first nothing leads to,    *)
(* else the first.                                                         *)
TopEvent(d) ==
  LET events == EventNodes(d)
      marked == Only(events, {n \in ToSet(events) : n.top})
      roots  == Only(events, {n \in ToSet(events) : n.id \notin Entered(d)})
  IN  IF marked # <<>> THEN marked[1].id
      ELSE IF roots # <<>> THEN roots[1].id
      ELSE IF events # <<>> THEN events[1].id ELSE None

(* The events joined to a gate, by edges of either direction, in their     *)
(* order.                                                                  *)
Joined(d, g) ==
  LET other(e) == IF e[1] = g THEN e[2] ELSE e[1]
      events == NodeIds(d) \cap Events
      near == Only(d.edges, {e \in ToSet(d.edges) : g \in {e[1], e[2]} /\ other(e) \in events})
  IN  [i \in DOMAIN near |-> other(near[i])]

\* A plausible bug: the direction in which an edge was drawn decides.
AboveByDirection(d, e, g) == <<e, g>> \in ToSet(d.edges)

Above(d, e, g) == Node(d, e).y < Node(d, g).y

SavedGate(d, g) ==
  LET joined  == Joined(d, g)
      above   == {e \in ToSet(joined) : Above(d, e, g)}
      outputs == Only(joined, above)
  IN  [id |-> g, output |-> IF outputs = <<>> THEN None ELSE outputs[1],
       inputs |-> Only(joined, ToSet(joined) \ above)]

(* flowToFaultTree *)
Saved(d) ==
  LET events == EventNodes(d)
      gates  == NodesOf(d, Gates)
      top    == TopEvent(d)
  IN  [top |-> top,
       events |-> [i \in DOMAIN events |->
                     [id |-> events[i].id, top |-> events[i].top \/ events[i].id = top]],
       gates |-> [i \in DOMAIN gates |-> SavedGate(d, gates[i].id)]]

\* A plausible bug: the layout starts from the first node of the diagram.
LayoutRootFirst(d) == d.nodes[1].id

LayoutRoot(d) ==
  LET roots == NodesOf(d, NodeIds(d) \ Entered(d))
  IN  IF roots # <<>> THEN roots[1].id ELSE d.nodes[1].id

(* autoLayout *)
LaidOut(d) ==
  LET next  == [i \in NodeIds(d) |-> {e[2] : e \in {f \in ToSet(d.edges) : f[1] = i}}]
      depth == Depths(NodeIds(d), LayoutRoot(d), next)
  IN  [d EXCEPT !.nodes =
         [i \in DOMAIN d.nodes |-> [d.nodes[i] EXCEPT !.y = 2 * depth[d.nodes[i].id]]]]
=============================================================================
