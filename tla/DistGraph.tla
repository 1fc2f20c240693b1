------------------------------ MODULE DistGraph ------------------------------
(***************************************************************************)
(* Distribution graphs (distributed/distribution_graphs.rs), the labels    *)
(* the planners put on them, and what a node makes of its label.           *)
(*                                                                         *)
(* A graph is a record: the names of its nodes in the order of their       *)
(* indices, the index of the central monitor, and a set of weighted edges  *)
(* <<from, to, weight>> between indices.  A labelled graph adds the        *)
(* variables monitored at each index.  What the code keeps as an Option is *)
(* a set of at most one element.                                           *)
(***************************************************************************)
EXTENDS Integers, Sequences, SequencesExt, FiniteSetsExt

Farthest == 99                         \* stands for i64::MAX

DistributionGraph(nodes, central, edges) == [nodes |-> nodes, central |-> central, edges |-> edges]
LabelledGraph(graph, vars, labels) == [graph |-> graph, vars |-> vars, labels |-> labels]

Indices(graph) == DOMAIN graph.nodes

\* The least of some numbers, if there are any.
LeastOf(costs) == {Min(c) : c \in {costs} \ {{}}}

\* get_node_index_by_name: the first node of that name.
IndexOf(graph, name) ==
  LeastOf({i \in Indices(graph) : graph.nodes[i] = name})

-----------------------------------------------------------------------------
\* The paths from node n of at most as many edges as there are nodes: where
\* each ends, and its cost.
Paths(graph, n) ==
  LET stays == {<<i, i, 0>> : i \in Indices(graph)}
      ends[k \in 0 .. Len(graph.nodes)] ==
        IF k = 0 THEN {<<n, 0>>}
        ELSE {<<q[2][2], q[1][2] + q[2][3]>> :
                q \in {r \in ends[k - 1] \X (graph.edges \union stays) : r[1][1] = r[2][1]}}
  IN ends[Len(graph.nodes)]

CostsToAny(graph, n, goals) == {p[2] : p \in {q \in Paths(graph, n) : q[1] \in goals}}

\* astar from a node to the nearest of some nodes.
Nearest(graph, n, goals) == LeastOf(CostsToAny(graph, n, goals))

MonitorsOf(plan, v) == {i \in DOMAIN plan.labels : v \in ToSet(plan.labels[i])}

\* The six Distance implementations: an end is a node by its name, or a
\* variable, which is wherever it is monitored.  A name the graph does not
\* have is a panic of the code.
Ends(plan, x) == IF x[1] = "node" THEN IndexOf(plan.graph, x[2]) ELSE MonitorsOf(plan, x[2])
Distance(plan, x, y) ==
  LeastOf(UNION {Nearest(plan.graph, n, Ends(plan, y)) : n \in Ends(plan, x)})

\* dist and monitored_at: what an expression of a specification sees of them.
Dist(plan, x, y) ==
  Min(Distance(plan, x, y) \union {Farthest})
MonitoredAt(plan, v, name) == IndexOf(plan.graph, name) \subseteq MonitorsOf(plan, v)

\* disambiguate_name: a node hides a variable of its name.
Disambiguate(nodeNames, vars, name) ==
  IF name \in nodeNames THEN {<<"node", name>>}
  ELSE IF name \in vars THEN {<<"var", name>>} ELSE {}

-----------------------------------------------------------------------------
\* Positions in whole numbers; position_distance is truncated to one.
Pos == Int \X Int \X Int
PositionDistance(p, q) ==
  LET Sq(i) == (p[i] - q[i]) * (p[i] - q[i])
      square == Sq(1) + Sq(2) + Sq(3)
  IN Max({d \in 0 .. square : d * d <= square})

\* Wrong: the central monitor is not connected to the robots.
Unconnected(central, locations, positions) ==
  LET N == Len(locations)
      between == {<<i, j, PositionDistance(positions[i], positions[j])>> :
                    i \in 1 .. N, j \in 1 .. N}
  IN IF central \in ToSet(locations)
     THEN DistributionGraph(locations, CHOOSE i \in 1 .. N : locations[i] = central, between)
     ELSE DistributionGraph(Append(locations, central), N + 1, between)

\* dist_graph_from_positions: a central monitor without a position of its own
\* becomes a node at distance 0 from every other one, both ways.
FromPositions(central, locations, positions) ==
  LET N == Len(locations)
      between == {<<p[1], p[2], PositionDistance(positions[p[1]], positions[p[2]])>> :
                    p \in {q \in (1 .. N) \X (1 .. N) : q[1] # q[2]}}
      spokes == {<<i, N + 1, 0>> : i \in 1 .. N} \union {<<N + 1, i, 0>> : i \in 1 .. N}
  IN IF central \in ToSet(locations)
     THEN DistributionGraph(locations, CHOOSE i \in 1 .. N : locations[i] = central, between)
     ELSE DistributionGraph(Append(locations, central), N + 1, between \union spokes)

-----------------------------------------------------------------------------
\* CentralisedSchedulerPlanner, RandomSchedulerPlanner: all variables at the
\* central node, or each at any node.
CentralisedPlan(graph, vars, centralNode) ==
  LabelledGraph(graph, vars,
    [i \in Indices(graph) |-> IF graph.nodes[i] = centralNode THEN vars ELSE <<>>])

VarsAt(vars, where, i) == SelectSeq(vars, LAMBDA v : where[v] = i)
RandomPlans(graph, vars) ==
  {LabelledGraph(graph, vars, [i \in Indices(graph) |-> VarsAt(vars, where, i)]) :
     where \in [ToSet(vars) -> Indices(graph)]}

\* VarAssignmentsIter: assignments of variables to locations in the order the
\* iterator yields them; the location of the first variable changes first.
VarAssignments(locations, vars) ==
  LET L == Len(locations)
      from[k \in 1 .. Len(vars) + 1] ==
        IF k > Len(vars) THEN <<[v \in {} |-> 0]>>
        ELSE LET rest == from[k + 1]
             IN [j \in 1 .. L * Len(rest) |->
                   [v \in {vars[m] : m \in k .. Len(vars)} |->
                      IF v = vars[k] THEN locations[((j - 1) % L) + 1]
                      ELSE rest[((j - 1) \div L) + 1][v]]]
  IN from[1]

\* The labels of one assignment.  The central monitor's label is collected
\* last and replaces what the assignment put there; a node whose name an
\* earlier one has gets no label.
LabelsOf(graph, centralVars, vars, assignment) ==
  [i \in {j \in Indices(graph) : j \in IndexOf(graph, graph.nodes[j])} \union {graph.central} |->
     IF i = graph.central THEN centralVars
     ELSE SelectSeq(vars, LAMBDA v : assignment[v] = graph.nodes[i])]

\* PossibleLabelledDistGraphs
PossibleLabelled(graph, centralVars, vars) ==
  LET assignments == VarAssignments(graph.nodes, vars)
  IN [k \in DOMAIN assignments |->
        LabelledGraph(graph, vars, LabelsOf(graph, centralVars, vars, assignments[k]))]

-----------------------------------------------------------------------------
\* local_vars: by a list of variables, or by a node of a labelled graph.
LocalVars(locality) ==
  IF locality[1] = "vars" THEN locality[2]
  ELSE locality[3].labels[Min(IndexOf(locality[3].graph, locality[2]))]

\* localise: the local assignments, and as inputs what they read that is an
\* input or is computed elsewhere.
Localise(spec, local) ==
  LET outs == SelectSeq(spec.outputs, LAMBDA v : Contains(local, v))
      removed == SelectSeq(spec.outputs, LAMBDA v : ~Contains(local, v))
      reads == UNION {spec.reads[v] : v \in ToSet(outs)}
  IN [inputs |-> SelectSeq(spec.inputs \o removed, LAMBDA v : v \in reads), outputs |-> outs,
      reads |-> [v \in ToSet(outs) |-> spec.reads[v]]]
=============================================================================
