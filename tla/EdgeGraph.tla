------------------------------ MODULE EdgeGraph ------------------------------
(***************************************************************************)
(* The graphs of the dependency manager, dep_manage/graph_based.rs, and    *)
(* what is done to them.  A graph is a set of variables and a sequence of  *)
(* edges <<from, to, w>>: an assignment to from reads to at w elements     *)
(* from the current one.  Equal edges may occur several times: each        *)
(* assignment has its own.                                                 *)
(***************************************************************************)
EXTENDS Integers, Sequences, FiniteSets, SequencesExt

Graph(nodes, edges) == [nodes |-> nodes, edges |-> edges]

\* merge_graphs
MergeGraphs(g, h) == Graph(g.nodes \union h.nodes, g.edges \o h.edges)

\* Wrong: every edge equal to one of the others goes.
WithoutEqual(edges, others) == SelectSeq(edges, LAMBDA x : ~Contains(others, x))

\* Of each of the others one occurrence is removed, if there is one.
Without(edges, others) ==
  LET left[i \in 0 .. Len(others)] ==
        IF i = 0 THEN edges ELSE RemoveFirst(left[i - 1], others[i])
  IN left[Len(others)]

\* diff_graphs: the nodes stay.
DiffGraphs(g, h) == Graph(g.nodes \union h.nodes, Without(g.edges, h.edges))

Size(w) == IF w < 0 THEN -w ELSE w

\* longest_time_dependency: the longest way back anything reads v.
LongestTimeDependency(g, v) ==
  LET sizes == {Size(g.edges[i][3]) : i \in {j \in DOMAIN g.edges : g.edges[j][2] = v}} \union {0}
  IN CHOOSE n \in sizes : \A m \in sizes : m <= n

-----------------------------------------------------------------------------
\* Graphs have the same edges if each occurs equally often; the order in which
\* they are kept does not count.
Occurrences(edges, x) == Cardinality({i \in DOMAIN edges : edges[i] = x})
SameEdges(g, h) ==
  \A x \in ToSet(g.edges) \union ToSet(h.edges) :
    Occurrences(g.edges, x) = Occurrences(h.edges, x)
=============================================================================
