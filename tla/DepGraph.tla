------------------------------ MODULE DepGraph ------------------------------
(***************************************************************************)
(* The dependency manager, dep_manage/graph_based.rs and empty.rs: the     *)
(* graph of a specification and that of an expression.                     *)
(***************************************************************************)
EXTENDS LolaExpr, EdgeGraph

RECURSIVE Deps(_, _, _)
\* deps_impl: the edges of an expression of variable root, and the indices met
\* so far.  An index is pushed when its operand is entered and never popped, so
\* the variables to its right are reached with it too.  Of a restricted dynamic
\* only the expression that supplies the property is traversed.
Deps(e, steps, root) ==
  IF e.op = "Var" THEN
    [steps |-> steps,
     edges |-> IF steps = <<>> THEN <<<<root, e.at[2], 0>>>>
               ELSE [i \in DOMAIN steps |-> <<root, e.at[2], steps[i]>>]]
  ELSE FoldLeft(LAMBDA acc, arg : LET d == Deps(arg, acc.steps, root)
                                  IN [d EXCEPT !.edges = acc.edges \o @],
                [steps |-> IF e.op = "SIndex" THEN Append(steps, e.at[2]) ELSE steps,
                 edges |-> <<>>],
                e.args)

\* sexpr_dependencies
SexprDependencies(e, root) ==
  LET edges == Deps(e, <<>>, root).edges
  IN Graph({root} \union {edges[i][2] : i \in DOMAIN edges}, edges)

\* add_dependency
AddDependency(g, v, e) == MergeGraphs(g, SexprDependencies(e, v))

\* remove_dependency
RemoveDependency(g, v, e) == DiffGraphs(g, SexprDependencies(e, v))

\* DepGraph::new
NewGraph(spec) ==
  FoldLeft(LAMBDA g, v : IF v \in DOMAIN spec.exprs THEN AddDependency(g, v, spec.exprs[v]) ELSE g,
           Graph({}, <<>>), spec.outputs)

\* A cycle of edges in which no time passes: some variable is reached from
\* itself over one or more instantaneous edges.
InstantCycle(nodes, edges) ==
  LET Successors(vs) == {e[2] : e \in {d \in edges : d[1] \in vs /\ d[3] = 0}}
      Reached(v) ==
        LET reach[n \in 0 .. Cardinality(nodes)] ==
              IF n = 0 THEN Successors({v}) ELSE reach[n - 1] \union Successors(reach[n - 1])
        IN reach[Cardinality(nodes)]
  IN \E v \in nodes : v \in Reached(v)
=============================================================================
