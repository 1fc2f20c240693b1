----------------------------- MODULE LolaStatic -----------------------------
(***************************************************************************)
(* The streams of a static specification as the solutions of equations.    *)
(*                                                                         *)
(* A specification is static when it is made of values, variables, binary  *)
(* operators, not, if, default and indices; of what the type checker can   *)
(* accept only dynamic is missing.  V gives every expression a stream      *)
(* whose elements satisfy the equations of to_async_stream, and T a type   *)
(* that satisfies those of type_check_raw.  The equations are those of     *)
(* ValueAt and TypeCheckRaw, made of the same operators; a measure d that  *)
(* every read of an element decreases takes the place of their recursion.  *)
(***************************************************************************)
EXTENDS LolaOperators

Pos == Nat \ {0}
Symbols == NumericalOps \cup {"||", "&&", "++", "==", "<=", "<", ">=", ">"}
RowOps == {"BinOp", "Not", "If", "Default"}

Arity(op) == CASE op \in {"Val", "Var"} -> 0 [] op \in {"Not", "SIndex"} -> 1
               [] op \in {"BinOp", "Default"} -> 2 [] op = "If" -> 3

\* x is a value of the type.
Of(x, type) ==
  /\ x[1] = type
  /\ CASE type = "Int" -> x = Int64(x[2]) /\ x[2] \in Int
       [] type = "Float" -> x = Float(x[2])
       [] type = "Str" -> x = Str(x[2])
       [] type = "Bool" -> x \in {Bool(TRUE), Bool(FALSE)}
       [] type = "Unit" -> x = Unit
IsValue(x) == \E type \in Types : Of(x, type)
IsStop(x) == x = End \/ x = Waiting \/ \E why : x = Panic(why)

\* x is an element of a stream of the type.
Fits(x, type) == Of(x, type) \/ x = Unknown \/ IsStop(x)

-----------------------------------------------------------------------------
(* Specifications and runs.                                                *)

\* The nodes E of a static specification: with every node its operands.
StaticSpec(spec, E) ==
  /\ \A e \in E :
       /\ e.op \in {"Val", "Var", "SIndex"} \cup RowOps
       /\ DOMAIN e.args = 1 .. Arity(e.op)
       /\ \A i \in 1 .. Arity(e.op) : e.args[i] \in E
       /\ e.op = "Val" => IsValue(e.at[2])
       /\ e.op = "Var" => e.at[2] \in ToSet(spec.inputs) \cup DOMAIN spec.exprs
       /\ e.op = "BinOp" => e.at[2] \in Symbols
       /\ e.op = "SIndex" => e.at[2] \in Int
  /\ \A v \in DOMAIN spec.exprs : spec.exprs[v] \in E

\* The rows of a run hold values of the inputs.
RowsOfValues(run) ==
  /\ Len(run.rows) \in Nat
  /\ \A n \in 1 .. Len(run.rows) : \A v \in ToSet(run.spec.inputs) : IsValue(run.rows[n][v])

\* Where an index is an operand it has its default, and no assignment is one.
Defaulted(spec, E) ==
  /\ \A v \in DOMAIN spec.exprs : spec.exprs[v].op # "SIndex"
  /\ \A e \in E : \A i \in 1 .. Arity(e.op) :
       e.args[i].op = "SIndex" => e.op = "Default" /\ i = 1

-----------------------------------------------------------------------------
(* Streams.                                                                *)

\* A variable's own stream: the input's rows, or the stream of its expression.
Own(run, V, v, t) ==
  IF v \in ToSet(run.spec.inputs) THEN Delivered(run, v, t) ELSE V[run.spec.exprs[v]][t]

\* The elements t of the operands of e, and what else f gives them.
Row(V, e, t) == [i \in 1 .. Arity(e.op) |-> V[e.args[i]][t]]
Operands(f, e) == [i \in 1 .. Arity(e.op) |-> f[e.args[i]]]

\* Element t of the stream of e, made of the streams V of its operands and of
\* the variables, which have the lengths L.
Element(run, V, L, e, t) ==
  CASE e.op = "Val" -> e.at[2]
    [] e.op = "Var" -> Subscribed(run, e.at[2], Own(run, V, e.at[2], t))
    [] e.op \in RowOps -> Elementwise(run, e, Row(V, e, t))
    [] e.op = "SIndex" ->
         Indexed(e.at[2], t, V[e.args[1]][t + e.at[2]], L[e.args[1]])

\* n is the number of elements before the stream stops.
Measured(stream, n) ==
  n \in Nat /\ Stopped(stream[n + 1]) /\ \A k \in 1 .. n : ~Stopped(stream[k])

\* V gives every expression in E its stream, and L the number of its elements
\* to the streams that end.
Computes(run, E, V, L) ==
  \A e \in E : \A t \in Pos :
    /\ V[e][t] = Element(run, V, L, e, t)
    /\ V[e][t] = End => Measured(V[e], L[e])

\* The elements that element t of e is computed from: element n of x.
Reads(spec, e, t, x, n) ==
  CASE e.op = "Val" -> FALSE
    [] e.op = "Var" ->
         e.at[2] \notin ToSet(spec.inputs) /\ x = spec.exprs[e.at[2]] /\ n = t
    [] e.op \in RowOps -> n = t /\ \E i \in 1 .. Arity(e.op) : x = e.args[i]
    [] e.op = "SIndex" ->
         x = e.args[1] /\ (n = t + e.at[2] \/ (e.at[2] >= 0 /\ n <= t + e.at[2]))

\* No element is computed from itself, however indirectly: d counts down.
Acyclic(spec, E, d) ==
  \A e \in E : \A t \in Pos :
    /\ d[e][t] \in Nat
    /\ \A x \in E : \A n \in Pos : Reads(spec, e, t, x, n) => d[x][n] < d[e][t]

-----------------------------------------------------------------------------
(* Types.                                                                  *)

\* The type the checker gives e, made of the types T of its operands.
TypeOfExpr(spec, T, e) == TypeOfNode(e, Operands(T, e), spec.types)

\* T gives every expression in E the type the checker gives it, none an error.
Accepted(spec, E, T) == \A e \in E : T[e] = TypeOfExpr(spec, T, e) /\ T[e] \in Types

\* The annotations are the types of the assignments and of the rows.
Honest(spec, T) == \A v \in DOMAIN spec.exprs : v \in DOMAIN spec.types => spec.types[v] = T[spec.exprs[v]]
InputsTyped(run) ==
  \A n \in 1 .. Len(run.rows) : \A v \in ToSet(run.spec.inputs) :
    v \in DOMAIN run.spec.types => Of(run.rows[n][v], run.spec.types[v])
=============================================================================
