-------------------------- MODULE ConstraintSolver --------------------------
(***************************************************************************)
(* The solver of runtime/constraints/solver.rs.  A store keeps, for each   *)
(* variable, what is known at which time: input values, resolved outputs,  *)
(* and the expressions of outputs that wait for later inputs.  An          *)
(* expression waiting is an SExprAbs: its indices are absolute times.      *)
(*                                                                         *)
(* Simplifying gives a value ("resolved"), an expression ("unresolved"),   *)
(* or "panic" where the code panics, with the dependency graph, which a    *)
(* defer that receives its property changes.                               *)
(***************************************************************************)
EXTENDS LolaStreams, DepGraph

\* Constructors to_absolute, simplify and is_solveable have only a todo!() for.
Unsolved == {"Dynamic", "RestrictedDynamic", "Not", "List", "LIndex", "LAppend", "LConcat",
             "LHead", "LTail", "IsDefined", "When", "Sin", "Cos", "Tan", "MonitoredAt", "Dist"}

Resolved(x, deps) == [kind |-> "resolved", x |-> x, deps |-> deps]
Unresolved(e, deps) == [kind |-> "unresolved", x |-> e, deps |-> deps]
Panics(deps) == [kind |-> "panic", x |-> Unknown, deps |-> deps]

\* Streams of a store: for each variable a function on the times it is known at.
NoStreams(vars) == [v \in vars |-> <<>>]
KnownAt(streams, v, t) == v \in DOMAIN streams /\ t \in DOMAIN streams[v]
Store(inputs, resolved, unresolved, exprs) ==
  [inputs |-> inputs, resolved |-> resolved, unresolved |-> unresolved, exprs |-> exprs]

\* model_constraints
ModelConstraints(spec) ==
  Store(NoStreams(ToSet(spec.inputs)), NoStreams(DOMAIN spec.exprs),
        NoStreams(DOMAIN spec.exprs), spec.exprs)

RECURSIVE ToAbsolute(_, _)
\* to_absolute: an index before the start is Unknown; the operand of an index
\* keeps the time of the whole expression.  A defer without its property is
\* Unknown, an update its first stream.
ToAbsolute(e, t) ==
  LET args == [i \in DOMAIN e.args |-> ToAbsolute(e.args[i], t)]
  IN CASE e.op = "Defer" -> Val(Unknown)
       [] e.op = "Update" -> args[1]
       [] e.op = "SIndex" /\ t + e.at[2] < 0 -> Val(Unknown)
       [] e.op = "SIndex" /\ t + e.at[2] >= 0 -> SIndex(args[1], t + e.at[2])
       [] OTHER -> [e EXCEPT !.args = args]

\* A binary operation on two simplified operands.  With one operand known the
\* known one becomes the right operand.
SimplifiedBinOp(sym, r1, r2) ==
  LET known == IF r1.kind = "resolved" THEN r1 ELSE r2
      waiting == IF r1.kind = "resolved" THEN r2 ELSE r1
      x == BinopTable(sym, r1.x, r2.x)
  IN IF "panic" \in {r1.kind, r2.kind} THEN Panics(r2.deps)
     ELSE IF {r1.kind, r2.kind} = {"resolved"} THEN
       IF x[1] = "Panic" THEN Panics(r2.deps) ELSE Resolved(x, r2.deps)
     ELSE IF r1.kind = r2.kind THEN Unresolved(BinOp(sym, r1.x, r2.x), r2.deps)
     ELSE Unresolved(BinOp(sym, waiting.x, Val(known.x)), r2.deps)

RECURSIVE Converts(_, _)
\* Whether to_absolute meets no constructor it has only a todo!() for.
Converts(e, t) ==
  CASE e.op \in Unsolved -> FALSE
    [] e.op = "Update" -> Converts(e.args[1], t)
    [] e.op = "Defer" \/ (e.op = "SIndex" /\ t + e.at[2] < 0) -> TRUE
    [] OTHER -> \A i \in DOMAIN e.args : Converts(e.args[i], t)

RECURSIVE SimplifyAbs(_, _, _)
\* simplify of an SExprAbs at time t.  The time a variable was written at is not
\* looked at; a variable of which nothing is stored at t is Unknown.
SimplifyAbs(e, t, store) ==
  LET Sub(i) == SimplifyAbs(e.args[i], t, store)
      known == e.at[2]
  IN CASE e.op \in Unsolved -> Panics({})
       [] e.op = "Val" -> Resolved(e.at[2], {})
       [] e.op = "BinOp" -> SimplifiedBinOp(e.at[2], Sub(1), Sub(2))
       [] e.op = "Var" ->
            IF KnownAt(store.resolved, known, t) THEN Resolved(store.resolved[known][t], {})
            ELSE IF KnownAt(store.inputs, known, t) THEN Resolved(store.inputs[known][t], {})
            ELSE IF KnownAt(store.unresolved, known, t)
                 THEN Unresolved(store.unresolved[known][t], {})
            ELSE Resolved(Unknown, {})
       [] e.op = "SIndex" -> IF known <= t THEN SimplifyAbs(e.args[1], known, store)
                             ELSE Unresolved(e, {})
       [] e.op = "If" ->
            LET b == Sub(1)
            IN IF b.kind = "unresolved" THEN Unresolved(If(b.x, e.args[2], e.args[3]), {})
               ELSE IF b = Resolved(Bool(TRUE), {}) THEN Sub(2)
               ELSE IF b = Resolved(Bool(FALSE), {}) THEN Sub(3)
               ELSE Panics({})
       [] e.op = "Default" ->
            LET a == Sub(1)
            IN IF a.kind = "unresolved" THEN Unresolved(Op2("Default", a.x, e.args[2]), {})
               ELSE IF a = Resolved(Unknown, {}) THEN Sub(2) ELSE a

RECURSIVE IsSolveable(_, _, _)
\* is_solveable; where that is a todo!(), simplifying panics as well.
IsSolveable(e, t, store) ==
  LET v == e.at[2]
  IN CASE e.op \in {"Val", "Default"} -> TRUE
       [] e.op = "Var" ->
            \/ KnownAt(store.resolved, v, t) /\ store.resolved[v][t] # Unknown
            \/ /\ ~KnownAt(store.resolved, v, t)
               /\ KnownAt(store.inputs, v, t) /\ store.inputs[v][t] # Unknown
       [] e.op = "SIndex" -> t + v < 0 \/ IsSolveable(e.args[1], t + v, store)
       [] e.op = "Update" -> IsSolveable(e.args[2], t, store)
       [] e.op \in Unsolved -> TRUE
       [] e.op \in {"BinOp", "If", "Defer"} -> \A i \in DOMAIN e.args : IsSolveable(e.args[i], t, store)

RECURSIVE Simplify(_, _, _, _, _)
\* A defer of output v whose operand simplified to first and has the property as
\* its value: the dependencies of the operand make way for those of the property.
Adopted(e, v, new) ==
  IF new.kind = "panic" THEN new
  ELSE LET expr == IF new.kind = "resolved" THEN Val(new.x) ELSE new.x
       IN [new EXCEPT !.deps = AddDependency(RemoveDependency(@, v, e.args[1]), v, expr)]

ParsedDefer(e, t, store, v, deps, parsed) ==
  IF parsed.ok THEN Adopted(e, v, Simplify(parsed.e, t, store, v, deps)) ELSE Panics(deps)

DeferredOn(e, t, store, v, first, property) ==
  IF "panic" \in {first.kind, property.kind} THEN Panics(first.deps)
  ELSE IF property.kind = "unresolved" \/ property.x = Unknown
       THEN Unresolved(IF first.kind = "resolved" THEN e ELSE [e EXCEPT !.args[1] = first.x], first.deps)
  ELSE IF property.x[1] # "Str" THEN Panics(first.deps)
  ELSE ParsedDefer(e, t, store, v, first.deps, Sexpr(property.x[2]))

\* simplify of an SExpr, the expression of output v.  What it gives is the
\* expression for all later times too, so only constants are resolved.
Simplify(e, t, store, v, deps) ==
  LET Sub(i, d) == Simplify(e.args[i], t, store, v, d)
      Rebuilt(i, r) == IF r.kind = "resolved" THEN [e EXCEPT !.args[i] = Val(r.x)]
                       ELSE [e EXCEPT !.args[i] = r.x]
      first == Sub(1, deps)
  IN CASE e.op \in Unsolved -> Panics(deps)
       [] e.op = "Val" -> Resolved(e.at[2], deps)
       [] e.op = "Var" -> Unresolved(e, deps)
       [] e.op = "BinOp" -> SimplifiedBinOp(e.at[2], first, Sub(2, first.deps))
       [] e.op = "SIndex" ->
            IF first.kind = "panic" \/ e.at[2] = 0 THEN first
            ELSE Unresolved(Rebuilt(1, first), first.deps)
       [] e.op = "If" ->
            IF first.kind = "unresolved" THEN Unresolved(Rebuilt(1, first), first.deps)
            ELSE IF first.kind = "resolved" /\ first.x = Bool(TRUE) THEN Sub(2, first.deps)
            ELSE IF first.kind = "resolved" /\ first.x = Bool(FALSE) THEN Sub(3, first.deps)
            ELSE Panics(first.deps)
       [] e.op = "Default" ->
            IF first.kind = "unresolved" THEN Unresolved(Rebuilt(1, first), first.deps)
            ELSE IF first.kind = "resolved" /\ first.x = Unknown THEN Sub(2, first.deps)
            ELSE first
       [] e.op = "Update" ->
            IF IsSolveable(e.args[2], t, store) THEN Sub(2, deps)
            ELSE IF first.kind = "panic" THEN first
            ELSE Unresolved(Rebuilt(1, first), first.deps)
       [] e.op = "Defer" ->
            DeferredOn(e, t, store, v, first,
              IF first.kind = "unresolved"
              THEN SimplifyAbs(ToAbsolute(first.x, t), t, store) ELSE first)
=============================================================================
