---------------------------- MODULE LolaStreams ----------------------------
(***************************************************************************)
(* What the asynchronous monitor computes: the stream of an expression,    *)
(* by the untyped combinators (semantics/untimed_untyped_lola) and by the  *)
(* typed ones (semantics/untimed_typed_lola).                              *)
(*                                                                         *)
(* A run is a record: mode, spec, the rows of input so far, and whether    *)
(* the inputs are closed.  An environment maps the variables a context     *)
(* offers to the stream each name is bound to and the number of elements   *)
(* that passed before it was subscribed.                                   *)
(***************************************************************************)
EXTENDS LolaParser

\* The environment of a specification's own context, of a context that offers
\* vs only, and of a subcontext whose clock starts at element t.  A restricted
\* context gives its names vs, in their order, to the streams in the order of
\* the enclosing context's variables.
RootEnv(spec) ==
  [names |-> spec.inputs \o spec.outputs,
   bound |-> [v \in ToSet(spec.inputs \o spec.outputs) |-> [var |-> v, passed |-> 0]]]
Restricted(env, vs) ==
  LET streams == SelectSeq(env.names, LAMBDA v : Contains(vs, v))
  IN [names |-> vs, bound |-> [v \in ToSet(vs) |->
        env.bound[streams[CHOOSE i \in DOMAIN vs : vs[i] = v]]]]
From(env, t) ==
  [env EXCEPT !.bound = [v \in DOMAIN env.bound |->
     [env.bound[v] EXCEPT !.passed = @ + t - 1]]]

-----------------------------------------------------------------------------
RECURSIVE ValueAt(_, _, _, _, _), DynamicStart(_, _, _, _, _), FirstDefined(_, _, _, _, _),
          LengthFrom(_, _, _, _, _)

\* Element n of a variable's own stream.  A variable that waits for the element
\* it is computing waits for ever.
StreamAt(run, v, n, busy) ==
  IF v \in ToSet(run.spec.inputs) THEN Delivered(run, v, n)
  ELSE IF <<v, n>> \in busy THEN Waiting
  ELSE ValueAt(run, RootEnv(run.spec), run.spec.exprs[v], n, busy \union {<<v, n>>})

\* Context::var
VarAt(run, env, v, t, busy) ==
  IF v \notin DOMAIN env.bound THEN Panic("variable")
  ELSE LET b == env.bound[v]
       IN Subscribed(run, v, StreamAt(run, b.var, b.passed + t, busy))

\* Context::tick: it returns when every variable of the context has moved on.
TickWaits(run, env, t, busy) ==
  \E v \in DOMAIN env.bound :
    StreamAt(run, env.bound[v].var, env.bound[v].passed + t, busy) = Waiting

\* The number of elements of e from element n on.
LengthFrom(run, env, e, n, busy) ==
  IF Stopped(ValueAt(run, env, e, n, busy)) THEN n - 1 ELSE LengthFrom(run, env, e, n + 1, busy)

\* sindex
IndexAt(run, env, e, t, busy) ==
  Indexed(e.at[2], t, ValueAt(run, env, e.args[1], t + e.at[2], busy),
          LengthFrom(run, env, e.args[1], 1, busy))

\* The first element of e from t on that is not Unknown.
FirstDefined(run, env, e, t, busy) ==
  IF ValueAt(run, env, e, t, busy) # Unknown THEN t ELSE FirstDefined(run, env, e, t + 1, busy)

\* update: rows of both until the second is defined, or one of them ends; then
\* what is left of the second, whose last element taken with the first is lost
\* if the first had ended.
UpdateAt(run, env, e, t, busy) ==
  LET x(n) == ValueAt(run, env, e.args[1], n, busy)
      y(n) == ValueAt(run, env, e.args[2], n, busy)
      Row(n) == ZipRow(<<x(n), y(n)>>, TRUE, IF y(n) = Unknown THEN x(n) ELSE y(n))
      leaves == {n \in 1 .. t : y(n) # Unknown \/ Stopped(x(n))}
      k == CHOOSE n \in leaves : \A m \in leaves : n <= m
  IN IF leaves = {} THEN x(t)
     ELSE IF t < k THEN x(t)
     ELSE IF Row(k) = End THEN y(t + 1)
     ELSE IF t = k \/ Stopped(Row(k)) THEN Row(k)
     ELSE y(t)

\* dynamic's subcontext: the restricted one asserts that each name has a stream.
Subcontext(env, e) == IF e.op = "RestrictedDynamic" THEN Restricted(env, e.at[2]) ELSE env
SubcontextFails(env, e) ==
  /\ e.op = "RestrictedDynamic"
  /\ Len(SelectSeq(env.names, LAMBDA v : Contains(e.at[2], v))) # Len(e.at[2])

\* The element at which the property in force at t was received, 0 if none was.
DynamicStart(run, env, e, t, busy) ==
  IF t = 0 THEN 0
  ELSE LET before == DynamicStart(run, env, e, t - 1, busy)
           p(n) == ValueAt(run, env, e.args[1], n, busy)
       IN IF p(t) = Unknown \/ (before # 0 /\ p(before) = p(t)) THEN before ELSE t

\* dynamic: the property in force, evaluated from the element it came with.
DynamicAt(run, env, e, t, busy) ==
  LET p == ValueAt(run, env, e.args[1], t, busy)
      sub == Subcontext(env, e)
      start == DynamicStart(run, env, e, t, busy)
      text == ValueAt(run, env, e.args[1], start, busy)
      parsed == Sexpr(text[2])
  IN IF run.mode = "typed" THEN Panic("todo")
     ELSE IF SubcontextFails(env, e) THEN Panic("assert")
     ELSE IF t > 1 /\ ValueAt(run, env, e, t - 1, busy) = End THEN End
     ELSE IF Stopped(p) THEN p
     ELSE IF p # Unknown /\ p[1] # "Str" THEN Panic("type")
     ELSE IF start # 0 /\ ~parsed.ok THEN Panic("parse")
     ELSE IF TickWaits(run, sub, t, busy) THEN Waiting
     ELSE IF start = 0 THEN Unknown
     ELSE ValueAt(run, From(sub, start), parsed.e, t - start + 1, busy)

\* defer: Unknown until the property comes, then its stream over a subcontext
\* one element behind, without the element that has passed.
DeferAt(run, env, e, t, busy) ==
  LET HistoryLength == 1
      k == FirstDefined(run, env, e.args[1], 1, busy)
      p == ValueAt(run, env, e.args[1], k, busy)
      parsed == Sexpr(p[2])
      ticks == IF k - 1 > HistoryLength THEN k - 1 - HistoryLength ELSE 0
      skipped == IF k - 1 > HistoryLength THEN HistoryLength ELSE k - 1
      ticked(n) == n - 1 >= HistoryLength => ~TickWaits(run, env, n - HistoryLength, busy)
  IN IF \E n \in 1 .. t : n < k /\ ~ticked(n) THEN Waiting
     ELSE IF t < k THEN Unknown
     ELSE IF Stopped(p) THEN p
     ELSE IF p[1] # "Str" THEN Panic("type")
     ELSE IF ~parsed.ok THEN Panic("parse")
     ELSE ValueAt(run, From(env, ticks + 1), parsed.e, skipped + 1 + t - k, busy)

\* to_async_stream: element t of the stream of e.
ValueAt(run, env, e, t, busy) ==
  LET xs == [i \in DOMAIN e.args |-> ValueAt(run, env, e.args[i], t, busy)]
      Row(x) == ZipRow(xs, FALSE, x)
      JoinRow(x) == ZipRow(xs, TRUE, x)
  IN CASE e.op = "Val" -> e.at[2]
       [] e.op = "Var" -> VarAt(run, env, e.at[2], t, busy)
       [] e.op \in {"BinOp", "Not", "If", "Default"} -> Elementwise(run, e, xs)
       [] e.op = "SIndex" -> IndexAt(run, env, e, t, busy)
       [] e.op = "IsDefined" -> Row(Bool(xs[1] # Unknown))
       [] e.op = "When" ->
            Row(Bool(\E n \in 1 .. t : ValueAt(run, env, e.args[1], n, busy) # Unknown))
       [] e.op = "Update" -> UpdateAt(run, env, e, t, busy)
       [] e.op \in {"Dynamic", "RestrictedDynamic"} -> DynamicAt(run, env, e, t, busy)
       [] e.op = "Defer" -> DeferAt(run, env, e, t, busy)
       [] e.op = "List" -> JoinRow(List(xs))
       [] e.op \in {"LIndex", "LAppend", "LConcat", "LHead", "LTail"} -> JoinRow(OnList(e.op, xs))
       [] e.op \in {"Sin", "Cos", "Tan"} -> Row(Trigonometric(e.op, xs[1]))
       [] e.op \in {"MonitoredAt", "Dist"} -> Panic("unimplemented")

RECURSIVE Emitted(_, _, _)
\* What an output variable has produced, from element n on, up to the bound
\* Horizon on streams that never end.
Emitted(run, v, n) ==
  LET x == StreamAt(run, v, n, {})
  IN IF n > run.horizon \/ Stopped(x) THEN <<>> ELSE <<x>> \o Emitted(run, v, n + 1)
=============================================================================
