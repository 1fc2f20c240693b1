--------------------------- MODULE LolaOperators ---------------------------
(***************************************************************************)
(* Values, types and operators of the DynSRV (Lola) language: what each    *)
(* constructor of an expression makes of the types and of the values of    *)
(* its operands, in the type checker, in the untyped and the typed stream  *)
(* combinators and in the constraint solver.  The modules that walk over   *)
(* whole expressions and streams extend this one; nothing here recurses.   *)
(*                                                                         *)
(* A Value is a tuple that starts with its type; an element of a stream is *)
(* a value, End, Waiting (the stream is polled and stays pending) or a     *)
(* panic.  An expression node e has its constructor in e.op, and in e.at   *)
(* what it holds besides its operands.                                     *)
(***************************************************************************)
EXTENDS Integers, Sequences, FiniteSets, SequencesExt

CONSTANT
  TextLeq(_, _)     \* the order of strings, up to equality

\* StreamType
Types == {"Int", "Float", "Str", "Bool", "Unit"}

Unknown == <<"Unknown">>
Unit == <<"Unit">>
Int64(n) == <<"Int", n>>
Float(n) == <<"Float", n>>          \* floating-point values are whole here
Str(text) == <<"Str", text>>
Bool(b) == <<"Bool", b>>
List(vs) == <<"List", vs>>

End == <<"End">>
Waiting == <<"Waiting">>
Panic(why) == <<"Panic", why>>

Stopped(x) == x[1] \in {"End", "Waiting", "Panic"}

-----------------------------------------------------------------------------
(* The type checker.                                                       *)

NumericalOps == {"+", "-", "*", "/", "%"}

\* Constructors whose check is a todo!().
NotChecked == {"Defer", "Update", "List", "LIndex", "LAppend", "LConcat", "LHead",
               "LTail", "IsDefined", "When", "Sin", "Cos", "Tan", "MonitoredAt", "Dist"}

\* Wrong: a number next to a number of the other kind has the type of the second.
MixedNumbers(sym, t1, t2) ==
  IF sym \in NumericalOps /\ {t1, t2} \subseteq {"Int", "Float"} THEN t2 ELSE "Err"

\* The type of a binary operation on two checked operands, "Err" when no case
\* matches: no mixed numbers, only == and <= among the comparisons.
BinOpType(sym, t1, t2) ==
  IF t1 # t2 THEN "Err"
  ELSE IF sym \in NumericalOps /\ t1 \in {"Int", "Float"} THEN t1
  ELSE IF sym \in {"||", "&&"} /\ t1 = "Bool" THEN "Bool"
  ELSE IF sym = "++" /\ t1 = "Str" THEN "Str"
  ELSE IF sym = "==" /\ t1 \in {"Bool", "Str", "Int"} THEN "Bool"
  ELSE IF sym = "<=" /\ t1 = "Int" THEN "Bool"
  ELSE "Err"

\* The branches of an if, and the two sides of a default: one type, not Float.
BranchType(t1, t2) == IF t1 = t2 /\ t1 # "Float" THEN t1 ELSE "Err"

\* Value::type_check_raw
ValueType(x) ==
  CASE x[1] \in Types -> x[1] [] x[1] = "List" -> "Panic" [] x[1] = "Unknown" -> "Err"

\* The type of a node whose operands are well typed.
NodeType(e, types, ctx) ==
  CASE e.op = "Val" -> ValueType(e.at[2])
    [] e.op = "Var" -> IF e.at[2] \in DOMAIN ctx THEN ctx[e.at[2]] ELSE "Err"
    [] e.op = "BinOp" -> BinOpType(e.at[2], types[1], types[2])
    [] e.op = "Default" -> BranchType(types[1], types[2])
    [] e.op = "If" -> IF types[1] = "Bool" THEN BranchType(types[2], types[3]) ELSE "Err"
    [] e.op = "SIndex" -> IF types[1] = "Float" THEN "Err" ELSE types[1]
    [] e.op = "Not" -> IF types[1] = "Bool" THEN "Bool" ELSE "Err"
    [] e.op \in {"Dynamic", "RestrictedDynamic"} -> IF types[1] = "Str" THEN "Str" ELSE "Err"

\* The type of a node: an operand without a type leaves it without one.
TypeOfNode(e, types, ctx) ==
  IF e.op \in NotChecked \/ "Panic" \in ToSet(types) THEN "Panic"
  ELSE IF "Err" \in ToSet(types) THEN "Err"
  ELSE NodeType(e, types, ctx)

-----------------------------------------------------------------------------
(* The operators on values.                                                *)

Numeric(x) == x[1] \in {"Int", "Float"}

\* Rust's integer division rounds towards zero.
Quotient(a, b) ==
  LET abs(n) == IF n < 0 THEN -n ELSE n
      q == abs(a) \div abs(b)
  IN IF (a < 0) = (b < 0) THEN q ELSE -q

\* plus, minus, mult, div, modulo on integers, floats or a mix of them.  The
\* quotient and the remainder of floats stay symbols; by zero they are not an
\* error.
Arithmetic(sym, x, y) ==
  IF ~(Numeric(x) /\ Numeric(y)) THEN Panic("type")
  ELSE LET type == IF x[1] = "Int" /\ y[1] = "Int" THEN "Int" ELSE "Float"
       IN CASE sym = "+" -> <<type, x[2] + y[2]>>
            [] sym = "-" -> <<type, x[2] - y[2]>>
            [] sym = "*" -> <<type, x[2] * y[2]>>
            [] sym \in {"/", "%"} /\ type = "Float" -> Float(<<sym, x[2], y[2]>>)
            [] sym \in {"/", "%"} /\ type = "Int" /\ y[2] = 0 -> Panic("zero")
            [] sym = "/" /\ type = "Int" /\ y[2] # 0 -> Int64(Quotient(x[2], y[2]))
            [] sym = "%" /\ type = "Int" /\ y[2] # 0 -> Int64(x[2] - y[2] * Quotient(x[2], y[2]))

\* Two values that le, lt, ge and gt have a case for.
Comparable(x, y) ==
  (Numeric(x) /\ Numeric(y)) \/ (x[1] = y[1] /\ x[1] \in {"Bool", "Str"})

\* The order of two such values: false comes before true.
Precedes(x, y) ==
  CASE x[1] = "Bool" -> x[2] => y[2]
    [] x[1] = "Str" -> TextLeq(x[2], y[2])
    [] x[1] \notin {"Bool", "Str"} -> x[2] <= y[2]

\* le, lt, ge, gt; ge of a float and an integer uses >.
Compare(sym, x, y) ==
  IF ~Comparable(x, y) THEN Panic("type")
  ELSE Bool(CASE sym = "<=" -> Precedes(x, y)
              [] sym = "<" -> ~Precedes(y, x)
              [] sym = ">=" -> IF x[1] = "Float" /\ y[1] = "Int" THEN ~Precedes(x, y)
                               ELSE Precedes(y, x)
              [] sym = ">" -> ~Precedes(x, y))

\* The untyped binary operators.
Operate(sym, x, y) ==
  CASE sym \in {"+", "-", "*", "/", "%"} -> Arithmetic(sym, x, y)
    [] sym = "&&" -> Bool(x = Bool(TRUE) /\ y = Bool(TRUE))
    [] sym = "||" -> Bool(x = Bool(TRUE) \/ y = Bool(TRUE))
    [] sym = "==" -> Bool(x = y)
    [] sym = "++" -> IF x[1] = "Str" /\ y[1] = "Str" THEN Str(x[2] \o y[2]) ELSE Panic("type")
    [] sym \in {"<=", "<", ">=", ">"} -> Compare(sym, x, y)

\* The operators on lists and the trigonometric functions, which stay symbols.
OnList(op, xs) ==
  IF xs[1][1] # "List" THEN Panic("type")
  ELSE LET l == xs[1][2]
       IN CASE op = "LIndex" -> IF xs[2][1] # "Int" THEN Panic("type")
                                ELSE IF xs[2][2] \in 0 .. Len(l) - 1 THEN l[xs[2][2] + 1]
                                ELSE Panic("bounds")
            [] op = "LAppend" -> List(Append(l, xs[2]))
            [] op = "LConcat" -> IF xs[2][1] = "List" THEN List(l \o xs[2][2]) ELSE Panic("type")
            [] op = "LHead" -> IF l = <<>> THEN Panic("bounds") ELSE Head(l)
            [] op = "LTail" -> IF l = <<>> THEN Panic("bounds") ELSE List(Tail(l))

Trigonometric(op, x) == IF x[1] = "Float" THEN Float(<<op, x[2]>>) ELSE Panic("type")

-----------------------------------------------------------------------------
(* The elements of streams, untyped and typed.                             *)

Kinds(xs) == {xs[i][1] : i \in DOMAIN xs}
FirstPanic(xs) == xs[SelectInSeq(xs, LAMBDA x : x[1] = "Panic")]

\* One row of several streams: x, made of the elements xs, or why there is none.  zip
\* ends with the first stream that ends, a join waits for all of them.
ZipRow(xs, joined, x) ==
  LET kinds == Kinds(xs)
  IN IF "Panic" \in kinds THEN FirstPanic(xs)
     ELSE IF "End" \in kinds /\ ~(joined /\ "Waiting" \in kinds) THEN End
     ELSE IF "Waiting" \in kinds THEN Waiting
     ELSE x

\* to_typed_stream: a value of another type, and Unknown too, is a type error.
ToTyped(type, x) == IF Stopped(x) \/ x[1] = type THEN x ELSE Panic("type")

\* Element n of the stream an input provider gives input v.
Delivered(run, v, n) ==
  IF n <= Len(run.rows) THEN run.rows[n][v] ELSE IF run.closed THEN End ELSE Waiting

\* The element an expression reads where variable v's own stream has x.
Subscribed(run, v, x) == IF run.mode = "typed" THEN ToTyped(run.spec.types[v], x) ELSE x

\* unknown_lift1 and unknown_lift2: an Unknown operand makes the result Unknown.
Lift(run, xs, x) ==
  IF run.mode = "typed" /\ Unknown \in ToSet(xs) THEN Unknown ELSE x

\* Wrong: the typed if takes the other branch.
BranchesSwapped(run, xs) ==
  IF xs[1] = Bool(run.mode = "untyped") THEN xs[2]
  ELSE IF xs[1] = Bool(run.mode = "typed") THEN xs[3]
  ELSE IF run.mode = "typed" THEN Unknown ELSE Panic("type")

\* if_stm; the typed one passes an Unknown condition on.
Choice(run, xs) ==
  IF xs[1] = Bool(TRUE) THEN xs[2]
  ELSE IF xs[1] = Bool(FALSE) THEN xs[3]
  ELSE IF run.mode = "typed" THEN Unknown ELSE Panic("type")

\* The constructors that both semantics have, on a row of their operands.  The
\* operators lift over Unknown, default and if look at it.
Nodewise(run, e, xs) ==
  CASE e.op = "BinOp" -> Lift(run, xs, Operate(e.at[2], xs[1], xs[2]))
    [] e.op = "Not" -> Lift(run, xs, Bool(xs[1] = Bool(FALSE)))
    [] e.op = "If" -> Choice(run, xs)
    [] e.op = "Default" -> IF xs[1] = Unknown THEN xs[2] ELSE xs[1]

\* An element of the stream of such a node, whose operands have the elements xs.
Elementwise(run, e, xs) == ZipRow(xs, FALSE, Nodewise(run, e, xs))

\* Wrong: an element that has not come yet is taken for one that never comes.
UnknownUntilThere(i, t, x, length) ==
  IF t <= -i \/ (i > 0 /\ x = Waiting) THEN Unknown ELSE x

\* Element t of e[i], of a stream whose element t + i is x and which has length
\* elements: i Unknowns before the stream, or its first i elements dropped and as
\* many Unknowns after it.
Indexed(i, t, x, length) ==
  IF i < 0 THEN IF t <= -i THEN Unknown ELSE x
  ELSE IF x # End THEN x
  ELSE IF t - (IF length > i THEN length - i ELSE 0) <= i THEN Unknown ELSE End

-----------------------------------------------------------------------------
(* The constraint solver.                                                  *)

\* binop_table: truth values have no comparison.
BinopTable(sym, x, y) ==
  IF Numeric(x) /\ Numeric(y) THEN
    CASE sym \in {"+", "-", "*", "/", "%"} -> Arithmetic(sym, x, y)
      [] sym = "==" -> Bool(x[2] = y[2])   [] sym = "<=" -> Bool(x[2] <= y[2])
      [] sym = "<" -> Bool(x[2] < y[2])    [] sym = ">=" -> Bool(x[2] >= y[2])
      [] sym = ">" -> Bool(x[2] > y[2])    [] sym \in {"&&", "||", "++"} -> Panic("op")
  ELSE IF x[1] = "Bool" /\ y[1] = "Bool" /\ sym \in {"&&", "||"} THEN Operate(sym, x, y)
  ELSE IF x[1] = "Str" /\ y[1] = "Str" /\ sym \in {"++", "==", "<=", "<", ">=", ">"}
       THEN Operate(sym, x, y)
  ELSE Panic("op")
=============================================================================
