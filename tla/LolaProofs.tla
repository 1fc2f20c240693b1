----------------------------- MODULE LolaProofs -----------------------------
(***************************************************************************)
(* What every static specification computes, whatever its expressions, its *)
(* rows of input and their number.                                         *)
(***************************************************************************)
EXTENDS LolaStatic, WellFoundedInduction, TLAPS

-----------------------------------------------------------------------------
(* Values and their types.                                                 *)

\* A value of a type is tagged with it; it is not Unknown and does not stop.
LEMMA ValueTag ==
  ASSUME NEW type \in Types, NEW x, Of(x, type)
  PROVE  x[1] = type /\ ~Stopped(x) /\ x # Unknown
<1>1. x[1] = type
  BY DEF Of
<1>2. Unknown[1] = "Unknown"
  BY DEF Unknown
<1> QED
  BY <1>1, <1>2 DEF Types, Stopped

\* The values of the three types whose operators look inside.
LEMMA ValueShape ==
  ASSUME NEW x
  PROVE  /\ Of(x, "Int") => x[2] \in Int /\ x = Int64(x[2])
         /\ Of(x, "Bool") => x = Bool(TRUE) \/ x = Bool(FALSE)
         /\ Of(x, "Str") => x = Str(x[2])
<1>1. Of(x, "Int") => x[2] \in Int /\ x = Int64(x[2])
  BY DEF Of, Int64
<1>2. Of(x, "Bool") => x = Bool(TRUE) \/ x = Bool(FALSE)
  BY DEF Of, Bool
<1>3. Of(x, "Str") => x = Str(x[2])
  BY DEF Of, Str
<1> QED
  BY <1>1, <1>2, <1>3

\* Values of a type are made by its constructor.
LEMMA ValueMade ==
  /\ \A n \in Int : Of(Int64(n), "Int")
  /\ \A f : Of(Float(f), "Float")
  /\ \A text : Of(Str(text), "Str")
  /\ \A b \in BOOLEAN : Of(Bool(b), "Bool")
<1>1. \A n \in Int : Of(Int64(n), "Int")
  BY DEF Of, Int64
<1>2. \A f : Of(Float(f), "Float")
  BY DEF Of, Float
<1>3. \A text : Of(Str(text), "Str")
  BY DEF Of, Str
<1>4. \A b \in BOOLEAN : Of(Bool(b), "Bool")
  BY DEF Of, Bool
<1> QED
  BY <1>1, <1>2, <1>3, <1>4

\* What stops a stream is no value and not Unknown.
LEMMA StopTag ==
  ASSUME NEW x, IsStop(x)
  PROVE  Stopped(x) /\ x # Unknown
BY DEF IsStop, Stopped, End, Waiting, Panic, Unknown

\* Unknown is an element like any other: the stream that gives it goes on.
LEMMA UnknownGoesOn == ~Stopped(Unknown)
BY DEF Stopped, Unknown

\* Rust's division of integers gives an integer.
LEMMA QuotientInt ==
  ASSUME NEW a \in Int, NEW b \in Int, b # 0
  PROVE  Quotient(a, b) \in Int
<1> DEFINE abs(n) == IF n < 0 THEN -n ELSE n
<1>1. abs(a) \in Int /\ abs(b) \in Int /\ abs(b) > 0
  OBVIOUS
<1> DEFINE q == abs(a) \div abs(b)
<1>2. q \in Int
  BY <1>1
<1>3. Quotient(a, b) = q \/ Quotient(a, b) = -q
  BY DEF Quotient
<1> HIDE DEF q
<1> QED
  BY <1>2, <1>3

\* A binary operator the checker accepts on operands of one type gives a
\* value of the type it says, or is a division of integers by zero.
LEMMA OperateType ==
  ASSUME NEW sym, NEW t1 \in Types, NEW t2 \in Types, NEW x, NEW y,
         BinOpType(sym, t1, t2) # "Err", Of(x, t1), Of(y, t2)
  PROVE  \/ Of(Operate(sym, x, y), BinOpType(sym, t1, t2))
         \/ Operate(sym, x, y) = Panic("zero")
<1>1. t1 = t2 /\ x[1] = t1 /\ y[1] = t1
  BY ValueTag DEF BinOpType
<1>2. CASE sym \in NumericalOps /\ t1 = "Int"
  <2>1. x[2] \in Int /\ y[2] \in Int /\ Numeric(x) /\ Numeric(y) /\ BinOpType(sym, t1, t2) = "Int"
    BY <1>1, <1>2, ValueShape DEF Numeric, BinOpType
  <2>2. Operate(sym, x, y) = Arithmetic(sym, x, y)
    BY <1>2 DEF Operate, NumericalOps
  <2>3. CASE sym \in {"+", "-", "*"}
    <3>1. CASE sym = "+"
      <4>1. Arithmetic(sym, x, y) = Int64(x[2] + y[2])
        BY <2>1, <3>1, <1>1, <1>2 DEF Arithmetic, Int64
      <4> QED
        BY <4>1, <2>1, <2>2, ValueMade
    <3>2. CASE sym = "-"
      <4>1. Arithmetic(sym, x, y) = Int64(x[2] - y[2])
        BY <2>1, <3>2, <1>1, <1>2 DEF Arithmetic, Int64
      <4> QED
        BY <4>1, <2>1, <2>2, ValueMade
    <3>3. CASE sym = "*"
      <4>1. Arithmetic(sym, x, y) = Int64(x[2] * y[2])
        BY <2>1, <3>3, <1>1, <1>2 DEF Arithmetic, Int64
      <4> QED
        BY <4>1, <2>1, <2>2, ValueMade
    <3> QED
      BY <2>3, <3>1, <3>2, <3>3
  <2>4. CASE sym \in {"/", "%"} /\ y[2] = 0
    BY <2>1, <2>2, <2>4, <1>1, <1>2 DEF Arithmetic
  <2>5. CASE sym = "/" /\ y[2] # 0
    <3>1. Arithmetic(sym, x, y) = Int64(Quotient(x[2], y[2]))
      BY <2>1, <2>5, <1>1, <1>2 DEF Arithmetic
    <3> QED
      BY <3>1, <2>1, <2>2, <2>5, ValueMade, QuotientInt
  <2>6. CASE sym = "%" /\ y[2] # 0
    <3>1. Arithmetic(sym, x, y) = Int64(x[2] - y[2] * Quotient(x[2], y[2]))
      BY <2>1, <2>6, <1>1, <1>2 DEF Arithmetic
    <3>2. Quotient(x[2], y[2]) \in Int
      BY <2>1, <2>6, QuotientInt
    <3>3. x[2] - y[2] * Quotient(x[2], y[2]) \in Int
      BY <2>1, <3>2
    <3> QED
      BY <3>1, <3>3, <2>1, <2>2, ValueMade
  <2> QED
    BY <1>2, <2>3, <2>4, <2>5, <2>6 DEF NumericalOps
<1>3. CASE sym \in NumericalOps /\ t1 = "Float"
  <2>1. Numeric(x) /\ Numeric(y) /\ BinOpType(sym, t1, t2) = "Float"
    BY <1>1, <1>3 DEF Numeric, BinOpType
  <2>2. Operate(sym, x, y) = Arithmetic(sym, x, y)
    BY <1>3 DEF Operate, NumericalOps
  <2>3. \E f : Arithmetic(sym, x, y) = Float(f)
    BY <2>1, <1>1, <1>3 DEF Arithmetic, NumericalOps, Float
  <2> QED
    BY <2>1, <2>2, <2>3, ValueMade
<1>4. CASE sym \in {"||", "&&", "=="} /\ sym \notin NumericalOps
  <2>1. BinOpType(sym, t1, t2) = "Bool"
    BY <1>4 DEF BinOpType
  <2>2. CASE sym = "||"
    <3>1. Operate(sym, x, y) = Bool(x = Bool(TRUE) \/ y = Bool(TRUE))
      BY <2>2 DEF Operate
    <3> QED
      BY <3>1, <2>1, ValueMade
  <2>3. CASE sym = "&&"
    <3>1. Operate(sym, x, y) = Bool(x = Bool(TRUE) /\ y = Bool(TRUE))
      BY <2>3 DEF Operate
    <3> QED
      BY <3>1, <2>1, ValueMade
  <2>4. CASE sym = "=="
    <3>1. Operate(sym, x, y) = Bool(x = y)
      BY <2>4 DEF Operate
    <3> QED
      BY <3>1, <2>1, ValueMade
  <2> QED
    BY <1>4, <2>2, <2>3, <2>4
<1>5. CASE sym = "++"
  <2>1. BinOpType(sym, t1, t2) = "Str" /\ t1 = "Str"
    BY <1>5 DEF BinOpType, NumericalOps
  <2>2. Operate(sym, x, y) = Str(x[2] \o y[2])
    BY <1>5, <2>1, <1>1 DEF Operate
  <2> QED
    BY <2>1, <2>2, ValueMade
<1>6. CASE sym = "<="
  <2>1. BinOpType(sym, t1, t2) = "Bool" /\ t1 = "Int"
    BY <1>6 DEF BinOpType, NumericalOps
  <2>2. Numeric(x) /\ Numeric(y) /\ x[1] = "Int" /\ x[2] \in Int /\ y[2] \in Int
    BY <2>1, <1>1, ValueShape DEF Numeric
  <2>3. Operate(sym, x, y) = Bool(x[2] <= y[2])
    BY <1>6, <2>2 DEF Operate, Compare, Comparable, Precedes
  <2>4. (x[2] <= y[2]) \in BOOLEAN
    OBVIOUS
  <2>5. Of(Operate(sym, x, y), "Bool")
    BY <2>3, <2>4, ValueMade, Zenon
  <2> QED
    BY <2>1, <2>5
<1> QED
  BY <1>2, <1>3, <1>4, <1>5, <1>6 DEF BinOpType, NumericalOps

-----------------------------------------------------------------------------
(* One row of operands.                                                    *)

\* Every non-empty set of natural numbers has a least element.
LEMMA LeastNatural ==
  ASSUME NEW M, M \subseteq Nat, M # {}
  PROVE  \E m \in M : \A k \in M : m <= k
<1>1. PICK m \in M : \A k \in M : ~(<<k, m>> \in OpToRel(<, Nat))
  BY WFMin, NatLessThanWellFounded, Zenon
<1>2. \A k \in M : ~(k < m)
  BY <1>1, Zenon DEF OpToRel
<1> QED
  BY <1>2

\* xs is a row of n elements.
IsRow(xs, n) == n \in Nat /\ xs \in [1 .. n -> {xs[i] : i \in 1 .. n}]

\* The panic that ends a row is that of one of its elements.
LEMMA FirstPanicThere ==
  ASSUME NEW n, NEW xs, IsRow(xs, n), "Panic" \in Kinds(xs)
  PROVE  \E i \in 1 .. n : FirstPanic(xs) = xs[i] /\ xs[i][1] = "Panic"
<1> DEFINE I == {i \in 1 .. Len(xs) : xs[i][1] = "Panic"}
<1>1. n \in Nat /\ DOMAIN xs = 1 .. n /\ Len(xs) = n
  <2>1. n \in Nat /\ DOMAIN xs = 1 .. n
    BY DEF IsRow
  <2>2. PICK U : xs \in [1 .. n -> U]
    BY DEF IsRow
  <2>3. xs \in Seq(U)
    BY <2>1, <2>2
  <2> QED
    BY <2>1, <2>3
<1>2. I # {} /\ I \subseteq Nat /\ I \subseteq 1 .. n
  BY <1>1 DEF Kinds
<1>3. \E m \in I : \A k \in I : m <= k
  BY <1>2, LeastNatural
<1>4. Min(I) \in I
  BY <1>3 DEF Min
<1>5. FirstPanic(xs) = xs[Min(I)]
  BY <1>2 DEF FirstPanic, SelectInSeq
<1> QED
  BY <1>2, <1>4, <1>5

\* A row without a stop is what was made of it, and a row with one stops.
LEMMA RowGoesOn ==
  ASSUME NEW n, NEW xs, IsRow(xs, n), NEW x
  PROVE  /\ (\A i \in 1 .. n : ~Stopped(xs[i])) => ZipRow(xs, FALSE, x) = x
         /\ (\E i \in 1 .. n : Stopped(xs[i])) => Stopped(ZipRow(xs, FALSE, x))
<1>1. ASSUME \A i \in 1 .. n : ~Stopped(xs[i])
      PROVE  ZipRow(xs, FALSE, x) = x
  BY <1>1 DEF ZipRow, Kinds, Stopped, IsRow
<1>2. ASSUME NEW i \in 1 .. n, Stopped(xs[i])
      PROVE  Stopped(ZipRow(xs, FALSE, x))
  <2>1. Kinds(xs) \cap {"End", "Waiting", "Panic"} # {}
    BY <1>2 DEF Kinds, Stopped, IsRow
  <2>2. Stopped(End) /\ Stopped(Waiting)
    BY DEF Stopped, End, Waiting
  <2>3. "Panic" \in Kinds(xs) => Stopped(FirstPanic(xs))
    BY FirstPanicThere DEF Stopped
  <2> QED
    BY <2>1, <2>2, <2>3 DEF ZipRow
<1> QED
  BY <1>1, <1>2

\* A row that stops does so as one of its elements does.
LEMMA RowStops ==
  ASSUME NEW n, NEW xs, IsRow(xs, n), NEW x,
         \A i \in 1 .. n : Stopped(xs[i]) => IsStop(xs[i]),
         \E i \in 1 .. n : Stopped(xs[i])
  PROVE  \E i \in 1 .. n : Stopped(xs[i]) /\ ZipRow(xs, FALSE, x) = xs[i]
<1>1. CASE "Panic" \in Kinds(xs)
  BY <1>1, FirstPanicThere DEF ZipRow, Stopped
<1>2. CASE "Panic" \notin Kinds(xs) /\ "End" \in Kinds(xs)
  <2>1. PICK i \in 1 .. n : xs[i][1] = "End"
    BY <1>2 DEF Kinds, IsRow
  <2>2. Stopped(xs[i]) /\ xs[i] = End
    BY <2>1 DEF Stopped, IsStop, End, Waiting, Panic
  <2> QED
    BY <1>2, <2>2 DEF ZipRow
<1>3. CASE "Panic" \notin Kinds(xs) /\ "End" \notin Kinds(xs)
  <2>1. PICK i \in 1 .. n : xs[i][1] = "Waiting"
    BY <1>3 DEF Kinds, Stopped, IsRow
  <2>2. Stopped(xs[i]) /\ xs[i] = Waiting
    BY <2>1 DEF Stopped, IsStop, End, Waiting, Panic
  <2>3. "Waiting" \in Kinds(xs)
    BY <2>1 DEF Kinds, IsRow
  <2> QED
    BY <1>3, <2>2, <2>3 DEF ZipRow
<1> QED
  BY <1>1, <1>2, <1>3

-----------------------------------------------------------------------------
(* Constructors on rows, typed.                                          *)

\* The row a pointwise node of the type checker's type makes of operands that
\* are values of their types, or Unknown.
LEMMA NodewiseType ==
  ASSUME NEW run, run.mode = "typed", NEW e, e.op \in RowOps, NEW types, NEW ctx,
         NodeType(e, types, ctx) \in Types,
         NEW n, n = Arity(e.op), NEW xs, IsRow(xs, n),
         \A i \in 1 .. n :
           types[i] \in Types /\ (Of(xs[i], types[i]) \/ xs[i] = Unknown)
  PROVE  \/ Of(Nodewise(run, e, xs), NodeType(e, types, ctx))
         \/ Nodewise(run, e, xs) \in {Unknown, Panic("zero")}
<1>0. "Err" \notin Types
  BY DEF Types
<1>1. CASE e.op = "BinOp"
  <2>1. n = 2 /\ 1 \in 1 .. n /\ 2 \in 1 .. n
    BY <1>1 DEF Arity
  <2>2. NodeType(e, types, ctx) = BinOpType(e.at[2], types[1], types[2])
    BY <1>1 DEF NodeType
  <2>3. Nodewise(run, e, xs) = Lift(run, xs, Operate(e.at[2], xs[1], xs[2]))
    BY <1>1 DEF Nodewise
  <2>4. CASE Unknown \in ToSet(xs)
    BY <2>3, <2>4 DEF Lift
  <2>5. CASE Unknown \notin ToSet(xs)
    <3>1. Of(xs[1], types[1]) /\ Of(xs[2], types[2])
      BY <2>1, <2>5 DEF ToSet, IsRow
    <3>2. Nodewise(run, e, xs) = Operate(e.at[2], xs[1], xs[2])
      BY <2>3, <2>5 DEF Lift
    <3> QED
      BY <3>1, <3>2, <2>1, <2>2, <1>0, OperateType
  <2> QED
    BY <2>4, <2>5
<1>2. CASE e.op = "Not"
  <2>1. NodeType(e, types, ctx) = "Bool"
    BY <1>2, <1>0 DEF NodeType
  <2>2. \/ Nodewise(run, e, xs) = Unknown
        \/ Nodewise(run, e, xs) = Bool(xs[1] = Bool(FALSE))
    BY <1>2 DEF Nodewise, Lift
  <2> QED
    BY <2>1, <2>2, ValueMade
<1>3. CASE e.op = "If"
  <2>1. n = 3 /\ 1 \in 1 .. n /\ 2 \in 1 .. n /\ 3 \in 1 .. n
    BY <1>3 DEF Arity
  <2>2. types[2] = NodeType(e, types, ctx) /\ types[3] = NodeType(e, types, ctx)
    BY <1>3, <1>0 DEF NodeType, BranchType
  <2>3. Nodewise(run, e, xs) \in {xs[2], xs[3], Unknown}
    BY <1>3 DEF Nodewise, Choice
  <2> QED
    BY <2>1, <2>2, <2>3
<1>4. CASE e.op = "Default"
  <2>1. n = 2 /\ 1 \in 1 .. n /\ 2 \in 1 .. n
    BY <1>4 DEF Arity
  <2>2. types[1] = NodeType(e, types, ctx) /\ types[2] = NodeType(e, types, ctx)
    BY <1>4, <1>0 DEF NodeType, BranchType
  <2>3. Nodewise(run, e, xs) \in {xs[1], xs[2]}
    BY <1>4 DEF Nodewise
  <2> QED
    BY <2>1, <2>2, <2>3
<1> QED
  BY <1>1, <1>2, <1>3, <1>4 DEF RowOps

-----------------------------------------------------------------------------
(* Elements and what they are computed from.                               *)

\* Good holds of an element when it holds of all it is computed from.
Inherited(spec, E, Good) ==
  \A e \in E : \A t \in Pos :
    (\A x \in E : \A n \in Pos : Reads(spec, e, t, x, n) => <<x, n>> \in Good) => <<e, t>> \in Good

\* Then it holds of every element.
LEMMA ElementInduction ==
  ASSUME NEW spec, NEW E, NEW d, Acyclic(spec, E, d), NEW Good, Inherited(spec, E, Good)
  PROVE  \A e \in E : \A t \in Pos : <<e, t>> \in Good
<1> SUFFICES ASSUME NEW e0 \in E, NEW t0 \in Pos, <<e0, t0>> \notin Good PROVE FALSE
  OBVIOUS
<1> DEFINE M == {m \in Nat : \E e \in E : \E t \in Pos : <<e, t>> \notin Good /\ m = d[e][t]}
<1>0. d[e0][t0] \in M
  BY DEF Acyclic
<1>1. M \subseteq Nat /\ M # {}
  BY <1>0
<1>2. PICK m \in M : \A k \in M : m <= k
  BY <1>1, LeastNatural
<1>3. PICK e \in E, t \in Pos : <<e, t>> \notin Good /\ m = d[e][t]
  BY <1>2
<1>4. PICK x \in E, n \in Pos : Reads(spec, e, t, x, n) /\ <<x, n>> \notin Good
  BY <1>3 DEF Inherited
<1>5. d[x][n] < m /\ d[x][n] \in Nat /\ m \in Nat
  BY <1>3, <1>4 DEF Acyclic
<1>6. d[x][n] \in M
  BY <1>4, <1>5
<1>7. m <= d[x][n]
  BY <1>2, <1>6
<1> QED
  BY <1>5, <1>7

\* The element of a value.
LEMMA ElementVal ==
  ASSUME NEW run, NEW E, NEW V, NEW L, Computes(run, E, V, L), NEW e \in E, NEW t \in Pos,
         e.op = "Val"
  PROVE  V[e][t] = e.at[2]
BY DEF Computes, Element, RowOps

\* The element of a variable: that of its own stream, as it is subscribed to.
LEMMA ElementVar ==
  ASSUME NEW run, NEW E, NEW V, NEW L, Computes(run, E, V, L), NEW e \in E, NEW t \in Pos,
         e.op = "Var"
  PROVE  V[e][t] = Subscribed(run, e.at[2], Own(run, V, e.at[2], t))
BY DEF Computes, Element, RowOps

\* The element of a row constructor.
LEMMA ElementRow ==
  ASSUME NEW run, NEW E, NEW V, NEW L, Computes(run, E, V, L), NEW e \in E, NEW t \in Pos,
         e.op \in RowOps
  PROVE  V[e][t] = ZipRow(Row(V, e, t), FALSE, Nodewise(run, e, Row(V, e, t)))
BY DEF Computes, Element, RowOps, Elementwise

\* The element of an index.
LEMMA ElementIndex ==
  ASSUME NEW run, NEW E, NEW V, NEW L, Computes(run, E, V, L), NEW e \in E, NEW t \in Pos,
         e.op = "SIndex"
  PROVE  V[e][t] = Indexed(e.at[2], t, V[e.args[1]][t + e.at[2]], L[e.args[1]])
BY DEF Computes, Element, RowOps

\* What element t of each constructor reads.
LEMMA ReadCases ==
  ASSUME NEW spec, NEW e, NEW t \in Pos
  PROVE  /\ e.op = "Var" /\ e.at[2] \notin ToSet(spec.inputs) =>
              Reads(spec, e, t, spec.exprs[e.at[2]], t)
         /\ e.op \in RowOps =>
              \A i \in 1 .. Arity(e.op) : Reads(spec, e, t, e.args[i], t)
         /\ e.op = "SIndex" =>
              /\ Reads(spec, e, t, e.args[1], t + e.at[2])
              /\ e.at[2] >= 0 => \A n : n <= t + e.at[2] => Reads(spec, e, t, e.args[1], n)
BY DEF Reads, RowOps

\* Operands and expressions of variables are nodes.
LEMMA NodesClosed ==
  ASSUME NEW spec, NEW E, StaticSpec(spec, E), NEW e \in E
  PROVE  /\ \A i \in 1 .. Arity(e.op) : e.args[i] \in E
         /\ e.op = "Var" /\ e.at[2] \notin ToSet(spec.inputs) =>
              e.at[2] \in DOMAIN spec.exprs /\ spec.exprs[e.at[2]] \in E
         /\ e.op \in RowOps => Arity(e.op) \in 1 .. 3
         /\ e.op = "SIndex" => e.at[2] \in Int /\ e.args[1] \in E
<1>1. \A i \in 1 .. Arity(e.op) : e.args[i] \in E
  BY DEF StaticSpec
<1>2. e.op = "Var" /\ e.at[2] \notin ToSet(spec.inputs) =>
        e.at[2] \in DOMAIN spec.exprs /\ spec.exprs[e.at[2]] \in E
  BY DEF StaticSpec
<1>3. e.op \in RowOps => Arity(e.op) \in 1 .. 3
  BY DEF RowOps, Arity
<1>4. e.op = "SIndex" => e.at[2] \in Int /\ e.args[1] \in E
  <2>1. e.op = "SIndex" => 1 \in 1 .. Arity(e.op)
    BY DEF Arity
  <2>2. e.op = "SIndex" => e.at[2] \in Int
    BY DEF StaticSpec
  <2> QED
    BY <1>1, <2>1, <2>2
<1> QED
  BY <1>1, <1>2, <1>3, <1>4

\* The type of a node is made from the types of its operands, which are types.
LEMMA AcceptedNode ==
  ASSUME NEW spec, NEW E, StaticSpec(spec, E), NEW T, Accepted(spec, E, T), NEW e \in E
  PROVE  /\ T[e] \in Types
         /\ T[e] = NodeType(e, Operands(T, e), spec.types)
         /\ \A i \in 1 .. Arity(e.op) : T[e.args[i]] \in Types
<1> DEFINE types == Operands(T, e)
<1>1. "Err" \notin Types /\ "Panic" \notin Types
  BY DEF Types
<1>2. T[e] \in Types /\ T[e] = TypeOfNode(e, types, spec.types)
  BY DEF Accepted, TypeOfExpr
<1>3. \A i \in 1 .. Arity(e.op) : e.args[i] \in E
  BY DEF StaticSpec
<1>4. \A i \in 1 .. Arity(e.op) : T[e.args[i]] \in Types
  BY <1>3 DEF Accepted
<1> HIDE DEF types
<1>5. T[e] = NodeType(e, types, spec.types)
  BY <1>1, <1>2 DEF TypeOfNode
<1> QED
  BY <1>2, <1>4, <1>5 DEF types

\* The checker's type of each constructor that is not pointwise.
LEMMA AcceptedCases ==
  ASSUME NEW spec, NEW E, StaticSpec(spec, E), NEW T, Accepted(spec, E, T), NEW e \in E
  PROVE  /\ e.op = "Val" => T[e] = ValueType(e.at[2])
         /\ e.op = "Var" => e.at[2] \in DOMAIN spec.types /\ T[e] = spec.types[e.at[2]]
         /\ e.op = "SIndex" => T[e] = T[e.args[1]]
<1> DEFINE types == Operands(T, e)
<1>1. T[e] # "Err" /\ T[e] = NodeType(e, types, spec.types)
  BY AcceptedNode DEF Types
<1>2. e.op = "SIndex" => types[1] = T[e.args[1]]
  BY DEF Arity, Operands
<1> HIDE DEF types
<1>3. e.op = "Val" => T[e] = ValueType(e.at[2])
  BY <1>1 DEF NodeType
<1>4. e.op = "Var" => e.at[2] \in DOMAIN spec.types /\ T[e] = spec.types[e.at[2]]
  BY <1>1 DEF NodeType
<1>5. e.op = "SIndex" => T[e] = types[1]
  BY <1>1 DEF NodeType
<1> QED
  BY <1>2, <1>3, <1>4, <1>5

\* The elements of an input are values, or stop.
LEMMA DeliveredElements ==
  ASSUME NEW run, RowsOfValues(run), NEW v \in ToSet(run.spec.inputs), NEW t \in Pos
  PROVE  \/ t \in 1 .. Len(run.rows) /\ Delivered(run, v, t) = run.rows[t][v]
            /\ IsValue(Delivered(run, v, t))
         \/ Delivered(run, v, t) \in {End, Waiting}
BY DEF RowsOfValues, Delivered, Pos

\* An index reads elements that are there.
LEMMA IndexedElements ==
  ASSUME NEW i \in Int, NEW t \in Pos, NEW x, NEW length
  PROVE  \/ Indexed(i, t, x, length) \in {Unknown, End}
         \/ Indexed(i, t, x, length) = x /\ t + i \in Pos
BY DEF Indexed, Pos

\* The element of a value that has a type of the checker.
LEMMA ValueFits ==
  ASSUME NEW x, IsValue(x)
  PROVE  x[1] \in Types /\ Of(x, x[1]) /\ ValueType(x) = x[1] /\ ~Stopped(x)
<1>1. PICK type \in Types : Of(x, type)
  BY DEF IsValue
<1>2. x[1] = type /\ ~Stopped(x)
  BY <1>1, ValueTag
<1>3. x[1] \in Types /\ x[1] # "List" /\ x[1] # "Unknown"
  BY <1>2 DEF Types
<1>4. ValueType(x) = x[1]
  BY <1>3 DEF ValueType
<1> QED
  BY <1>1, <1>2, <1>3, <1>4

\* An element that fits some type and has the tag of another is a value of that.
LEMMA TaggedFits ==
  ASSUME NEW x, NEW type \in Types, NEW other \in Types, Fits(x, other), x[1] = type
  PROVE  Of(x, type)
<1>1. x # Unknown /\ ~IsStop(x)
  BY DEF Types, Unknown, IsStop, End, Waiting, Panic
<1> QED
  BY <1>1, ValueTag DEF Fits

-----------------------------------------------------------------------------
(* The typed semantics computes values of the checked types.               *)

\* Whatever the type checker accepts computes values of the checked types: every
\* element of the typed stream of an expression has the type the checker gave
\* the expression, or is Unknown, or stops the stream.
THEOREM TypedElements ==
  ASSUME NEW run, run.mode = "typed", NEW E, StaticSpec(run.spec, E), RowsOfValues(run),
         NEW d, Acyclic(run.spec, E, d), NEW V, NEW L, Computes(run, E, V, L),
         NEW T, Accepted(run.spec, E, T)
  PROVE  \A e \in E : \A t \in Pos : Fits(V[e][t], T[e])
<1> DEFINE spec == run.spec
<1>a. StaticSpec(spec, E) /\ Acyclic(spec, E, d) /\ Accepted(spec, E, T)
  OBVIOUS
<1>b. Computes(run, E, V, L) /\ RowsOfValues(run) /\ run.mode = "typed" /\ run.spec = spec
  OBVIOUS
<1> HIDE DEF spec
<1> DEFINE Good == {p \in E \X Pos : Fits(V[p[1]][p[2]], T[p[1]])}
<1> SUFFICES ASSUME NEW e \in E, NEW t \in Pos,
                    \A x \in E : \A n \in Pos : Reads(spec, e, t, x, n) => Fits(V[x][n], T[x])
             PROVE  Fits(V[e][t], T[e])
  <2>1. \A x \in E : \A n \in Pos : <<x, n>> \in Good <=> Fits(V[x][n], T[x])
    OBVIOUS
  <2>2. Inherited(spec, E, Good)
    BY <2>1 DEF Inherited
  <2> HIDE DEF Good
  <2>3. \A x \in E : \A n \in Pos : <<x, n>> \in Good
    BY <1>a, <2>2, ElementInduction
  <2> QED
    BY <2>1, <2>3
<1>0. /\ T[e] \in Types
      /\ \A i \in 1 .. Arity(e.op) : e.args[i] \in E /\ T[e.args[i]] \in Types
  BY <1>a, AcceptedNode, NodesClosed
<1>1. CASE e.op = "Val"
  <2>1. V[e][t] = e.at[2] /\ IsValue(e.at[2])
    BY <1>a, <1>b, <1>1, ElementVal DEF StaticSpec
  <2>2. T[e] = ValueType(e.at[2])
    BY <1>1, AcceptedCases, <1>a
  <2> QED
    BY <2>1, <2>2, ValueFits DEF Fits
<1>2. CASE e.op = "Var"
  <2> DEFINE v == e.at[2]
             own == Own(run, V, v, t)
  <2>1. T[e] = spec.types[v]
    BY <1>2, AcceptedCases, <1>a
  <2>2. V[e][t] = Subscribed(run, v, own)
    BY <1>2, ElementVar, <1>b
  <2>3. V[e][t] = ToTyped(T[e], own)
    BY <2>1, <2>2, <1>b DEF Subscribed
  <2>4. \E other \in Types : Fits(own, other)
    <3>1. CASE v \in ToSet(spec.inputs)
      <4>1. own = Delivered(run, v, t)
        BY <3>1, <1>b DEF Own
      <4> QED
        BY <3>1, <4>1, <1>b, DeliveredElements DEF Fits, IsValue, IsStop, Types
    <3>2. CASE v \notin ToSet(spec.inputs)
      <4>1. v \in DOMAIN spec.exprs /\ spec.exprs[v] \in E
        BY <1>2, <3>2, NodesClosed, <1>a
      <4>2. own = V[spec.exprs[v]][t]
        BY <3>2, <1>b DEF Own
      <4>3. Reads(spec, e, t, spec.exprs[v], t)
        BY <1>2, <3>2, ReadCases
      <4> QED
        BY <4>1, <4>2, <4>3, <1>a DEF Accepted
    <3> QED
      BY <3>1, <3>2
  <2> HIDE DEF own
  <2>5. CASE Stopped(own)
    <3>1. V[e][t] = own
      BY <2>3, <2>5 DEF ToTyped
    <3> QED
      BY <3>1, <2>4, <2>5, ValueTag, UnknownGoesOn DEF Fits
  <2>6. CASE ~Stopped(own) /\ own[1] = T[e]
    <3>1. V[e][t] = own
      BY <2>3, <2>6 DEF ToTyped
    <3> QED
      BY <3>1, <2>4, <2>6, <1>0, TaggedFits DEF Fits
  <2>7. CASE ~Stopped(own) /\ own[1] # T[e]
    BY <2>3, <2>7 DEF ToTyped, Fits, IsStop
  <2> QED
    BY <2>5, <2>6, <2>7
<1>3. CASE e.op \in RowOps
  <2> DEFINE n == Arity(e.op)
             xs == Row(V, e, t)
             types == Operands(T, e)
  <2>1. V[e][t] = ZipRow(xs, FALSE, Nodewise(run, e, xs))
    BY <1>3, ElementRow, <1>b, ZenonT(30)
  <2>2. IsRow(xs, n)
    BY <1>3, <1>0 DEF Row, IsRow, RowOps, Arity
  <2>3. n \in Nat
    BY <1>3, NodesClosed, <1>a
  <2>4. T[e] = NodeType(e, types, spec.types)
    BY AcceptedNode, <1>a
  <2>5. \A i \in 1 .. n : xs[i] = V[e.args[i]][t] /\ types[i] = T[e.args[i]]
    BY DEF Row, Operands
  <2>6. \A i \in 1 .. n : Fits(xs[i], types[i]) /\ types[i] \in Types
    <3>1. \A i \in 1 .. n : Reads(spec, e, t, e.args[i], t)
      BY <1>3, ReadCases
    <3> QED
      BY <3>1, <2>5, <1>0
  <2> HIDE DEF xs, types
  <2>7. \A i \in 1 .. n : Stopped(xs[i]) => IsStop(xs[i])
    BY <2>6, ValueTag, UnknownGoesOn DEF Fits
  <2>8. CASE \E i \in 1 .. n : Stopped(xs[i])
    <3>1. PICK i \in 1 .. n : Stopped(xs[i]) /\ ZipRow(xs, FALSE, Nodewise(run, e, xs)) = xs[i]
      BY <2>2, <2>3, <2>7, <2>8, RowStops
    <3> QED
      BY <2>1, <2>7, <3>1 DEF Fits
  <2>9. CASE \A i \in 1 .. n : ~Stopped(xs[i])
    <3>1. V[e][t] = Nodewise(run, e, xs)
      BY <2>1, <2>2, <2>3, <2>9, RowGoesOn
    <3>2. \A i \in 1 .. n : types[i] \in Types /\ (Of(xs[i], types[i]) \/ xs[i] = Unknown)
      BY <2>6, <2>9, StopTag DEF Fits
    <3>3. \/ Of(Nodewise(run, e, xs), T[e])
          \/ Nodewise(run, e, xs) \in {Unknown, Panic("zero")}
      BY <3>2, <2>2, <2>4, <1>0, <1>3, <1>b, NodewiseType
    <3> QED
      BY <3>1, <3>3 DEF Fits, IsStop
  <2> QED
    BY <2>8, <2>9
<1>4. CASE e.op = "SIndex"
  <2> DEFINE i == e.at[2]
             x == V[e.args[1]][t + i]
  <2>1. i \in Int /\ e.args[1] \in E
    BY <1>4, NodesClosed, <1>a
  <2>2. T[e] = T[e.args[1]]
    BY <1>4, AcceptedCases, <1>a
  <2>3. V[e][t] = Indexed(i, t, x, L[e.args[1]])
    BY <1>4, ElementIndex, <1>b
  <2>4. t + i \in Pos => Fits(x, T[e])
    BY <2>1, <2>2, <1>4, ReadCases
  <2> HIDE DEF i, x
  <2> QED
    BY <2>1, <2>3, <2>4, IndexedElements DEF Fits, IsStop
<1> QED
  BY <1>1, <1>2, <1>3, <1>4, <1>a DEF StaticSpec

-----------------------------------------------------------------------------
(* Rows of any run.                                                        *)

\* x neither ends the stream nor waits.
IsThere(x) == x[1] \notin {"End", "Waiting"}

\* A row ends or waits only as one of its elements, or what is made of them.
LEMMA RowNever ==
  ASSUME NEW n, NEW xs, IsRow(xs, n), NEW x, NEW S \in SUBSET {"End", "Waiting"},
         \A i \in 1 .. n : xs[i][1] \notin S,
         (\A i \in 1 .. n : ~Stopped(xs[i])) => x[1] \notin S
  PROVE  ZipRow(xs, FALSE, x)[1] \notin S
<1>1. CASE "Panic" \in Kinds(xs)
  BY <1>1, FirstPanicThere DEF ZipRow
<1>2. CASE "Panic" \notin Kinds(xs) /\ "End" \in Kinds(xs)
  <2>1. "End" \notin S
    BY <1>2 DEF Kinds, IsRow
  <2> QED
    BY <1>2, <2>1 DEF ZipRow, End
<1>3. CASE "Panic" \notin Kinds(xs) /\ "End" \notin Kinds(xs) /\ "Waiting" \in Kinds(xs)
  <2>1. "Waiting" \notin S
    BY <1>3 DEF Kinds, IsRow
  <2> QED
    BY <1>3, <2>1 DEF ZipRow, Waiting
<1>4. CASE "Panic" \notin Kinds(xs) /\ "End" \notin Kinds(xs) /\ "Waiting" \notin Kinds(xs)
  <2>1. \A i \in 1 .. n : ~Stopped(xs[i])
    BY <1>4 DEF Kinds, Stopped, IsRow
  <2> QED
    BY <1>4, <2>1 DEF ZipRow
<1> QED
  BY <1>1, <1>2, <1>3, <1>4

\* What a binary operator makes of two values, of whatever types, is there.
LEMMA OperateThere ==
  ASSUME NEW sym \in Symbols, NEW x, NEW y
  PROVE  IsThere(Operate(sym, x, y))
<1>1. \A why : IsThere(Panic(why))
  BY DEF IsThere, Panic
<1>2. \A p : IsThere(Bool(p)) /\ IsThere(Str(p)) /\ IsThere(Int64(p)) /\ IsThere(Float(p))
  BY DEF IsThere, Bool, Str, Int64, Float
<1>3. \A p : IsThere(<<"Int", p>>) /\ IsThere(<<"Float", p>>)
  BY DEF IsThere
<1>4. CASE sym \in NumericalOps
  <2>1. Operate(sym, x, y) = Arithmetic(sym, x, y)
    BY <1>4 DEF Operate, NumericalOps
  <2>2. CASE ~(Numeric(x) /\ Numeric(y))
    BY <2>1, <2>2, <1>1 DEF Arithmetic
  <2>3. CASE Numeric(x) /\ Numeric(y)
    <3> DEFINE type == IF x[1] = "Int" /\ y[1] = "Int" THEN "Int" ELSE "Float"
    <3>1. type = "Int" \/ type = "Float"
      OBVIOUS
    <3>2. CASE sym = "+"
      <4>1. Arithmetic(sym, x, y) = <<type, x[2] + y[2]>>
        BY <2>3, <3>2 DEF Arithmetic
      <4> QED
        BY <2>1, <3>1, <4>1, <1>3
    <3>3. CASE sym = "-"
      <4>1. Arithmetic(sym, x, y) = <<type, x[2] - y[2]>>
        BY <2>3, <3>3 DEF Arithmetic
      <4> QED
        BY <2>1, <3>1, <4>1, <1>3
    <3>4. CASE sym = "*"
      <4>1. Arithmetic(sym, x, y) = <<type, x[2] * y[2]>>
        BY <2>3, <3>4 DEF Arithmetic
      <4> QED
        BY <2>1, <3>1, <4>1, <1>3
    <3>5. CASE sym \in {"/", "%"} /\ type = "Float"
      <4>1. Arithmetic(sym, x, y) = Float(<<sym, x[2], y[2]>>)
        BY <2>3, <3>5 DEF Arithmetic
      <4> QED
        BY <2>1, <4>1, <1>2
    <3>6. CASE sym \in {"/", "%"} /\ type = "Int" /\ y[2] = 0
      <4>1. Arithmetic(sym, x, y) = Panic("zero")
        BY <2>3, <3>6 DEF Arithmetic
      <4> QED
        BY <2>1, <4>1, <1>1
    <3>7. CASE sym = "/" /\ type = "Int" /\ y[2] # 0
      <4>1. Arithmetic(sym, x, y) = Int64(Quotient(x[2], y[2]))
        BY <2>3, <3>7 DEF Arithmetic
      <4> QED
        BY <2>1, <4>1, <1>2
    <3>8. CASE sym = "%" /\ type = "Int" /\ y[2] # 0
      <4>1. Arithmetic(sym, x, y) = Int64(x[2] - y[2] * Quotient(x[2], y[2]))
        BY <2>3, <3>8 DEF Arithmetic
      <4> QED
        BY <2>1, <4>1, <1>2
    <3> QED
      BY <1>4, <3>1, <3>2, <3>3, <3>4, <3>5, <3>6, <3>7, <3>8 DEF NumericalOps
  <2> QED
    BY <2>2, <2>3
<1>5. CASE sym \in {"<=", "<", ">=", ">"}
  <2>1. Operate(sym, x, y) = Compare(sym, x, y)
    BY <1>5 DEF Operate
  <2>2. (\E p : Compare(sym, x, y) = Bool(p)) \/ Compare(sym, x, y) = Panic("type")
    BY DEF Compare
  <2> QED
    BY <2>1, <2>2, <1>1, <1>2
<1>6. CASE sym = "&&"
  BY <1>2, <1>6 DEF Operate
<1>7. CASE sym = "||"
  BY <1>2, <1>7 DEF Operate
<1>8. CASE sym = "=="
  BY <1>2, <1>8 DEF Operate
<1>9. CASE sym = "++"
  BY <1>1, <1>2, <1>9 DEF Operate
<1> QED
  BY <1>4, <1>5, <1>6, <1>7, <1>8, <1>9 DEF Symbols

\* What a constructor makes of a row without a stop is there.
LEMMA NodewiseThere ==
  ASSUME NEW run, NEW e, e.op \in RowOps, e.op = "BinOp" => e.at[2] \in Symbols,
         NEW xs, \A i \in 1 .. Arity(e.op) : ~Stopped(xs[i])
  PROVE  IsThere(Nodewise(run, e, xs))
<1>1. IsThere(Unknown) /\ IsThere(Panic("type")) /\ \A p : IsThere(Bool(p))
  BY DEF IsThere, Unknown, Panic, Bool
<1>2. \A i \in 1 .. Arity(e.op) : IsThere(xs[i])
  BY DEF Stopped, IsThere
<1>3. CASE e.op = "BinOp"
  <2>1. IsThere(Operate(e.at[2], xs[1], xs[2]))
    BY <1>3, OperateThere
  <2>2. Nodewise(run, e, xs) \in {Unknown, Operate(e.at[2], xs[1], xs[2])}
    BY <1>3 DEF Nodewise, Lift
  <2> QED
    BY <1>1, <2>1, <2>2
<1>4. CASE e.op = "Not"
  <2>1. Nodewise(run, e, xs) \in {Unknown, Bool(xs[1] = Bool(FALSE))}
    BY <1>4 DEF Nodewise, Lift
  <2> QED
    BY <1>1, <2>1
<1>5. CASE e.op = "If"
  <2>1. 2 \in 1 .. Arity(e.op) /\ 3 \in 1 .. Arity(e.op)
    BY <1>5 DEF Arity
  <2>2. Nodewise(run, e, xs) \in {xs[2], xs[3], Unknown, Panic("type")}
    BY <1>5 DEF Nodewise, Choice
  <2> QED
    BY <1>1, <1>2, <2>1, <2>2
<1>6. CASE e.op = "Default"
  <2>1. 1 \in 1 .. Arity(e.op) /\ 2 \in 1 .. Arity(e.op)
    BY <1>6 DEF Arity
  <2>2. Nodewise(run, e, xs) \in {xs[1], xs[2]}
    BY <1>6 DEF Nodewise
  <2> QED
    BY <1>2, <2>1, <2>2
<1> QED
  BY <1>3, <1>4, <1>5, <1>6 DEF RowOps

-----------------------------------------------------------------------------
(* The constraint solver's operators.                                      *)

\* On operands the type checker accepts, but for == of truth values, the table
\* of the constraint solver gives what the stream semantics computes.
THEOREM TableFollowsStreams ==
  ASSUME NEW sym, NEW t1 \in Types, NEW t2 \in Types, NEW x, NEW y, Of(x, t1), Of(y, t2),
         BinOpType(sym, t1, t2) # "Err", ~(sym = "==" /\ t1 = "Bool")
  PROVE  BinopTable(sym, x, y) = Operate(sym, x, y)
<1>1. t1 = t2 /\ x[1] = t1 /\ y[1] = t1
  BY ValueTag DEF BinOpType
<1>2. CASE sym \in NumericalOps
  <2>1. Numeric(x) /\ Numeric(y)
    BY <1>1, <1>2 DEF BinOpType, Numeric, NumericalOps
  <2> QED
    BY <2>1, <1>2 DEF BinopTable, Operate, NumericalOps
<1>3. CASE sym \in {"||", "&&"}
  BY <1>1, <1>3 DEF BinOpType, BinopTable, NumericalOps, Numeric
<1>4. CASE sym = "++"
  BY <1>1, <1>4 DEF BinOpType, BinopTable, NumericalOps, Numeric
<1>5. CASE sym = "==" /\ t1 = "Str"
  BY <1>1, <1>5 DEF BinopTable, Numeric
<1>6. CASE sym = "==" /\ t1 = "Int"
  <2>1. x = Int64(x[2]) /\ y = Int64(y[2])
    BY <1>1, <1>6, ValueShape
  <2>2. x = y <=> x[2] = y[2]
    BY <2>1
  <2>3. BinopTable(sym, x, y) = Bool(x[2] = y[2]) /\ Operate(sym, x, y) = Bool(x = y)
    BY <1>1, <1>6 DEF BinopTable, Operate, Numeric
  <2> QED
    BY <2>2, <2>3
<1>7. CASE sym = "<="
  <2>1. t1 = "Int" /\ Numeric(x) /\ Numeric(y)
    BY <1>1, <1>7 DEF BinOpType, NumericalOps, Numeric
  <2>2. BinopTable(sym, x, y) = Bool(x[2] <= y[2])
    BY <2>1, <1>7 DEF BinopTable
  <2>3. Operate(sym, x, y) = Bool(x[2] <= y[2])
    BY <1>1, <2>1, <1>7 DEF Operate, Compare, Comparable, Precedes
  <2> QED
    BY <2>2, <2>3
<1> QED
  BY <1>2, <1>3, <1>4, <1>5, <1>6, <1>7 DEF BinOpType, NumericalOps

-----------------------------------------------------------------------------
(* No stream waits for the future, and none takes back what it has shown.  *)

\* The row of a node's operands, and their tags.
LEMMA RowShape ==
  ASSUME NEW spec, NEW E, StaticSpec(spec, E), NEW V, NEW e \in E, e.op \in RowOps, NEW t
  PROVE  /\ IsRow(Row(V, e, t), Arity(e.op)) /\ Arity(e.op) \in Nat
         /\ \A i \in 1 .. Arity(e.op) : e.args[i] \in E /\ Row(V, e, t)[i] = V[e.args[i]][t]
<1>1. \A i \in 1 .. Arity(e.op) : e.args[i] \in E
  BY NodesClosed
<1>2. Arity(e.op) \in Nat
  BY NodesClosed
<1> QED
  BY <1>1, <1>2 DEF Row, IsRow

\* An element of a row constructor is there when its operands are; so it is
\* with S instead of ends and waits.
LEMMA RowElementNever ==
  ASSUME NEW run, NEW E, StaticSpec(run.spec, E), NEW V, NEW L, Computes(run, E, V, L),
         NEW e \in E, e.op \in RowOps, NEW t \in Pos, NEW S \in SUBSET {"End", "Waiting"},
         \A i \in 1 .. Arity(e.op) : V[e.args[i]][t][1] \notin S
  PROVE  V[e][t][1] \notin S
<1> DEFINE spec == run.spec
           xs == Row(V, e, t)
           n == Arity(e.op)
<1>1. n \in Nat /\ (\A i \in 1 .. n : xs[i] = V[e.args[i]][t])
  BY RowShape
<1>2. IsRow(xs, n)
  BY RowShape
<1>3. V[e][t] = ZipRow(xs, FALSE, Nodewise(run, e, xs))
  BY ElementRow, ZenonT(30)
<1>4. e.op = "BinOp" => e.at[2] \in Symbols
  BY DEF StaticSpec
<1> HIDE DEF xs, n
<1>5. (\A i \in 1 .. n : ~Stopped(xs[i])) => Nodewise(run, e, xs)[1] \notin S
  BY <1>4, NodewiseThere DEF IsThere, n
<1>6. \A i \in 1 .. n : xs[i][1] \notin S
  BY <1>1 DEF n
<1>7. ZipRow(xs, FALSE, Nodewise(run, e, xs))[1] \notin S
  BY <1>1, <1>2, <1>5, <1>6, RowNever
<1> QED
  BY <1>3, <1>7

\* A value and an input are there.
LEMMA SubscribedThere ==
  ASSUME NEW run, NEW v, NEW x, NEW S \in SUBSET {"End", "Waiting"}, x[1] \notin S
  PROVE  Subscribed(run, v, x)[1] \notin S
BY DEF Subscribed, ToTyped, Panic

\* A specification that never looks ahead keeps up with its inputs, in both
\* semantics and whatever its rows are: after t rows the element t of every
\* stream is there, or a panic has ended the process.
THEOREM LooksBackKeepsUp ==
  ASSUME NEW run, NEW E, StaticSpec(run.spec, E), RowsOfValues(run),
         NEW d, Acyclic(run.spec, E, d), NEW V, NEW L, Computes(run, E, V, L),
         \A e \in E : e.op = "SIndex" => e.at[2] <= 0
  PROVE  \A e \in E : \A t \in 1 .. Len(run.rows) : V[e][t] \notin {End, Waiting}
<1> DEFINE spec == run.spec
           N == Len(run.rows)
<1>a. StaticSpec(spec, E) /\ Acyclic(spec, E, d) /\ run.spec = spec /\ N = Len(run.rows) /\ N \in Nat
  BY DEF RowsOfValues
<1> HIDE DEF spec, N
<1> DEFINE Good == {p \in E \X Pos : p[2] <= N => IsThere(V[p[1]][p[2]])}
<1>1. \A x \in E : \A n \in Pos : <<x, n>> \in Good <=> (n <= N => IsThere(V[x][n]))
  OBVIOUS
<1> HIDE DEF Good
<1>2. SUFFICES Inherited(spec, E, Good)
  <2>1. \A x \in E : \A n \in Pos : <<x, n>> \in Good
    BY <1>a, <1>2, ElementInduction
  <2>2. ASSUME NEW x \in E, NEW n \in 1 .. N
        PROVE  IsThere(V[x][n])
    <3>1. n \in Pos /\ n <= N
      BY <1>a DEF Pos
    <3> QED
      BY <1>1, <2>1, <3>1
  <2> QED
    BY <2>2, <1>a DEF IsThere, End, Waiting
<1>3. SUFFICES ASSUME NEW e \in E, NEW t \in Pos, t <= N,
                      \A x \in E : \A n \in Pos : Reads(spec, e, t, x, n) => (n <= N => IsThere(V[x][n]))
               PROVE  IsThere(V[e][t])
  BY <1>1 DEF Inherited
<1>4. CASE e.op = "Val"
  <2>1. V[e][t] = e.at[2]
    BY <1>4, ElementVal
  <2>2. IsValue(e.at[2])
    BY <1>a, <1>4 DEF StaticSpec
  <2>3. ~Stopped(e.at[2])
    BY <2>2, ValueFits
  <2> QED
    BY <2>1, <2>3 DEF IsThere, Stopped
<1>5. CASE e.op = "Var"
  <2> DEFINE v == e.at[2]
             own == Own(run, V, v, t)
  <2>1. V[e][t] = Subscribed(run, v, own)
    BY <1>5, ElementVar
  <2>2. IsThere(own)
    <3>1. CASE v \in ToSet(spec.inputs)
      <4>1. own = run.rows[t][v] /\ IsValue(run.rows[t][v])
        BY <3>1, <1>a, <1>3 DEF Own, Delivered, RowsOfValues, Pos
      <4> QED
        BY <4>1, ValueFits DEF IsThere, Stopped
    <3>2. CASE v \notin ToSet(spec.inputs)
      <4>1. spec.exprs[v] \in E
        BY <1>5, <3>2, <1>a, NodesClosed
      <4>2. own = V[spec.exprs[v]][t]
        BY <3>2, <1>a DEF Own
      <4>3. Reads(spec, e, t, spec.exprs[v], t)
        BY <1>5, <3>2, ReadCases
      <4> QED
        BY <4>1, <4>2, <4>3, <1>3
    <3> QED
      BY <3>1, <3>2
  <2> HIDE DEF own
  <2> QED
    BY <2>1, <2>2, SubscribedThere, ZenonT(30) DEF IsThere
<1>6. CASE e.op \in RowOps
  <2>1. \A i \in 1 .. Arity(e.op) : e.args[i] \in E /\ Reads(spec, e, t, e.args[i], t)
    BY <1>6, <1>a, NodesClosed, ReadCases
  <2>2. \A i \in 1 .. Arity(e.op) : V[e.args[i]][t][1] \notin {"End", "Waiting"}
    BY <2>1, <1>3 DEF IsThere
  <2> QED
    BY <2>2, <1>6, RowElementNever DEF IsThere
<1>7. CASE e.op = "SIndex"
  <2> DEFINE i == e.at[2]
             x == V[e.args[1]][t + i]
  <2>1. i \in Int /\ i <= 0 /\ e.args[1] \in E
    BY <1>7, <1>a, NodesClosed
  <2>2. V[e][t] = Indexed(i, t, x, L[e.args[1]])
    BY <1>7, ElementIndex
  <2>3. t + i \in Pos => IsThere(x)
    <3>1. Reads(spec, e, t, e.args[1], t + i)
      BY <1>7, ReadCases
    <3>2. t + i <= N
      BY <2>1, <1>3, <1>a DEF Pos
    <3> QED
      BY <2>1, <3>1, <3>2, <1>3
  <2>4. IsThere(Unknown) /\ ~IsThere(End)
    BY DEF IsThere, Unknown, End
  <2> HIDE DEF i, x
  <2> QED
    BY <2>1, <2>2, <2>3, <2>4 DEF Indexed, Pos
<1> QED
  BY <1>4, <1>5, <1>6, <1>7, <1>a DEF StaticSpec

\* What a row makes does not depend on the rows of input, only on the semantics.
LEMMA NodewiseMode ==
  ASSUME NEW r1, NEW r2, r1.mode = r2.mode, NEW e, NEW xs
  PROVE  Nodewise(r1, e, xs) = Nodewise(r2, e, xs)
BY DEF Nodewise, Lift, Choice

\* Rows of equal elements are equal.
LEMMA RowsEqual ==
  ASSUME NEW V, NEW W, NEW e, NEW t, \A i \in 1 .. Arity(e.op) : W[e.args[i]][t] = V[e.args[i]][t]
  PROVE  Row(W, e, t) = Row(V, e, t)
BY DEF Row

\* Element n of x is there, and no panic, in V only if it is the same in W.
Kept(V, W, x, n) == ~Stopped(V[x][n]) => W[x][n] = V[x][n]

\* A row that goes on is the same where its operands are.
LEMMA RowElementStays ==
  ASSUME NEW r1, NEW r2, r1.mode = r2.mode, NEW E, StaticSpec(r1.spec, E),
         NEW V, NEW L, Computes(r1, E, V, L), NEW W, NEW K, Computes(r2, E, W, K),
         NEW e \in E, e.op \in RowOps, NEW t \in Pos, ~Stopped(V[e][t]),
         \A i \in 1 .. Arity(e.op) : Kept(V, W, e.args[i], t)
  PROVE  W[e][t] = V[e][t]
<1>a. /\ V[e][t] = ZipRow(Row(V, e, t), FALSE, Nodewise(r1, e, Row(V, e, t)))
      /\ W[e][t] = ZipRow(Row(W, e, t), FALSE, Nodewise(r2, e, Row(W, e, t)))
  BY DEF Computes, Element, RowOps, Elementwise
<1> DEFINE xs == Row(V, e, t)
           n == Arity(e.op)
<1>1. IsRow(xs, n)
  BY RowShape
<1>2. n \in Nat /\ \A i \in 1 .. n : xs[i] = V[e.args[i]][t]
  BY RowShape
<1>3. V[e][t] = ZipRow(xs, FALSE, Nodewise(r1, e, xs))
  BY <1>a
<1> HIDE DEF xs, n
<1>5. \A i \in 1 .. n : ~Stopped(xs[i])
  BY <1>1, <1>2, <1>3, RowGoesOn, ZenonT(30)
<1>6. \A i \in 1 .. n : W[e.args[i]][t] = V[e.args[i]][t]
  BY <1>2, <1>5 DEF n, Kept
<1>7. Row(W, e, t) = xs
  BY <1>6, RowsEqual DEF xs, n
<1>8. Nodewise(r2, e, xs) = Nodewise(r1, e, xs)
  BY NodewiseMode
<1> QED
  BY <1>3, <1>a, <1>7, <1>8

\* What is emitted stays emitted: an element of any stream that is there, and
\* no panic, is the same after more rows, and after the inputs have ended.
THEOREM ElementsStay ==
  ASSUME NEW r1, NEW r2, r1.spec = r2.spec, r1.mode = r2.mode, r1.closed = FALSE,
         RowsOfValues(r1), RowsOfValues(r2), Len(r1.rows) <= Len(r2.rows),
         \A n \in 1 .. Len(r1.rows) : r2.rows[n] = r1.rows[n],
         NEW E, StaticSpec(r1.spec, E), NEW d, Acyclic(r1.spec, E, d),
         NEW V, NEW L, Computes(r1, E, V, L), NEW W, NEW K, Computes(r2, E, W, K)
  PROVE  \A e \in E : \A t \in Pos : ~Stopped(V[e][t]) => W[e][t] = V[e][t]
<1> DEFINE spec == r1.spec
<1>a. StaticSpec(spec, E) /\ Acyclic(spec, E, d) /\ r1.spec = spec /\ r2.spec = spec /\ StaticSpec(r2.spec, E)
  OBVIOUS
<1> HIDE DEF spec
<1> DEFINE Stays(x, n) == V[x][n][1] # "End" /\ Kept(V, W, x, n)
           Good == {p \in E \X Pos : Stays(p[1], p[2])}
<1>1. \A x \in E : \A n \in Pos : <<x, n>> \in Good <=> Stays(x, n)
  OBVIOUS
<1> HIDE DEF Good
<1>2. SUFFICES Inherited(spec, E, Good)
  <2>1. \A x \in E : \A n \in Pos : <<x, n>> \in Good
    BY <1>a, <1>2, ElementInduction
  <2> QED
    BY <1>1, <2>1 DEF Kept
<1>3. SUFFICES ASSUME NEW e \in E, NEW t \in Pos,
                      \A x \in E : \A n \in Pos : Reads(spec, e, t, x, n) => Stays(x, n)
               PROVE  Stays(e, t)
  BY <1>1 DEF Inherited
<1>4. CASE e.op = "Val"
  <2>1. V[e][t] = e.at[2] /\ W[e][t] = e.at[2]
    BY <1>4, ElementVal
  <2>2. IsValue(e.at[2])
    BY <1>a, <1>4 DEF StaticSpec
  <2> QED
    BY <2>1, <2>2, ValueFits DEF Stopped, Kept
<1>5. CASE e.op = "Var"
  <2> DEFINE v == e.at[2]
             own1 == Own(r1, V, v, t)
             own2 == Own(r2, W, v, t)
  <2>1. V[e][t] = Subscribed(r1, v, own1) /\ W[e][t] = Subscribed(r2, v, own2)
    BY <1>5, ElementVar
  <2>2. own1[1] # "End" /\ (~Stopped(own1) => own2 = own1)
    <3>1. CASE v \in ToSet(spec.inputs)
      <4>1. own1 = Delivered(r1, v, t) /\ own2 = Delivered(r2, v, t)
        BY <3>1, <1>a DEF Own
      <4>2. CASE t \in 1 .. Len(r1.rows)
        <5>1. own1 = r1.rows[t][v] /\ own2 = r2.rows[t][v] /\ IsValue(r1.rows[t][v])
          BY <3>1, <4>1, <4>2, <1>a DEF Delivered, RowsOfValues
        <5> QED
          BY <4>2, <5>1, ValueFits DEF Stopped
      <4>3. CASE t \notin 1 .. Len(r1.rows)
        <5>1. own1 = Waiting
          BY <4>1, <4>3 DEF Delivered, RowsOfValues, Pos
        <5> QED
          BY <5>1 DEF Waiting, Stopped
      <4> QED
        BY <4>2, <4>3
    <3>2. CASE v \notin ToSet(spec.inputs)
      <4>1. spec.exprs[v] \in E
        BY <1>5, <3>2, <1>a, NodesClosed
      <4>2. own1 = V[spec.exprs[v]][t] /\ own2 = W[spec.exprs[v]][t]
        BY <3>2, <1>a DEF Own
      <4>3. Reads(spec, e, t, spec.exprs[v], t)
        BY <1>5, <3>2, ReadCases
      <4> QED
        BY <4>1, <4>2, <4>3, <1>3 DEF Kept
    <3> QED
      BY <3>1, <3>2
  <2> HIDE DEF own1, own2
  <2>3. V[e][t][1] # "End"
    <3>1. Subscribed(r1, v, own1)[1] \notin {"End"}
      BY <2>2, SubscribedThere
    <3> QED
      BY <2>1, <3>1
  <2>4. Stopped(own1) => Stopped(V[e][t])
    BY <2>1 DEF Subscribed, ToTyped
  <2>5. Subscribed(r2, v, own1) = Subscribed(r1, v, own1)
    BY <1>a DEF Subscribed
  <2> QED
    BY <2>1, <2>2, <2>3, <2>4, <2>5 DEF Kept
<1>6. CASE e.op \in RowOps
  <2> DEFINE n == Arity(e.op)
  <2>1. \A i \in 1 .. n : e.args[i] \in E /\ Reads(spec, e, t, e.args[i], t)
    BY <1>6, <1>a, NodesClosed, ReadCases
  <2>2. \A i \in 1 .. n : Stays(e.args[i], t)
    BY <2>1, <1>3
  <2>3. V[e][t][1] # "End"
    <3>1. \A i \in 1 .. n : V[e.args[i]][t][1] \notin {"End"}
      BY <2>2
    <3>2. V[e][t][1] \notin {"End"}
      BY <3>1, <1>6, <1>a, RowElementNever
    <3> QED
      BY <3>2
  <2>4. Kept(V, W, e, t)
    <3>1. \A i \in 1 .. n : Kept(V, W, e.args[i], t)
      BY <2>2
    <3> QED
      BY <3>1, <1>6, <1>a, RowElementStays DEF Kept
  <2> QED
    BY <2>3, <2>4
<1>7. CASE e.op = "SIndex"
  <2> DEFINE i == e.at[2]
             x == V[e.args[1]][t + i]
             y == W[e.args[1]][t + i]
  <2>1. i \in Int /\ e.args[1] \in E
    BY <1>7, <1>a, NodesClosed
  <2>2. V[e][t] = Indexed(i, t, x, L[e.args[1]]) /\ W[e][t] = Indexed(i, t, y, K[e.args[1]])
    BY <1>7, ElementIndex
  <2>3. t + i \in Pos => x[1] # "End" /\ (~Stopped(x) => y = x)
    BY <2>1, <1>7, ReadCases, <1>3 DEF Kept
  <2>4. End[1] = "End" /\ Unknown[1] # "End" /\ Stopped(End)
    BY DEF End, Unknown, Stopped
  <2> HIDE DEF i, x, y, Stays
  <2>5. CASE i < 0 /\ t <= -i
    <3>1. V[e][t] = Unknown /\ W[e][t] = Unknown
      BY <2>2, <2>5 DEF Indexed
    <3> QED
      BY <3>1, <2>4 DEF Stays, Kept
  <2>6. CASE ~(i < 0 /\ t <= -i)
    <3>1. t + i \in Pos
      BY <2>1, <2>6 DEF Pos
    <3>2. V[e][t] = x
      BY <2>1, <2>2, <2>3, <2>4, <2>6, <3>1 DEF Indexed
    <3>3. ~Stopped(x) => W[e][t] = x
      BY <2>1, <2>2, <2>3, <2>4, <2>6, <3>1 DEF Indexed
    <3> QED
      BY <2>3, <3>1, <3>2, <3>3 DEF Stays, Kept
  <2> QED
    BY <2>5, <2>6
<1> QED
  BY <1>4, <1>5, <1>6, <1>7, <1>a DEF StaticSpec

-----------------------------------------------------------------------------
(* Type errors.                                                            *)

\* A variable's own stream fits the type its readers were checked with.
LEMMA OwnFits ==
  ASSUME NEW run, NEW E, StaticSpec(run.spec, E), RowsOfValues(run), NEW V,
         NEW T, Accepted(run.spec, E, T), Honest(run.spec, T), InputsTyped(run),
         \A x \in E : \A n \in Pos : Fits(V[x][n], T[x]),
         NEW e \in E, e.op = "Var", NEW t \in Pos
  PROVE  Fits(Own(run, V, e.at[2], t), run.spec.types[e.at[2]])
<1> DEFINE v == e.at[2]
           own == Own(run, V, v, t)
<1>1. v \in DOMAIN run.spec.types
  BY AcceptedCases
<1>2. CASE v \in ToSet(run.spec.inputs)
  <2>1. own = Delivered(run, v, t)
    BY <1>2 DEF Own
  <2>2. CASE t \in 1 .. Len(run.rows)
    <3>1. own = run.rows[t][v]
      BY <2>1, <2>2, <1>2, DeliveredElements DEF Delivered, RowsOfValues
    <3> QED
      BY <1>1, <1>2, <2>2, <3>1 DEF InputsTyped, Fits
  <2>3. CASE t \notin 1 .. Len(run.rows)
    <3>1. own \in {End, Waiting}
      BY <2>1, <2>3, <1>2, DeliveredElements
    <3> QED
      BY <3>1 DEF Fits, IsStop
  <2> QED
    BY <2>2, <2>3
<1>3. CASE v \notin ToSet(run.spec.inputs)
  <2>1. v \in DOMAIN run.spec.exprs /\ run.spec.exprs[v] \in E
    BY <1>3, NodesClosed
  <2>2. own = V[run.spec.exprs[v]][t]
    BY <1>3 DEF Own
  <2>3. run.spec.types[v] = T[run.spec.exprs[v]]
    BY <1>1, <2>1 DEF Honest
  <2> QED
    BY <2>1, <2>2, <2>3
<1> QED
  BY <1>2, <1>3

\* The typed subscription hands on what fits, but for Unknown.
LEMMA SubscribedSame ==
  ASSUME NEW run, NEW v, NEW x, run.spec.types[v] \in Types, Fits(x, run.spec.types[v]), x # Unknown
  PROVE  Subscribed(run, v, x) = x
<1>1. CASE Of(x, run.spec.types[v])
  BY <1>1, ValueTag DEF Subscribed, ToTyped
<1>2. CASE IsStop(x)
  BY <1>2, StopTag DEF Subscribed, ToTyped
<1> QED
  BY <1>1, <1>2 DEF Fits

\* A row of the typed semantics that goes on makes no type error.
LEMMA TypedRow ==
  ASSUME NEW run, run.mode = "typed", NEW E, StaticSpec(run.spec, E),
         NEW V, NEW T, Accepted(run.spec, E, T),
         \A x \in E : \A n \in Pos : Fits(V[x][n], T[x]),
         NEW e \in E, e.op \in RowOps, NEW t \in Pos,
         NEW n, n = Arity(e.op), \A i \in 1 .. n : ~Stopped(V[e.args[i]][t])
  PROVE  LET x == Nodewise(run, e, Row(V, e, t))
         IN Of(x, T[e]) \/ x \in {Unknown, Panic("zero")}
<1> DEFINE xs == Row(V, e, t)
           types == Operands(T, e)
<1>1. IsRow(xs, n)
  BY RowShape
<1>2. \A i \in 1 .. n : e.args[i] \in E /\ xs[i] = V[e.args[i]][t]
  BY RowShape
<1>3. \A i \in 1 .. n : types[i] = T[e.args[i]] /\ types[i] \in Types
  BY AcceptedNode DEF Operands
<1>4. T[e] = NodeType(e, types, run.spec.types) /\ T[e] \in Types
  BY AcceptedNode
<1>5. \A i \in 1 .. n : Of(xs[i], types[i]) \/ xs[i] = Unknown
  BY <1>2, <1>3, StopTag DEF Fits
<1> HIDE DEF xs, types
<1>0. run.mode = "typed" /\ e.op \in RowOps
  OBVIOUS
<1>6. \A i \in 1 .. n : types[i] \in Types /\ (Of(xs[i], types[i]) \/ xs[i] = Unknown)
  BY <1>3, <1>5
<1>7. NodeType(e, types, run.spec.types) \in Types
  BY <1>4
<1>8. \/ Of(Nodewise(run, e, xs), NodeType(e, types, run.spec.types))
      \/ Nodewise(run, e, xs) \in {Unknown, Panic("zero")}
  BY <1>0, <1>1, <1>6, <1>7, NodewiseType
<1> QED
  BY <1>4, <1>8 DEF xs

\* An accepted specification whose annotations are those of its assignments
\* and of its inputs meets a type error only where an Unknown reaches a variable.
THEOREM NoTypeErrors ==
  ASSUME NEW run, run.mode = "typed", NEW E, StaticSpec(run.spec, E), RowsOfValues(run),
         NEW d, Acyclic(run.spec, E, d), NEW V, NEW L, Computes(run, E, V, L),
         NEW T, Accepted(run.spec, E, T), Honest(run.spec, T), InputsTyped(run),
         NEW e0 \in E, NEW t0 \in Pos, V[e0][t0] = Panic("type")
  PROVE  \E v \in DOMAIN run.spec.exprs : \E n \in Pos : V[run.spec.exprs[v]][n] = Unknown
<1> DEFINE spec == run.spec
<1>a. /\ StaticSpec(spec, E) /\ Acyclic(spec, E, d) /\ Accepted(spec, E, T) /\ Honest(spec, T)
      /\ run.spec = spec
  OBVIOUS
<1>b. \A x \in E : \A n \in Pos : Fits(V[x][n], T[x])
  BY TypedElements
<1> HIDE DEF spec
<1> DEFINE Known == \A v \in DOMAIN spec.exprs : \A n \in Pos : V[spec.exprs[v]][n] # Unknown
<1>c. SUFFICES ASSUME Known
               PROVE  FALSE
  BY <1>a
<1> HIDE DEF Known
<1> DEFINE Good == {p \in E \X Pos : V[p[1]][p[2]] # Panic("type")}
<1>1. \A x \in E : \A n \in Pos : <<x, n>> \in Good <=> V[x][n] # Panic("type")
  OBVIOUS
<1> HIDE DEF Good
<1>2. SUFFICES Inherited(spec, E, Good)
  <2>1. \A x \in E : \A n \in Pos : <<x, n>> \in Good
    BY <1>a, <1>2, ElementInduction
  <2> QED
    BY <1>1, <2>1
<1>3. SUFFICES ASSUME NEW e \in E, NEW t \in Pos,
                      \A x \in E : \A n \in Pos : Reads(spec, e, t, x, n) => V[x][n] # Panic("type")
               PROVE  V[e][t] # Panic("type")
  BY <1>1 DEF Inherited
<1>0. /\ Panic("type") # End /\ Panic("type") # Waiting /\ Panic("type") # Unknown
      /\ Panic("type") # Panic("zero") /\ Stopped(Panic("type"))
  BY DEF Panic, End, Waiting, Unknown, Stopped
<1>4. CASE e.op = "Val"
  <2>1. V[e][t] = e.at[2]
    BY <1>4, ElementVal
  <2>2. IsValue(e.at[2])
    BY <1>a, <1>4 DEF StaticSpec
  <2>3. ~Stopped(e.at[2])
    BY <2>2, ValueFits
  <2> QED
    BY <2>1, <2>3, <1>0
<1>5. CASE e.op = "Var"
  <2> DEFINE v == e.at[2]
             own == Own(run, V, v, t)
  <2>1. V[e][t] = Subscribed(run, v, own)
    BY <1>5, ElementVar
  <2>2. Fits(own, spec.types[v])
    BY <1>5, <1>a, <1>b, OwnFits
  <2>3. own # Unknown /\ own # Panic("type")
    <3>1. CASE v \in ToSet(spec.inputs)
      <4>1. own = Delivered(run, v, t)
        BY <3>1, <1>a DEF Own
      <4>2. CASE IsValue(own)
        BY <4>2, <1>0, ValueFits, ValueTag DEF IsValue
      <4>3. CASE own \in {End, Waiting}
        BY <4>3, <1>0 DEF End, Waiting, Unknown
      <4> QED
        BY <3>1, <4>1, <4>2, <4>3, <1>a, DeliveredElements
    <3>2. CASE v \notin ToSet(spec.inputs)
      <4>1. v \in DOMAIN spec.exprs /\ spec.exprs[v] \in E
        BY <1>5, <3>2, <1>a, NodesClosed
      <4>2. own = V[spec.exprs[v]][t]
        BY <3>2, <1>a DEF Own
      <4>3. Reads(spec, e, t, spec.exprs[v], t)
        BY <1>5, <3>2, ReadCases
      <4> QED
        BY <4>1, <4>2, <4>3, <1>3, <1>c DEF Known
    <3> QED
      BY <3>1, <3>2
  <2>4. spec.types[v] \in Types
    BY <1>5, <1>a, AcceptedCases, AcceptedNode
  <2> HIDE DEF own
  <2>5. Subscribed(run, v, own) = own
    BY <2>2, <2>3, <2>4, <1>a, SubscribedSame
  <2> QED
    BY <2>1, <2>3, <2>5
<1>6. CASE e.op \in RowOps
  <2> DEFINE n == Arity(e.op)
             xs == Row(V, e, t)
  <2>1. \A i \in 1 .. n : e.args[i] \in E /\ Reads(spec, e, t, e.args[i], t)
    BY <1>6, <1>a, NodesClosed, ReadCases
  <2>2. n \in Nat /\ \A i \in 1 .. n : xs[i] = V[e.args[i]][t]
    BY <1>6, <1>a, RowShape
  <2>3. IsRow(xs, n)
    BY <1>6, <1>a, RowShape
  <2>4. V[e][t] = ZipRow(xs, FALSE, Nodewise(run, e, xs))
    BY <1>6, ElementRow, ZenonT(30)
  <2>5. \A i \in 1 .. n : xs[i] # Panic("type") /\ (Stopped(xs[i]) => IsStop(xs[i]))
    <3>1. \A i \in 1 .. n : Fits(xs[i], T[e.args[i]]) /\ T[e.args[i]] \in Types
      BY <2>1, <2>2, <1>b, <1>a, AcceptedNode
    <3>2. \A i \in 1 .. n : Stopped(xs[i]) => IsStop(xs[i])
      BY <3>1, ValueTag, UnknownGoesOn DEF Fits
    <3>3. \A i \in 1 .. n : xs[i] # Panic("type")
      BY <2>1, <2>2, <1>3
    <3> QED
      BY <3>2, <3>3
  <2>6. CASE \E i \in 1 .. n : Stopped(xs[i])
    <3> HIDE DEF xs, n
    <3>0. n \in Nat /\ \A i \in 1 .. n : Stopped(xs[i]) => IsStop(xs[i])
      BY <2>2, <2>5
    <3>1. PICK i \in 1 .. n : Stopped(xs[i]) /\ ZipRow(xs, FALSE, Nodewise(run, e, xs)) = xs[i]
      BY <3>0, <2>3, <2>4, <2>6, RowStops
    <3> QED
      BY <2>4, <2>5, <3>1
  <2>7. CASE \A i \in 1 .. n : ~Stopped(xs[i])
    <3>1. Of(Nodewise(run, e, xs), T[e]) \/ Nodewise(run, e, xs) \in {Unknown, Panic("zero")}
      BY <2>2, <2>7, <1>6, <1>a, <1>b, TypedRow
    <3>2. T[e] \in Types
      BY <1>a, AcceptedNode
    <3> HIDE DEF xs, n
    <3>3. V[e][t] = Nodewise(run, e, xs)
      BY <2>2, <2>3, <2>4, <2>7, RowGoesOn
    <3> QED
      BY <3>1, <3>2, <3>3, <1>0, ValueTag
  <2> QED
    BY <2>6, <2>7
<1>7. CASE e.op = "SIndex"
  <2> DEFINE i == e.at[2]
             x == V[e.args[1]][t + i]
  <2>1. i \in Int /\ e.args[1] \in E
    BY <1>7, <1>a, NodesClosed
  <2>2. V[e][t] = Indexed(i, t, x, L[e.args[1]])
    BY <1>7, ElementIndex
  <2>3. t + i \in Pos => x # Panic("type")
    BY <2>1, <1>7, ReadCases, <1>3
  <2> HIDE DEF i, x
  <2> QED
    BY <2>1, <2>2, <2>3, <1>0, IndexedElements
<1> QED
  BY <1>4, <1>5, <1>6, <1>7, <1>a DEF StaticSpec

-----------------------------------------------------------------------------
(* The two semantics.                                                      *)

\* On values of the checked types, with an Unknown only where default looks at
\* it, both semantics make the same of a row, and no Unknown.
LEMMA NodewiseAgree ==
  ASSUME NEW r1, r1.mode = "typed", NEW r2, r2.mode = "untyped", NEW e, e.op \in RowOps,
         NEW types, NEW ctx, NodeType(e, types, ctx) \in Types,
         NEW n, n = Arity(e.op), NEW xs, IsRow(xs, n),
         \A i \in 1 .. n : types[i] \in Types /\ (Of(xs[i], types[i]) \/ xs[i] = Unknown),
         \A i \in 1 .. n : xs[i] = Unknown => e.op = "Default" /\ i = 1
  PROVE  Nodewise(r1, e, xs) = Nodewise(r2, e, xs) /\ Nodewise(r1, e, xs) # Unknown
<1>0. "Err" \notin Types
  BY DEF Types
<1>1. ASSUME e.op # "Default"
      PROVE  Unknown \notin ToSet(xs)
  BY <1>1 DEF ToSet, IsRow
<1>2. CASE e.op = "BinOp"
  <2>1. 1 \in 1 .. n /\ 2 \in 1 .. n
    BY <1>2 DEF Arity
  <2>2. NodeType(e, types, ctx) = BinOpType(e.at[2], types[1], types[2])
    BY <1>2 DEF NodeType
  <2>3. /\ Nodewise(r1, e, xs) = Operate(e.at[2], xs[1], xs[2])
        /\ Nodewise(r2, e, xs) = Operate(e.at[2], xs[1], xs[2])
    BY <1>1, <1>2 DEF Nodewise, Lift
  <2>4. Of(xs[1], types[1]) /\ Of(xs[2], types[2]) /\ types[1] \in Types /\ types[2] \in Types
    BY <2>1, <1>2
  <2>5. \/ Of(Operate(e.at[2], xs[1], xs[2]), NodeType(e, types, ctx))
        \/ Operate(e.at[2], xs[1], xs[2]) = Panic("zero")
    BY <2>2, <2>4, <1>0, OperateType
  <2>6. Panic("zero") # Unknown
    BY DEF Panic, Unknown
  <2> QED
    BY <2>3, <2>5, <2>6, ValueTag
<1>3. CASE e.op = "Not"
  <2>1. /\ Nodewise(r1, e, xs) = Bool(xs[1] = Bool(FALSE))
        /\ Nodewise(r2, e, xs) = Bool(xs[1] = Bool(FALSE))
    BY <1>1, <1>3 DEF Nodewise, Lift
  <2>2. \A p : Bool(p) # Unknown
    BY DEF Bool, Unknown
  <2> QED
    BY <2>1, <2>2
<1>4. CASE e.op = "If"
  <2>1. 1 \in 1 .. n /\ 2 \in 1 .. n /\ 3 \in 1 .. n
    BY <1>4 DEF Arity
  <2>2. types[1] = "Bool"
    BY <1>4, <1>0 DEF NodeType
  <2>3. xs[1] = Bool(TRUE) \/ xs[1] = Bool(FALSE)
    BY <2>1, <2>2, <1>4, ValueShape
  <2>4. Nodewise(r1, e, xs) = Nodewise(r2, e, xs) /\ Nodewise(r1, e, xs) \in {xs[2], xs[3]}
    BY <2>3, <1>4 DEF Nodewise, Choice
  <2> QED
    BY <2>1, <2>4, <1>4
<1>5. CASE e.op = "Default"
  <2>1. 2 \in 1 .. n
    BY <1>5 DEF Arity
  <2>2. /\ Nodewise(r1, e, xs) = IF xs[1] = Unknown THEN xs[2] ELSE xs[1]
        /\ Nodewise(r2, e, xs) = IF xs[1] = Unknown THEN xs[2] ELSE xs[1]
    BY <1>5 DEF Nodewise
  <2> QED
    BY <2>1, <2>2
<1> QED
  BY <1>2, <1>3, <1>4, <1>5 DEF RowOps

\* A row of operands that stops does so whatever is made of it.
LEMMA RowStopsAlike ==
  ASSUME NEW n, NEW xs, IsRow(xs, n), NEW x, NEW y,
         \E i \in 1 .. n : Stopped(xs[i])
  PROVE  ZipRow(xs, FALSE, x) = ZipRow(xs, FALSE, y)
<1>1. Kinds(xs) \cap {"End", "Waiting", "Panic"} # {}
  BY DEF Kinds, Stopped, IsRow
<1> QED
  BY <1>1 DEF ZipRow

\* So they do of a row that stops.
LEMMA RowAgrees ==
  ASSUME NEW r1, r1.mode = "typed", NEW r2, r2.mode = "untyped", NEW e, e.op \in RowOps,
         NEW types, NEW ctx, NodeType(e, types, ctx) \in Types,
         NEW n, n = Arity(e.op), NEW xs, IsRow(xs, n),
         \A i \in 1 .. n : types[i] \in Types,
         \A i \in 1 .. n : Fits(xs[i], types[i]),
         \A i \in 1 .. n : xs[i] = Unknown => e.op = "Default" /\ i = 1
  PROVE  /\ ZipRow(xs, FALSE, Nodewise(r2, e, xs)) = ZipRow(xs, FALSE, Nodewise(r1, e, xs))
         /\ ZipRow(xs, FALSE, Nodewise(r1, e, xs)) # Unknown
<1>1. \A i \in 1 .. n : Stopped(xs[i]) => IsStop(xs[i])
  BY ValueTag, UnknownGoesOn DEF Fits
<1>2. CASE \E i \in 1 .. n : Stopped(xs[i])
  <2>1. PICK i \in 1 .. n : Stopped(xs[i]) /\ ZipRow(xs, FALSE, Nodewise(r1, e, xs)) = xs[i]
    BY <1>1, <1>2, RowStops, ZenonT(30)
  <2>2. ZipRow(xs, FALSE, Nodewise(r2, e, xs)) = ZipRow(xs, FALSE, Nodewise(r1, e, xs))
    BY <1>2, RowStopsAlike
  <2> QED
    BY <2>1, <2>2, UnknownGoesOn
<1>3. CASE \A i \in 1 .. n : ~Stopped(xs[i])
  <2>1. \A i \in 1 .. n : types[i] \in Types /\ (Of(xs[i], types[i]) \/ xs[i] = Unknown)
    BY <1>3, StopTag DEF Fits
  <2>2. Nodewise(r1, e, xs) = Nodewise(r2, e, xs) /\ Nodewise(r1, e, xs) # Unknown
    BY <2>1, NodewiseAgree
  <2>3. ZipRow(xs, FALSE, Nodewise(r1, e, xs)) = Nodewise(r1, e, xs)
    BY <1>3, RowGoesOn
  <2> QED
    BY <2>2, <2>3
<1> QED
  BY <1>2, <1>3

\* Streams that agree up to where one of them stops have the same length.
LEMMA SameLength ==
  ASSUME NEW s1, NEW s2, NEW n1, NEW n2, Measured(s1, n1), Measured(s2, n2), NEW m \in Pos,
         \A k \in Pos : k <= m => s2[k] = s1[k], Stopped(s1[m])
  PROVE  n1 = n2
<1>1. n1 \in Nat /\ n2 \in Nat /\ m \in Nat /\ m >= 1
  BY DEF Measured, Pos
<1>2. Stopped(s2[m])
  <2>1. m <= m
    BY <1>1
  <2> QED
    BY <2>1
<1>3. n1 < m
  <2>1. m \notin 1 .. n1
    BY DEF Measured
  <2> QED
    BY <1>1, <2>1
<1>4. n2 < m
  <2>1. m \notin 1 .. n2
    BY <1>2 DEF Measured
  <2> QED
    BY <1>1, <2>1
<1>5. s2[n1 + 1] = s1[n1 + 1] /\ s2[n2 + 1] = s1[n2 + 1]
  BY <1>1, <1>3, <1>4 DEF Pos
<1>6. ~(n1 < n2)
  <2>1. n1 + 1 \notin 1 .. n2
    BY <1>5 DEF Measured
  <2> QED
    BY <1>1, <2>1
<1>7. ~(n2 < n1)
  <2>1. n2 + 1 \notin 1 .. n1
    BY <1>5 DEF Measured
  <2> QED
    BY <1>1, <2>1
<1> QED
  BY <1>1, <1>6, <1>7

\* Element k of x is the same in both, and Unknown only where x is an index.
Agree(V, W, x, k) == W[x][k] = V[x][k] /\ (x.op # "SIndex" => V[x][k] # Unknown)

\* A row constructor keeps the two semantics in agreement.
LEMMA AgreeOnRow ==
  ASSUME NEW r1, r1.mode = "typed", NEW r2, r2.mode = "untyped", NEW spec, r1.spec = spec,
         NEW E, StaticSpec(spec, E), Defaulted(spec, E), NEW T, Accepted(spec, E, T),
         NEW V, NEW L, Computes(r1, E, V, L), NEW W, NEW K, Computes(r2, E, W, K),
         NEW e \in E, e.op \in RowOps, NEW t \in Pos, NEW n, n = Arity(e.op),
         \A i \in 1 .. n : Fits(V[e.args[i]][t], T[e.args[i]]) /\ Agree(V, W, e.args[i], t)
  PROVE  Agree(V, W, e, t)
<1>a. /\ V[e][t] = ZipRow(Row(V, e, t), FALSE, Nodewise(r1, e, Row(V, e, t)))
      /\ W[e][t] = ZipRow(Row(W, e, t), FALSE, Nodewise(r2, e, Row(W, e, t)))
  BY DEF Computes, Element, RowOps, Elementwise
<1> DEFINE xs == Row(V, e, t)
           types == Operands(T, e)
<1>1. IsRow(xs, n)
  BY RowShape
<1>2. n \in Nat /\ \A i \in 1 .. n : e.args[i] \in E /\ xs[i] = V[e.args[i]][t]
  BY RowShape
<1>3. Row(W, e, t) = xs
  BY RowsEqual DEF Agree
<1>4. \A i \in 1 .. n : types[i] = T[e.args[i]] /\ types[i] \in Types
  BY AcceptedNode DEF Operands
<1>5. NodeType(e, types, spec.types) \in Types
  BY AcceptedNode
<1>6. \A i \in 1 .. n : xs[i] = Unknown => e.op = "Default" /\ i = 1
  BY <1>2 DEF Agree, Defaulted
<1>7. \A i \in 1 .. n : Fits(xs[i], types[i])
  BY <1>2, <1>4
<1> HIDE DEF xs, types
<1>8. r1.mode = "typed" /\ r2.mode = "untyped" /\ e.op \in RowOps /\ n = Arity(e.op) /\ n \in Nat
  BY <1>2
<1>b. \A i \in 1 .. n : types[i] \in Types
  BY <1>4
<1>9. /\ ZipRow(xs, FALSE, Nodewise(r2, e, xs)) = ZipRow(xs, FALSE, Nodewise(r1, e, xs))
      /\ ZipRow(xs, FALSE, Nodewise(r1, e, xs)) # Unknown
  BY <1>1, <1>b, <1>5, <1>6, <1>7, <1>8, RowAgrees, ZenonT(30)
<1>10. V[e][t] = ZipRow(xs, FALSE, Nodewise(r1, e, xs)) /\ W[e][t] = ZipRow(xs, FALSE, Nodewise(r2, e, xs))
  BY <1>a, <1>3 DEF xs
<1> QED
  BY <1>9, <1>10 DEF Agree

\* Where each index has its default, the typed and the untyped semantics of an
\* accepted specification give every expression the same stream, which stops
\* the same way, and no Unknown but where an index looks past its ends.
THEOREM StaticSemanticsAgree ==
  ASSUME NEW r1, r1.mode = "typed", NEW r2, r2.mode = "untyped", r2.spec = r1.spec,
         r2.rows = r1.rows, r2.closed = r1.closed, RowsOfValues(r1), InputsTyped(r1),
         NEW E, StaticSpec(r1.spec, E), Defaulted(r1.spec, E), NEW d, Acyclic(r1.spec, E, d),
         NEW T, Accepted(r1.spec, E, T), Honest(r1.spec, T),
         NEW V, NEW L, Computes(r1, E, V, L), NEW W, NEW K, Computes(r2, E, W, K)
  PROVE  \A e \in E : \A t \in Pos :
           W[e][t] = V[e][t] /\ (e.op # "SIndex" => V[e][t] # Unknown)
<1> DEFINE spec == r1.spec
<1>a. /\ StaticSpec(spec, E) /\ Acyclic(spec, E, d) /\ Accepted(spec, E, T) /\ Honest(spec, T)
      /\ Defaulted(spec, E) /\ r1.spec = spec /\ r2.spec = spec
  OBVIOUS
<1>b. \A x \in E : \A n \in Pos : Fits(V[x][n], T[x])
  BY TypedElements
<1> HIDE DEF spec
<1> DEFINE Good == {p \in E \X Pos : Agree(V, W, p[1], p[2])}
<1>1. \A x \in E : \A n \in Pos : <<x, n>> \in Good <=> Agree(V, W, x, n)
  OBVIOUS
<1> HIDE DEF Good
<1>2. SUFFICES Inherited(spec, E, Good)
  <2>1. \A x \in E : \A n \in Pos : <<x, n>> \in Good
    BY <1>a, <1>2, ElementInduction
  <2> QED
    BY <1>1, <2>1 DEF Agree
<1>3. SUFFICES ASSUME NEW e \in E, NEW t \in Pos,
                      \A x \in E : \A n \in Pos : Reads(spec, e, t, x, n) => Agree(V, W, x, n)
               PROVE  Agree(V, W, e, t)
  BY <1>1 DEF Inherited
<1>4. CASE e.op = "Val"
  <2>1. V[e][t] = e.at[2] /\ W[e][t] = e.at[2]
    BY <1>4, ElementVal
  <2>2. IsValue(e.at[2])
    BY <1>a, <1>4 DEF StaticSpec
  <2>3. e.at[2] # Unknown
    BY <2>2, ValueTag DEF IsValue
  <2> QED
    BY <2>1, <2>3 DEF Agree
<1>5. CASE e.op = "Var"
  <2> DEFINE v == e.at[2]
             own1 == Own(r1, V, v, t)
             own2 == Own(r2, W, v, t)
  <2>1. V[e][t] = Subscribed(r1, v, own1) /\ W[e][t] = Subscribed(r2, v, own2)
    BY <1>5, ElementVar
  <2>2. Fits(own1, spec.types[v])
    BY <1>5, <1>a, <1>b, OwnFits
  <2>3. own2 = own1 /\ own1 # Unknown
    <3>1. CASE v \in ToSet(spec.inputs)
      <4>1. own1 = Delivered(r1, v, t) /\ own2 = Delivered(r2, v, t)
        BY <3>1, <1>a DEF Own
      <4>2. own2 = own1
        BY <4>1 DEF Delivered
      <4>3. CASE IsValue(own1)
        BY <4>2, <4>3, ValueTag DEF IsValue
      <4>4. CASE own1 \in {End, Waiting}
        BY <4>2, <4>4 DEF End, Waiting, Unknown
      <4> QED
        BY <3>1, <4>1, <4>3, <4>4, <1>a, DeliveredElements
    <3>2. CASE v \notin ToSet(spec.inputs)
      <4>1. v \in DOMAIN spec.exprs /\ spec.exprs[v] \in E
        BY <1>5, <3>2, <1>a, NodesClosed
      <4>2. own1 = V[spec.exprs[v]][t] /\ own2 = W[spec.exprs[v]][t]
        BY <3>2, <1>a DEF Own
      <4>3. Reads(spec, e, t, spec.exprs[v], t)
        BY <1>5, <3>2, ReadCases
      <4>4. spec.exprs[v].op # "SIndex"
        BY <4>1, <1>a DEF Defaulted
      <4> QED
        BY <4>1, <4>2, <4>3, <4>4, <1>3 DEF Agree
    <3> QED
      BY <3>1, <3>2
  <2>4. spec.types[v] \in Types
    BY <1>5, <1>a, AcceptedCases, AcceptedNode
  <2> HIDE DEF own1, own2
  <2>5. Subscribed(r1, v, own1) = own1
    BY <2>2, <2>3, <2>4, <1>a, SubscribedSame
  <2>6. Subscribed(r2, v, own2) = own2
    BY DEF Subscribed
  <2> QED
    BY <2>1, <2>3, <2>5, <2>6 DEF Agree
<1>6. CASE e.op \in RowOps
  <2>1. PICK n : n = Arity(e.op)
    OBVIOUS
  <2>2. \A i \in 1 .. n : e.args[i] \in E /\ Reads(spec, e, t, e.args[i], t)
    BY <2>1, <1>6, <1>a, NodesClosed, ReadCases
  <2>3. \A i \in 1 .. n : Fits(V[e.args[i]][t], T[e.args[i]]) /\ Agree(V, W, e.args[i], t)
    BY <2>2, <1>3, <1>b
  <2> QED
    BY <2>1, <2>3, <1>6, <1>a, AgreeOnRow
<1>7. CASE e.op = "SIndex"
  <2> DEFINE i == e.at[2]
             x == V[e.args[1]]
             y == W[e.args[1]]
  <2>1. i \in Int /\ e.args[1] \in E
    BY <1>7, <1>a, NodesClosed
  <2>2. /\ V[e][t] = Indexed(i, t, x[t + i], L[e.args[1]])
        /\ W[e][t] = Indexed(i, t, y[t + i], K[e.args[1]])
    BY <1>7, ElementIndex
  <2>3. t + i \in Pos => y[t + i] = x[t + i]
    BY <2>1, <1>7, ReadCases, <1>3 DEF Agree
  <2>4. ASSUME i >= 0, x[t + i] = End
        PROVE  L[e.args[1]] = K[e.args[1]]
    <3>1. t + i \in Pos
      BY <2>1, <2>4 DEF Pos
    <3>2. \A k \in Pos : k <= t + i => y[k] = x[k]
      BY <2>1, <2>4, <1>7, ReadCases, <1>3 DEF Agree
    <3>3. Measured(x, L[e.args[1]]) /\ Measured(y, K[e.args[1]])
      BY <2>1, <2>3, <2>4, <3>1 DEF Computes
    <3>4. Stopped(x[t + i])
      BY <2>4 DEF Stopped, End
    <3> HIDE DEF x, y
    <3> QED
      BY <3>1, <3>2, <3>3, <3>4, SameLength
  <2> HIDE DEF i, x, y
  <2>5. CASE i < 0
    BY <2>1, <2>2, <2>3, <2>5, <1>7 DEF Indexed, Agree, Pos
  <2>6. CASE i >= 0
    <3>1. y[t + i] = x[t + i]
      BY <2>1, <2>3, <2>6 DEF Pos
    <3>2. Indexed(i, t, y[t + i], K[e.args[1]]) = Indexed(i, t, x[t + i], L[e.args[1]])
      BY <2>1, <2>4, <2>6, <3>1 DEF Indexed
    <3> QED
      BY <2>2, <3>2, <1>7 DEF Agree
  <2> QED
    BY <2>1, <2>5, <2>6
<1> QED
  BY <1>4, <1>5, <1>6, <1>7, <1>a DEF StaticSpec

=============================================================================
