------------------------------- MODULE MCLola -------------------------------
(* Specifications over an integer x, a truth value b and a string s.  The   *)
(* pool holds every chain of two operators, every constructor once, and the *)
(* recursive, dynamic and deferred specifications of the examples.          *)
EXTENDS ConstraintRuntime

T(words) == [i \in DOMAIN words |-> W(words[i])]
x == <<W("x")>>   b == <<W("b")>>   s == <<W("s")>>   y == <<W("y")>>   z == <<W("z")>>
n(k) == <<Int64(k)>>
Sym(c) == <<S(c)>>
Ix(e, k) == e \o <<S("["), Int64(k), S("]")>>
Call1(w, e) == <<W(w)>> \o Parens(e)
Call2(w, e, f) == <<W(w)>> \o Parens(Joined(<<e, f>>))
IfText(c, e, f) == <<W("if")>> \o c \o <<W("then")>> \o e \o <<W("else")>> \o f
Bin(e, o, f) == e \o Sym(o) \o f

Ops == {"++", "||", "&&", "<=", ">=", "<", ">", "==", "-", "+", "*", "/", "%"}
Chains == {Bin(Bin(x, o1, n(1)), o2, x) : o1 \in Ops, o2 \in Ops}
Bools == {Bin(b, "&&", Sym("!") \o b), Sym("!") \o Parens(Bin(b, "||", b)),
          Bin(Parens(Sym("!") \o b), "&&", b),
          Bin(Parens(IfText(b, x, n(0))), "+", n(1)), Sym("!") \o IfText(b, b, b),
          Bin(IfText(b, x, n(1)), "+", n(1)), Bin(Sym("!") \o Parens(IfText(b, b, b)), "&&", b)}
Shapes == {
  Ix(x, -1), Ix(x, 1), Ix(Parens(Bin(x, "+", n(1))), -2), Ix(Parens(Ix(x, -1)), -1),
  Call2("default", Ix(x, -1), n(0)), Bin(Call2("default", Ix(x, -1), n(0)), "+", x),
  Bin(n(1), "/", x), Call1("when", Ix(x, -1)), Call1("is_defined", Ix(x, -1)),
  Call2("update", x, Ix(x, -1)), Call2("update", Ix(x, -1), x),
  <<W("List")>> \o Parens(Joined(<<x, n(1)>>)), <<W("List")>> \o Parens(Joined(<<n(2), n(1)>>)),
  Call1("List.head", <<W("List")>> \o Parens(Joined(<<x, b>>))),
  Call1("List.tail", <<W("List")>> \o Parens(<<>>)),
  Call2("List.get", <<W("List")>> \o Parens(Joined(<<x, b>>)), x),
  Call2("List.append", <<W("List")>> \o Parens(<<>>), x),
  Call2("List.concat", <<W("List")>> \o Parens(x), <<W("List")>> \o Parens(n(1))),
  Call1("sin", <<Float(1)>>), <<Float(1), S("+"), Int64(1)>>, <<Float(1), S("<="), Int64(1)>>,
  Bin(s, "++", <<Str(T(<<"x">>))>>), Bin(s, "==", <<Str(T(<<"x">>))>>),
  Bin(s, "<=", <<Str(T(<<"x">>))>>), Bin(s, ">", <<Str(T(<<"x">>))>>),
  Bin(s, "<", Ix(s, -1)), Bin(s, ">=", Parens(Bin(<<Str(T(<<"x">>))>>, "++", s))),
  Call2("monitored_at", x, <<W("n")>>), Call2("dist", x, <<W("n")>>),
  Call1("dynamic", s), Call1("defer", s), Call1("dynamic", Ix(s, -1)), Call1("defer", Ix(s, -2)),
  Bin(Call1("dynamic", s), "+", x), Call1("eval", <<Str(Ix(x, -1))>>), Bin(x, "+", Sym(")")) }

Source(ins, outs, decls) == [ins |-> ins, outs |-> outs, decls |-> decls]
Inputs3 == <<<<"x", "Int">>, <<"b", "Bool">>, <<"s", "Str">>>>
Single(t) == Source(Inputs3, <<<<"z", "none">>>>, <<<<"z", t>>>>)
Chain(t) == Source(<<<<"x", "Int">>>>, <<<<"z", "none">>>>, <<<<"z", t>>>>)
Pair(ty, ey, tz, ez) ==
  Source(Inputs3, <<<<"y", ty>>, <<"z", tz>>>>, <<<<"y", ey>>, <<"z", ez>>>>)
Pairs == {
  Pair("Int", Bin(Call2("default", Ix(y, -1), n(0)), "+", x), "Int", Bin(y, "*", y)),
  Pair("Int", Bin(x, "+", n(1)), "Int", Bin(Call2("default", Ix(y, -1), n(0)), "+", y)),
  Pair("Bool", Bin(x, "<=", n(0)), "Int", IfText(y, x, n(5))),
  Pair("Int", Ix(x, -1), "Int", y),
  Pair("Int", z, "Int", y),
  Pair("Int", Bin(z, "+", x), "Int", Bin(x, "*", x)),
  Pair("Bool", x, "Int", IfText(y, x, x)),
  Pair("Int", x, "Int", Call1("dynamic", s)),
  Pair("Int", Call1("dynamic", s), "Int", Call1("dynamic", s)),
  Pair("Int", Call1("dynamic", s), "Int", Bin(y, "+", n(1))),
  Pair("Int", Bin(z, "+", x), "Int", <<W("dynamic")>> \o Parens(s \o Sym(",") \o Sym("{")
                                       \o Joined(<<x, z>>) \o Sym("}"))),
  Pair("Int", Call1("defer", s), "Int", Bin(y, "+", n(1))),
  Pair("Int", IfText(b, Ix(x, 2), x), "Int", x),
  Pair("Int", Ix(x, 1), "Int", Bin(Bin(Ix(y, 1), "+", x), "*", y)),
  Pair("Int", Call2("default", Ix(z, -2), n(0)), "Int", Bin(y, "+", x)),
  Pair("Int", Bin(Ix(x, -1), "+", y), "Int", x),
  Pair("Int", Call2("default", Ix(z, -1), x), "Int", Call2("default", Ix(y, -1), x)) }

MCSources == {Chain(t) : t \in Chains} \union {Single(t) : t \in Bools \union Shapes} \union Pairs
MCRows == { [x |-> Int64(2), b |-> Bool(TRUE), s |-> Str(Bin(x, "+", n(1)))],
            [x |-> Int64(0), b |-> Bool(FALSE), s |-> Str(x)],
            [x |-> Int64(2), b |-> Bool(TRUE), s |-> Str(Bin(z, "+", Ix(x, -1)))] }

\* Strings in the order of their characters; the tokens of the strings of the pool
\* begin with different ones.
Alphabet == <<S("+"), Int64(-1), Int64(1), S("["), S("]"), W("x"), W("z")>>
Place(token) == CHOOSE i \in DOMAIN Alphabet : Alphabet[i] = token
MCTextLeq(t1, t2) ==
  LET p == LongestCommonPrefix({t1, t2})
      i == Len(p) + 1
  IN i > Len(t1) \/ (i <= Len(t2) /\ Place(t1[i]) < Place(t2[i]))

-----------------------------------------------------------------------------
(* The equations of LolaStatic are those of ValueAt and TypeCheckRaw: the    *)
(* streams and types of every static specification of the pool solve them.   *)
Static == INSTANCE LolaStatic

SpecOf(src) ==
  LolaSpecification(src.ins, src.outs,
    [i \in DOMAIN src.decls |-> <<src.decls[i][1], Sexpr(src.decls[i][2]).e>>])
Nodes(sp) == UNION {Subexprs(sp.exprs[v]) : v \in DOMAIN sp.exprs}
StaticSpecs ==
  {sp \in {SpecOf(src) : src \in {src \in MCSources : \A i \in DOMAIN src.decls : Sexpr(src.decls[i][2]).ok}} :
     /\ {e.op : e \in Nodes(sp)} \subseteq {"Val", "Var", "SIndex"} \union Static!RowOps
     /\ \A e \in Nodes(sp) : e.op = "Val" => Static!IsValue(e.at[2])}
ThreeRows == CHOOSE rws \in [1 .. 3 -> MCRows] : rws[1] # rws[2] /\ rws[2] # rws[3]

StreamsSolve(run) ==
  LET E == Nodes(run.spec)
      V == [e \in E |-> [t \in -2 .. 6 |-> IF t < 1 THEN Unknown ELSE ValueAt(run, RootEnv(run.spec), e, t, {})]]
      L == [e \in E |-> IF \E t \in 1 .. 6 : V[e][t] = End
                         THEN LengthFrom(run, RootEnv(run.spec), e, 1, {}) ELSE 0]
  IN \A e \in E : \A t \in 1 .. 4 :
       /\ V[e][t] = Static!Element(run, V, L, e, t)
       /\ V[e][t] = End => Static!Measured(V[e], L[e])

ASSUME StaticSolutions ==
  \A sp \in StaticSpecs :
    /\ Static!StaticSpec(sp, Nodes(sp))
    /\ TypeCheck(sp) = "accepted" =>
         Static!Accepted(sp, Nodes(sp), [e \in Nodes(sp) |-> TypeCheckRaw(e, sp.types).type])
    /\ \A mode \in Modes : \A k \in {0, 3} : \A cl \in BOOLEAN :
         (mode = "typed" => TypeCheck(sp) = "accepted") =>
         StreamsSolve([mode |-> mode, spec |-> sp, rows |-> SubSeq(ThreeRows, 1, k), closed |-> cl,
                       horizon |-> 5])
ASSUME StaticSpecsThere == Cardinality(StaticSpecs) > 50
=============================================================================
