------------------------------ MODULE LolaExpr ------------------------------
(***************************************************************************)
(* The syntax trees of the DynSRV (Lola) language, as lang/dynamic_lola/   *)
(* ast.rs builds them, and the text Display prints them as.                *)
(*                                                                         *)
(* A node is a record: op is the constructor, args the subexpressions in   *)
(* order, and at what the node holds besides, tagged by what it is.  Text  *)
(* is a sequence of tokens: a literal value, a word <<"w", ...>> or a      *)
(* symbol <<"s", ...>>; white space and comments are left out.             *)
(***************************************************************************)
EXTENDS LolaOperators

Node(op, at, args) == [op |-> op, at |-> at, args |-> args]
Var(v) == Node("Var", <<"var", v>>, <<>>)
Val(x) == Node("Val", <<"val", x>>, <<>>)
BinOp(sym, a, b) == Node("BinOp", <<"sym", sym>>, <<a, b>>)
SIndex(e, i) == Node("SIndex", <<"index", i>>, <<e>>)
RestrictedDynamic(e, vs) == Node("RestrictedDynamic", <<"vars", vs>>, <<e>>)
Op1(op, e) == Node(op, <<>>, <<e>>)
Op2(op, a, b) == Node(op, <<>>, <<a, b>>)
If(b, e1, e2) == Node("If", <<>>, <<b, e1, e2>>)
Names(op, u, v) == Node(op, <<"names", u, v>>, <<>>)   \* MonitoredAt, Dist

-----------------------------------------------------------------------------
RECURSIVE Inputs(_)
\* The variables an expression reads, as the dependency manager is told: of a
\* restricted dynamic the variables its property may use, and not those of the
\* stream that supplies the property.
Inputs(e) ==
  IF e.op = "Var" THEN <<e.at[2]>>
  ELSE IF e.op = "RestrictedDynamic" THEN e.at[2]
  ELSE FlattenSeq([i \in DOMAIN e.args |-> Inputs(e.args[i])])

RECURSIVE TraverseExpr(_, _)
\* fix_dynamic's traverse_expr: a dynamic may use only vars.
TraverseExpr(e, vars) ==
  LET args == [i \in DOMAIN e.args |-> TraverseExpr(e.args[i], vars)]
  IN CASE e.op = "Dynamic" -> RestrictedDynamic(args[1], vars)
       [] e.op = "RestrictedDynamic" ->
            RestrictedDynamic(args[1], SelectSeq(e.at[2], LAMBDA v : Contains(vars, v)))
       [] OTHER -> [e EXCEPT !.args = args]

\* Wrong: a dynamic may use the variable it is assigned to.
OwnVariableToo(inputs, outputs, exprs, types) ==
  [inputs |-> inputs, outputs |-> outputs, types |-> types,
   exprs |-> [v \in DOMAIN exprs |-> TraverseExpr(exprs[v], inputs \o outputs)]]

\* LOLASpecification::new: an assignment's dynamics never use its own variable.
LOLASpecification(inputs, outputs, exprs, types) ==
  [inputs |-> inputs, outputs |-> outputs, types |-> types,
   exprs |-> [v \in DOMAIN exprs |->
                TraverseExpr(exprs[v], SelectSeq(inputs \o outputs, LAMBDA n : n # v))]]

-----------------------------------------------------------------------------
W(word) == <<"w", word>>
S(symbol) == <<"s", symbol>>
Parens(text) == <<S("(")>> \o text \o <<S(")")>>

\* Texts joined by commas.
Joined(texts) ==
  IF texts = <<>> THEN <<>>
  ELSE FoldLeft(LAMBDA acc, x : acc \o <<S(",")>> \o x, Head(texts), Tail(texts))

RECURSIVE ValueText(_)
\* Display for Value: strings without quotes, a whole float as an integer, a
\* comma after every element of a list.
ValueText(x) ==
  CASE x[1] = "Int" -> <<x>>
    [] x[1] = "Float" -> <<Int64(x[2])>>
    [] x[1] = "Str" -> x[2]
    [] x[1] = "Bool" -> <<W(IF x[2] THEN "true" ELSE "false")>>
    [] x[1] = "List" ->
         <<S("[")>> \o FlattenSeq([i \in DOMAIN x[2] |-> Append(ValueText(x[2][i]), S(","))])
                    \o <<S("]")>>
    [] x[1] = "Unknown" -> <<W("unknown")>>
    [] x[1] = "Unit" -> Parens(<<>>)

\* How the constructors that look like a call are printed.
CallWords == [Dynamic |-> "dynamic", Defer |-> "defer", Update |-> "update",
              Default |-> "default", IsDefined |-> "is_defined", When |-> "when",
              LIndex |-> "List.get", LAppend |-> "List.append",
              LConcat |-> "List.concat", LHead |-> "List.head", LTail |-> "List.tail",
              Sin |-> "sin", Cos |-> "cos", Tan |-> "tan"]

\* All four order comparisons are printed as <=.
PrintedSymbol(sym) == IF sym \in {"<", ">=", ">"} THEN "<=" ELSE sym

RECURSIVE Display(_)
\* Display for SExpr.
Display(e) ==
  LET d == [i \in DOMAIN e.args |-> Display(e.args[i])]
  IN CASE e.op = "If" -> <<W("if")>> \o d[1] \o <<W("then")>> \o d[2] \o <<W("else")>> \o d[3]
       [] e.op = "SIndex" -> d[1] \o <<S("["), Int64(e.at[2]), S("]")>>
       [] e.op = "Val" -> ValueText(e.at[2])
       [] e.op = "BinOp" -> Parens(d[1] \o <<S(PrintedSymbol(e.at[2]))>> \o d[2])
       [] e.op = "Not" -> <<S("!")>> \o d[1]
       [] e.op = "Var" -> <<W(e.at[2])>>
       [] e.op \in {"MonitoredAt", "Dist"} ->
            <<W(IF e.op = "Dist" THEN "dist" ELSE "monitored_at")>>
              \o Parens(<<W(e.at[2]), S(","), W(e.at[3])>>)
       [] e.op = "RestrictedDynamic" ->
            <<W("dynamic")>> \o Parens(d[1] \o <<S(","), S("{")>>
               \o Joined([i \in DOMAIN e.at[2] |-> <<W(e.at[2][i])>>]) \o <<S("}")>>)
       [] e.op = "List" -> <<S("[")>> \o Joined(d) \o <<S("]")>>
       [] OTHER -> <<W(CallWords[e.op])>> \o Parens(Joined(d))
=============================================================================
