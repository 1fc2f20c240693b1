----------------------------- MODULE LolaParser -----------------------------
(***************************************************************************)
(* The recursive-descent parsers of lang/dynamic_lola/parser.rs over the   *)
(* value parsers of lang/core/parser.rs.  A parser maps a text to a        *)
(* result: the node and the text left over, or Fail.  An alternative that  *)
(* fails gives its input back, so alternatives are tried in the order of   *)
(* the code's alt.                                                         *)
(*                                                                         *)
(* A word is a token, where the code matches keywords as prefixes of the   *)
(* rest of the text: an identifier that merely starts with a keyword is    *)
(* outside the model.                                                      *)
(***************************************************************************)
EXTENDS LolaExpr

Fail == [ok |-> FALSE]
Parsed(e, rest) == [ok |-> TRUE, e |-> e, rest |-> rest]

At(s, token) == s # <<>> /\ s[1] = token
IsWord(s) == s # <<>> /\ s[1][1] = "w"
Orelse(r1, r2) == IF r1.ok THEN r1 ELSE r2

\* The constructors written as a call, with their number of arguments.
StreamCalls == [defer |-> <<"Defer", 1>>, update |-> <<"Update", 2>>,
                is_defined |-> <<"IsDefined", 1>>, when |-> <<"When", 1>>,
                dynamic |-> <<"Dynamic", 1>>, eval |-> <<"Dynamic", 1>>,
                default |-> <<"Default", 2>>]
ListCalls == ("List.get" :> <<"LIndex", 2>>) @@ ("List.append" :> <<"LAppend", 2>>)
               @@ ("List.concat" :> <<"LConcat", 2>>)
               @@ ("List.head" :> <<"LHead", 1>>) @@ ("List.tail" :> <<"LTail", 1>>)
TrigCalls == [sin |-> <<"Sin", 1>>, cos |-> <<"Cos", 1>>, tan |-> <<"Tan", 1>>]
Calls == StreamCalls @@ ListCalls @@ TrigCalls

NameCalls == [w \in {"monitored_at", "dist"} |->
                IF w = "dist" THEN "Dist" ELSE "MonitoredAt"]

\* The binary operators from the loosest to the tightest, as next() chains
\* them: every operator is a level of its own.
Precedences == <<"++", "||", "&&", "<=", ">=", "<", ">", "==", "-", "+", "*", "/", "%">>

-----------------------------------------------------------------------------
RECURSIVE ParseValue(_), ValueList(_, _)
\* The values of a list up to the closing parenthesis.
ValueList(s, vs) ==
  LET v == ParseValue(s)
  IN IF vs = <<>> /\ At(s, S(")")) THEN Parsed(List(vs), Tail(s))
     ELSE IF ~v.ok THEN Fail
     ELSE IF At(v.rest, S(",")) THEN ValueList(Tail(v.rest), Append(vs, v.e))
     ELSE IF At(v.rest, S(")")) THEN Parsed(List(Append(vs, v.e)), Tail(v.rest))
     ELSE Fail

\* val: a number, a string, a truth value or a list of values.
ParseValue(s) ==
  IF s = <<>> THEN Fail
  ELSE IF s[1][1] \in {"Int", "Float", "Str"} THEN Parsed(s[1], Tail(s))
  ELSE IF s[1] \in {W("true"), W("false")} THEN Parsed(Bool(s[1] = W("true")), Tail(s))
  ELSE IF s[1] = W("List") /\ At(Tail(s), S("(")) THEN ValueList(SubSeq(s, 3, Len(s)), <<>>)
  ELSE Fail

SVal(s) == LET v == ParseValue(s) IN IF v.ok THEN Parsed(Val(v.e), v.rest) ELSE Fail
ParseVar(s) == IF IsWord(s) THEN Parsed(Var(s[1][2]), Tail(s)) ELSE Fail

RECURSIVE NameSet(_, _)
\* var_set after its opening brace.
NameSet(s, vs) ==
  IF vs = <<>> /\ At(s, S("}")) THEN Parsed(vs, Tail(s))
  ELSE IF ~IsWord(s) THEN Fail
  ELSE IF At(Tail(s), S(",")) THEN NameSet(SubSeq(s, 3, Len(s)), Append(vs, s[1][2]))
  ELSE IF At(Tail(s), S("}")) THEN Parsed(Append(vs, s[1][2]), SubSeq(s, 3, Len(s)))
  ELSE Fail

RECURSIVE Sexpr(_), BinaryOp(_, _), Folded(_, _, _), Atom(_), Args(_, _, _), Elements(_, _)

\* paren
ParenExpr(s) ==
  LET r == IF At(s, S("(")) THEN Sexpr(Tail(s)) ELSE Fail
  IN IF r.ok /\ At(r.rest, S(")")) THEN Parsed(r.e, Tail(r.rest)) ELSE Fail

\* sindex: only a value, a variable or a parenthesised expression is indexed.
ParseIndexed(s) ==
  LET base == Orelse(SVal(s), Orelse(ParseVar(s), ParenExpr(s)))
  IN IF /\ base.ok /\ Len(base.rest) >= 3
        /\ base.rest[1] = S("[") /\ base.rest[2][1] = "Int" /\ base.rest[3] = S("]")
     THEN Parsed(SIndex(base.e, base.rest[2][2]), SubSeq(base.rest, 4, Len(base.rest)))
     ELSE Fail

\* The n arguments of a call up to its closing parenthesis.
Args(s, n, es) ==
  LET r == Sexpr(s)
  IN IF ~r.ok THEN Fail
     ELSE IF n = 1 THEN IF At(r.rest, S(")")) THEN Parsed(Append(es, r.e), Tail(r.rest)) ELSE Fail
     ELSE IF At(r.rest, S(",")) THEN Args(Tail(r.rest), n - 1, Append(es, r.e)) ELSE Fail

ParseCall(s) ==
  IF ~(Len(s) >= 2 /\ IsWord(s) /\ s[1][2] \in DOMAIN Calls /\ s[2] = S("(")) THEN Fail
  ELSE LET call == Calls[s[1][2]]
           r == Args(SubSeq(s, 3, Len(s)), call[2], <<>>)
       IN IF r.ok THEN Parsed(Node(call[1], <<>>, r.e), r.rest) ELSE Fail

\* restricted_dynamic
ParseRestricted(s) ==
  LET r == IF Len(s) >= 2 /\ s[1] \in {W("dynamic"), W("eval")} /\ s[2] = S("(")
           THEN Sexpr(SubSeq(s, 3, Len(s))) ELSE Fail
      names == IF r.ok /\ Len(r.rest) >= 2 /\ r.rest[1] = S(",") /\ r.rest[2] = S("{")
               THEN NameSet(SubSeq(r.rest, 3, Len(r.rest)), <<>>) ELSE Fail
  IN IF names.ok /\ At(names.rest, S(")"))
     THEN Parsed(RestrictedDynamic(r.e, names.e), Tail(names.rest)) ELSE Fail

\* monitored_at and dist
ParseNames(s) ==
  IF /\ Len(s) >= 6 /\ IsWord(s) /\ s[1][2] \in DOMAIN NameCalls
     /\ s[2] = S("(") /\ s[3][1] = "w" /\ s[4] = S(",") /\ s[5][1] = "w" /\ s[6] = S(")")
  THEN Parsed(Names(NameCalls[s[1][2]], s[3][2], s[5][2]), SubSeq(s, 7, Len(s)))
  ELSE Fail

\* Wrong: a negation of all that follows.
NegatesAll(s) ==
  LET r == IF At(s, S("!")) THEN Sexpr(Tail(s)) ELSE Fail
  IN IF r.ok THEN Parsed(Op1("Not", r.e), r.rest) ELSE Fail

\* not: of the next atom only.
ParseNot(s) ==
  LET r == IF At(s, S("!")) THEN Atom(Tail(s)) ELSE Fail
  IN IF r.ok THEN Parsed(Op1("Not", r.e), r.rest) ELSE Fail

ParseIf(s) ==
  LET After(word, r) == IF r.ok /\ At(r.rest, W(word)) THEN Sexpr(Tail(r.rest)) ELSE Fail
      b == After("if", Parsed(0, s))
      e1 == After("then", b)
      e2 == After("else", e1)
  IN IF e2.ok THEN Parsed(If(b.e, e1.e, e2.e), e2.rest) ELSE Fail

\* The expressions of a list up to the closing parenthesis.
Elements(s, es) ==
  LET r == Sexpr(s)
  IN IF es = <<>> /\ At(s, S(")")) THEN Parsed(Node("List", <<>>, es), Tail(s))
     ELSE IF ~r.ok THEN Fail
     ELSE IF At(r.rest, S(",")) THEN Elements(Tail(r.rest), Append(es, r.e))
     ELSE IF At(r.rest, S(")")) THEN Parsed(Node("List", <<>>, Append(es, r.e)), Tail(r.rest))
     ELSE Fail

ParseList(s) ==
  IF Len(s) >= 2 /\ s[1] = W("List") /\ s[2] = S("(") THEN Elements(SubSeq(s, 3, Len(s)), <<>>)
  ELSE Fail

\* atom: the alternatives in the order of its three groups.
Atom(s) ==
  LET indexed == ParseIndexed(s)  negated == ParseNot(s)  restricted == ParseRestricted(s)
      called == ParseCall(s)      value == SVal(s)        ifelse == ParseIf(s)
      names == ParseNames(s)      list == ParseList(s)
  IN Orelse(indexed, Orelse(negated, Orelse(restricted, Orelse(called, Orelse(value,
       Orelse(ifelse, Orelse(names, Orelse(list, Orelse(ParseVar(s), ParenExpr(s))))))))))

\* separated_foldl1: operands of the next level joined by this level's symbol,
\* to the left; a symbol with no operand after it is given back.
Folded(level, left, s) ==
  LET r == IF At(s, S(Precedences[level])) THEN BinaryOp(level + 1, Tail(s)) ELSE Fail
  IN IF r.ok THEN Folded(level, BinOp(Precedences[level], left, r.e), r.rest)
     ELSE Parsed(left, s)

BinaryOp(level, s) ==
  IF level > Len(Precedences) THEN Atom(s)
  ELSE LET r == BinaryOp(level + 1, s)
       IN IF r.ok THEN Folded(level, r.e, r.rest) ELSE Fail

Sexpr(s) == BinaryOp(1, s)

-----------------------------------------------------------------------------
\* lola_specification: declarations <<name, type>>, "none" where no type is
\* annotated, and assignments <<name, expression>>.  Of two assignments to a
\* variable, or two annotations of it, the last one is kept.
LolaSpecification(ins, outs, decls) ==
  LET LastOf(pairs, v) == pairs[SelectLastInSeq(pairs, LAMBDA p : p[1] = v)][2]
      typed == SelectSeq(ins \o outs, LAMBDA d : d[2] # "none")
      First(pairs) == [i \in DOMAIN pairs |-> pairs[i][1]]
  IN LOLASpecification(First(ins), First(outs),
       [v \in ToSet(First(decls)) |-> LastOf(decls, v)],
       [v \in ToSet(First(typed)) |-> LastOf(typed, v)])
=============================================================================
