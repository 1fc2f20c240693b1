-------------------------------- MODULE Lola --------------------------------
(***************************************************************************)
(* From the text of a specification to its output streams: parse, restrict *)
(* the dynamics, build the dependency graph, type-check, and monitor rows  *)
(* of input as they come, by the untyped and by the typed semantics.       *)
(* Every output is computed anew from the rows so far.                     *)
(***************************************************************************)
EXTENDS LolaStreams, LolaTypes, DepGraph

CONSTANTS
  Sources,    \* specifications: declared inputs and outputs, assigned texts
  Rows,       \* the rows an input provider may deliver
  MaxRows,    \* bound on the rows delivered
  Horizon     \* bound on the elements looked at of a stream that never ends

Modes == {"untyped", "typed"}

VARIABLES
  source,     \* the specification as text
  stage,      \* "text", "parsed", "checked"
  spec,       \* the parsed specification
  deps,       \* its dependency graph
  verdict,    \* what the type checker said
  rows,       \* rows of input delivered
  closed,     \* the inputs have ended
  out         \* what each output has produced, by mode
vars == <<source, stage, spec, deps, verdict, rows, closed, out>>

NoSpec == LOLASpecification(<<>>, <<>>, <<>>, <<>>)

Run(mode, rws, cl) ==
  [mode |-> mode, spec |-> spec, rows |-> rws, closed |-> cl, horizon |-> Horizon]

\* Where the stream of an output stops.
StopAt(mode, v) ==
  StreamAt(Run(mode, rows, closed), v, Len(out[mode][v]) + 1, {})

Init ==
  /\ source \in Sources
  /\ stage = "text" /\ spec = NoSpec /\ deps = Graph({}, <<>>) /\ verdict = "none"
  /\ rows = <<>> /\ closed = FALSE
  /\ out = [m \in Modes |-> <<>>]

\* The whole text of every assignment is an expression, or the program ends.
Parse ==
  /\ stage = "text"
  /\ LET parsed == [i \in DOMAIN source.decls |-> Sexpr(source.decls[i][2])]
         decls == [i \in DOMAIN source.decls |-> <<source.decls[i][1], parsed[i].e>>]
     IN IF \A i \in DOMAIN parsed : parsed[i].ok /\ parsed[i].rest = <<>>
        THEN /\ stage' = "parsed"
             /\ spec' = LolaSpecification(source.ins, source.outs, decls)
             /\ deps' = NewGraph(spec')
        ELSE stage' = "error" /\ UNCHANGED <<spec, deps>>
  /\ UNCHANGED <<source, verdict, rows, closed, out>>

\* Only the typed semantics needs the type checker to accept.
Check ==
  /\ stage = "parsed" /\ stage' = "checked"
  /\ verdict' = TypeCheck(spec)
  /\ out' = [m \in Modes |-> [v \in ToSet(spec.outputs) |->
               IF m = "typed" /\ verdict' # "accepted" THEN <<>>
               ELSE Emitted(Run(m, <<>>, FALSE), v, 1)]]
  /\ UNCHANGED <<source, spec, deps, rows, closed>>

\* More input, or its end.  A panic of any stream ends the process.
Crashed(m) == \E v \in ToSet(spec.outputs) : StopAt(m, v)[1] = "Panic"

Deliver(rws, cl) ==
  /\ stage = "checked" /\ ~closed
  /\ rows' = rws /\ closed' = cl
  /\ out' = [m \in Modes |-> [v \in ToSet(spec.outputs) |->
               IF (m = "typed" /\ verdict # "accepted") \/ Crashed(m) THEN out[m][v]
               ELSE Emitted(Run(m, rws, cl), v, 1)]]
  /\ UNCHANGED <<source, stage, spec, deps, verdict>>

Row == /\ Len(rows) < MaxRows
       /\ \E r \in Rows : Deliver(Append(rows, [v \in ToSet(spec.inputs) |-> r[v]]), closed)
Close == Deliver(rows, TRUE)

Next == Parse \/ Check \/ Row \/ Close
Spec == Init /\ [][Next]_vars
-----------------------------------------------------------------------------
\* The expressions of the specification, and all their subexpressions.
RECURSIVE Subexprs(_)
Subexprs(e) == {e} \union UNION {Subexprs(e.args[i]) : i \in DOMAIN e.args}
Assigned == {spec.exprs[v] : v \in DOMAIN spec.exprs}
AllExprs == UNION {Subexprs(e) : e \in Assigned}

Emitting(m) == stage = "checked" /\ (m = "typed" => verdict = "accepted")

-----------------------------------------------------------------------------
\* Printing and parsing.  An if printed as the left operand of an operator
\* takes the operator into its else branch.
Dangles(e) == e.op = "If" \/ (e.op = "Not" /\ e.args[1].op \in {"If", "Not"}
                              /\ "If" \in {x.op : x \in Subexprs(e.args[1])})

\* The expressions whose text means what they are: no comparison but == and
\* <=, no list, string or float, and brackets only after an operand that
\* starts with a parenthesis or is a name or a number.
Printable(e) ==
  /\ e.op # "List"
  /\ e.op = "Val" => e.at[2][1] \in {"Int", "Bool"}
  /\ e.op = "BinOp" => e.at[2] = PrintedSymbol(e.at[2]) /\ ~Dangles(e.args[1])
  /\ e.op = "SIndex" => e.args[1].op \in {"Val", "Var", "BinOp"}

\* Display and the parser are inverse to each other on exactly the printable
\* expressions: what the monitor logs as its property is the property it runs,
\* whatever way operators of the thirteen levels are nested.
RoundTrip ==
  \A e \in Assigned :
    LET r == Sexpr(Display(e))
    IN (r.ok /\ r.rest = <<>> /\ r.e = e) <=> \A x \in Subexprs(e) : Printable(x)

-----------------------------------------------------------------------------
\* The type checker.
TypesOf == [v \in DOMAIN spec.exprs |-> TypeCheckRaw(spec.exprs[v], spec.types).type]
Honest == \A v \in DOMAIN spec.exprs : v \in DOMAIN spec.types => spec.types[v] = TypesOf[v]
InputsTyped == \A i \in DOMAIN rows : \A v \in DOMAIN rows[i] :
                 v \in DOMAIN spec.types => rows[i][v][1] = spec.types[v]
Values(m) == UNION {ToSet(out[m][v]) : v \in DOMAIN out[m]}

\* An accepted specification whose annotations are those of its assignments
\* and of its inputs computes values of the checked types, and meets a type
\* error only when an Unknown reaches another variable.
TypeSound ==
  (Emitting("typed") /\ Honest /\ InputsTyped) =>
    \A v \in DOMAIN out["typed"] :
      /\ \A i \in DOMAIN out["typed"][v] : out["typed"][v][i][1] \in {"Unknown", TypesOf[v]}
      /\ StopAt("typed", v) = Panic("type") => Unknown \in Values("typed")

\* Where each index has its default, the typed and the untyped semantics of an
\* accepted specification produce the same streams and stop the same way.
DefaultedBelow(e) ==
  \A x \in Subexprs(e) : \A i \in DOMAIN x.args :
    x.args[i].op = "SIndex" => x.op = "Default" /\ i = 1
SemanticsAgree ==
  (/\ Emitting("typed") /\ Honest /\ InputsTyped
   /\ \A e \in Assigned : e.op # "SIndex" /\ DefaultedBelow(e)
   /\ \A e \in AllExprs : e.op # "RestrictedDynamic") =>
    \A v \in DOMAIN out["typed"] :
      out["typed"][v] = out["untyped"][v] /\ StopAt("typed", v) = StopAt("untyped", v)

-----------------------------------------------------------------------------
\* What is emitted stays emitted: delivering another row, or closing the
\* inputs, only appends to the outputs computed from the rows before.
OutputsGrow ==
  [][stage = "checked" =>
       \A m \in Modes : \A v \in DOMAIN out[m] : IsPrefix(out[m][v], out'[m][v])]_vars

\* What an assignment as written really reads, with the total delay, as edges
\* <<from, to, delay>>: a dynamic may read whatever its context offers, except
\* the variable it is assigned to.
Written == [i \in DOMAIN source.decls |-> Sexpr(source.decls[i][2]).e]
Offered(e) == IF e.op = "Dynamic" THEN ToSet(spec.inputs \o spec.outputs)
              ELSE IF e.op = "RestrictedDynamic" THEN ToSet(e.at[2]) ELSE {}
RECURSIVE Reads(_, _, _)
Reads(e, delay, root) ==
  IF e.op = "Var" THEN {<<root, e.at[2], delay>>}
  ELSE LET d == IF e.op = "SIndex" THEN delay + e.at[2] ELSE delay
       IN UNION {Reads(e.args[i], d, root) : i \in DOMAIN e.args}
            \union {<<root, v, delay>> : v \in Offered(e) \ {root}}
AllReads == UNION {Reads(Written[i], 0, source.decls[i][1]) : i \in DOMAIN Written}

\* No stream waits for a later row, and no defer.
LooksBack == /\ \A r \in AllReads : r[3] <= 0
             /\ \A e \in AllExprs : e.op # "Defer"
Crash == \E v \in ToSet(spec.outputs) : StopAt("untyped", v)[1] = "Panic"
KeepsUp == Crash \/ \A v \in ToSet(spec.outputs) : Len(out["untyped"][v]) >= Len(rows)

\* A specification without a cycle of reads in which no time passes keeps up:
\* after every row each output has produced its element, or the monitor has
\* crashed.  In particular a dynamic never waits for the variable it defines,
\* whatever property it receives.
NeverWaitsForItself ==
  (/\ stage = "checked" /\ LooksBack
   /\ ~InstantCycle(ToSet(spec.inputs \o spec.outputs), AllReads)) => KeepsUp

\* Removing the dependencies of a property gives back the graph from before
\* they were added, also where an assignment already had some of them.
RemoveUndoesAdd ==
  \A v \in DOMAIN spec.exprs : \A e \in Subexprs(spec.exprs[v]) :
    SameEdges(RemoveDependency(AddDependency(deps, v, e), v, e), deps)
=============================================================================
