------------------------- MODULE ConstraintRuntime -------------------------
(***************************************************************************)
(* The constraint-based monitor, runtime/constraints/runtime.rs, beside    *)
(* the stream semantics of the same specification.  Each row of input is   *)
(* one step of the store, one round of sending, and a cleanup.  Two stores *)
(* run: one cleaned by the dependency graph, one by the Empty dependency   *)
(* manager, which keeps everything.                                        *)
(***************************************************************************)
EXTENDS Lola, ConstraintSolver

Managers == {"DepGraph", "Empty"}

VARIABLE cm   \* by dependency manager, a record: alive, the store, the graph of
              \* dependencies, the values sent on each output's channel, and the
              \* values cleaned away before they were sent

time == Len(rows)   \* at the start of a step

\* Record a value of a stream.
Record(stream, t, x) == stream @@ (t :> x)

\* One pass over the output expressions: each is simplified in the store from
\* before the pass, and a constant stays.
SimplifyPass(s, graph) ==
  FoldLeft(LAMBDA acc, v :
             LET r == Simplify(s.exprs[v], time, s, v, acc.deps)
             IN IF s.exprs[v].op = "Val" THEN acc
                ELSE [exprs |-> [acc.exprs EXCEPT ![v] = IF r.kind = "resolved" THEN Val(r.x)
                                                         ELSE IF r.kind = "panic" THEN @ ELSE r.x],
                      deps |-> r.deps, panic |-> acc.panic \/ r.kind = "panic"],
           [exprs |-> s.exprs, deps |-> graph, panic |-> FALSE], spec.outputs)

RECURSIVE SimplifyAll(_, _)
\* The fixed-point iteration of receive_inputs.
SimplifyAgain(s, pass) ==
  IF pass.panic \/ pass.exprs = s.exprs
  THEN [store |-> [s EXCEPT !.exprs = pass.exprs], deps |-> pass.deps, panic |-> pass.panic]
  ELSE SimplifyAll([s EXCEPT !.exprs = pass.exprs], pass.deps)
SimplifyAll(s, graph) == SimplifyAgain(s, SimplifyPass(s, graph))

\* receive_inputs: the row is stored, the output expressions are simplified, and
\* what they are for this row waits to be resolved.
Unfolded(r) ==
  IF r.panic \/ \E v \in DOMAIN spec.exprs : ~Converts(r.store.exprs[v], time)
  THEN [r EXCEPT !.panic = TRUE]
  ELSE [r EXCEPT !.store.unresolved =
          [v \in DOMAIN @ |-> Record(@[v], time, ToAbsolute(r.store.exprs[v], time))]]
ReceiveInputs(s, graph, row) ==
  Unfolded(SimplifyAll([s EXCEPT !.inputs = [v \in DOMAIN @ |-> Record(@[v], time, row[v])]], graph))

\* The outputs waiting, in the order resolve_possible goes through them.
Pending(s) ==
  FlattenSeq([i \in DOMAIN spec.outputs |->
    LET v == spec.outputs[i]
        times == SetToSortSeq(DOMAIN s.unresolved[v], <)
    IN [j \in DOMAIN times |-> <<v, times[j]>>]])

RECURSIVE ResolvePossible(_)
\* Wrong: a single pass.
ResolveOnce(s) ==
  LET r(v, t) == SimplifyAbs(s.unresolved[v][t], time, s)
      Times(v, kind) == {t \in DOMAIN s.unresolved[v] : r(v, t).kind = kind}
  IN [panic |-> FALSE, store |->
       [s EXCEPT !.resolved = [v \in DOMAIN @ |-> @[v] @@ [t \in Times(v, "resolved") |-> r(v, t).x]],
                 !.unresolved = [v \in DOMAIN @ |-> [t \in Times(v, "unresolved") |-> r(v, t).x]]]]

\* What one output that waits, p, simplified to, and the end of a pass.
ResolveOne(acc, p, r) ==
  [resolved |-> IF r.kind = "resolved"
                THEN [acc.resolved EXCEPT ![p[1]] = Record(@, p[2], r.x)] ELSE acc.resolved,
   waiting |-> IF r.kind = "unresolved"
               THEN [acc.waiting EXCEPT ![p[1]] = Record(@, p[2], r.x)] ELSE acc.waiting,
   panic |-> acc.panic \/ r.kind = "panic"]
ResolveAgain(s, pass) ==
  LET after == [s EXCEPT !.resolved = pass.resolved, !.unresolved = pass.waiting]
  IN IF pass.panic \/ pass.resolved = s.resolved THEN [store |-> after, panic |-> pass.panic]
     ELSE ResolvePossible(after)

\* resolve_possible: passes over what waits, at the current time, until one
\* resolves nothing.  A value resolved in a pass is seen by the rest of it; what
\* waits is replaced when the pass ends.
ResolvePossible(s) ==
  ResolveAgain(s, FoldLeft(LAMBDA acc, p : ResolveOne(acc, p,
      SimplifyAbs(s.unresolved[p[1]][p[2]], time, [s EXCEPT !.resolved = acc.resolved])),
    [resolved |-> s.resolved, waiting |-> [v \in DOMAIN s.unresolved |-> <<>>],
     panic |-> FALSE], Pending(s)))

\* At most one value of each output is sent for a row: the next one in order.
SendResolved(s, done) ==
  [v \in DOMAIN done |-> IF KnownAt(s.resolved, v, Len(done[v]))
                         THEN Append(done[v], s.resolved[v][Len(done[v])]) ELSE done[v]]

\* How far back the dependency manager asks for v to be kept; Empty for ever.
Retention(kind, graph, v) ==
  IF kind = "Empty" THEN time + 1
  ELSE IF v \in graph.nodes THEN LongestTimeDependency(graph, v) ELSE 0

\* Wrong: what is exactly as old as the longest dependency goes too.
CleanupTooEarly(kind, s, graph) ==
  LET Kept(v, stream) ==
        [t \in {u \in DOMAIN stream : Retention(kind, graph, v) + u > time + 1} |-> stream[t]]
  IN [s EXCEPT !.inputs = [v \in DOMAIN @ |-> Kept(v, @[v])],
               !.resolved = [v \in DOMAIN @ |-> Kept(v, @[v])]]

\* cleanup, after the time has moved on by one.
Cleanup(kind, s, graph) ==
  LET Kept(v, stream) ==
        [t \in {u \in DOMAIN stream : Retention(kind, graph, v) + u >= time + 1} |-> stream[t]]
  IN [s EXCEPT !.inputs = [v \in DOMAIN @ |-> Kept(v, @[v])],
               !.resolved = [v \in DOMAIN @ |-> Kept(v, @[v])]]

\* A step of the monitor's task: step, send, cleanup.  A panic ends the task.
Settled(kind, m, graph, resolved) ==
  IF resolved.panic THEN [m EXCEPT !.alive = FALSE]
  ELSE [alive |-> TRUE, store |-> Cleanup(kind, resolved.store, graph), deps |-> graph,
        sent |-> SendResolved(resolved.store, m.sent)]
Resolving(kind, m, received) ==
  IF received.panic THEN [m EXCEPT !.alive = FALSE]
  ELSE Settled(kind, m, received.deps, ResolvePossible(received.store))
Stepped(kind, m, row) ==
  IF m.alive THEN Resolving(kind, m, ReceiveInputs(m.store, m.deps, row)) ELSE m

-----------------------------------------------------------------------------
CInit == Init /\ cm = <<>>

\* ConstraintBasedMonitorBuilder.build, output_streams
Started == [alive |-> TRUE, store |-> ModelConstraints(spec), deps |-> deps,
            sent |-> [v \in DOMAIN spec.exprs |-> <<>>]]

CNext ==
  \/ Parse /\ UNCHANGED cm
  \/ Check /\ cm' = [k \in Managers |-> Started]
  \/ Row /\ cm' = [k \in Managers |-> Stepped(k, cm[k], Last(rows'))]
  \/ Close /\ UNCHANGED cm
CSpec == CInit /\ [][CNext]_<<vars, cm>>
-----------------------------------------------------------------------------
Ahead(e) == \E x \in Subexprs(e) : x.op = "SIndex" /\ x.at[2] > 0
Constant(e) == \A x \in Subexprs(e) : x.op \in {"Val", "BinOp"}
Nested(e) == e.op = "SIndex" /\ \E x \in Subexprs(e.args[1]) : x.op = "SIndex"
Symmetric == {"+", "*", "==", "&&", "||"}
ComparesBools(e) == e.op = "BinOp" /\ e.at[2] = "==" /\ TypeCheckRaw(e, spec.types).type = "Bool"
                      /\ TypeCheckRaw(e.args[1], spec.types).type = "Bool"

\* The specifications on which the solver follows the semantics of the streams:
\* well typed, no index inside an index, no update, no truth values compared,
\* no constant on the left of an operator that does not commute, and where
\* anything waits for later rows only sums, products and indices.
Solvable ==
  /\ verdict # "rejected"
  /\ \A e \in AllExprs :
       /\ e.op \notin Unsolved \union {"Update"} /\ ~Nested(e) /\ ~ComparesBools(e)
       /\ e.op = "BinOp" /\ e.at[2] \notin Symmetric => ~Constant(e.args[1]) \/ Constant(e.args[2])
  /\ (\E e \in AllExprs : Ahead(e)) =>
       \A e \in AllExprs : e.op \in {"Var", "Val", "SIndex"} \/ (e.op = "BinOp" /\ e.at[2] \in {"+", "*"})
Reads0 == ~InstantCycle(ToSet(spec.inputs \o spec.outputs), AllReads)

\* For a solvable specification the constraint runtime sends what the streams of
\* the untyped semantics carry, element by element, for either dependency
\* manager; what a cleanup removes is never missed.
ConstraintsFollowStreams ==
  (stage = "checked" /\ Solvable /\ Reads0 /\ ~Crash) =>
    \A k \in Managers : cm[k].alive /\ \A v \in DOMAIN cm[k].sent :
      IsPrefix(cm[k].sent[v], out["untyped"][v])

\* A specification that reads nothing later is computed row by row.
ConstraintsKeepUp ==
  (stage = "checked" /\ Solvable /\ Reads0 /\ ~Crash /\ LooksBack) =>
    \A k \in Managers : \A v \in DOMAIN cm[k].sent : Len(cm[k].sent[v]) = Len(rows)

=============================================================================
